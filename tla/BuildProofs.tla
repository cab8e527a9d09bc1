---------------------------- MODULE BuildProofs -----------------------------
(***************************************************************************)
(* What the two builds make of any workspace, any table of shows and any   *)
(* sky that meet the assumptions.                                          *)
(*                                                                         *)
(* The calendar: every show it holds was resolved from two instants, with  *)
(* a twilight on each of its evenings (SoundShows), and the stretches of   *)
(* such a show hold exactly its dark instants, evening by evening.         *)
(*                                                                         *)
(* The patch: a workspace without defects ends as one patch, Final, whose  *)
(* rows are sound.  Of Final alone follow the one addressing and the       *)
(* harmless stop.  BuildInv says that a build that is done has read a      *)
(* workspace without defects and holds Final, and that one that fails      *)
(* names a defect: row by row, file by file and show by show, what has     *)
(* been accepted so far is what the whole of the input is judged by.       *)
(***************************************************************************)
EXTENDS Build, FiniteSetTheorems, TLAPS

(* A show of the table, resolved.                                          *)
Spanned(start, stop) ==
    [start |-> start, stop |-> stop, dark |-> DarkStretches(start, stop)]

SoundShows ==
    {Spanned(span[1], span[2]) :
        span \in {s \in Instants \X Instants : ~NeverTwilight(s[1], s[2])}}

ShowsSound == shows \in Seq(SoundShows)

(* The greater of two.                                                     *)
LEMMA MaxOfTwo ==
    ASSUME NEW a \in Int, NEW b \in Int
    PROVE  Max({a, b}) = IF a >= b THEN a ELSE b
<1> DEFINE m == IF a >= b THEN a ELSE b
<1>1. m \in {a, b} /\ \A y \in {a, b} : m >= y
  OBVIOUS
<1>2. \A x \in {a, b} : (\A y \in {a, b} : x >= y) => x = m
  OBVIOUS
<1> QED BY <1>1, <1>2 DEF Max

(* The lesser of two.                                                      *)
LEMMA MinOfTwo ==
    ASSUME NEW a \in Int, NEW b \in Int
    PROVE  Min({a, b}) = IF a <= b THEN a ELSE b
<1> DEFINE m == IF a <= b THEN a ELSE b
<1>1. m \in {a, b} /\ \A y \in {a, b} : m <= y
  OBVIOUS
<1>2. \A x \in {a, b} : (\A y \in {a, b} : x <= y) => x = m
  OBVIOUS
<1> QED BY <1>1, <1>2 DEF Min

(* An instant and its date are numbers.                                    *)
LEMMA DateIsInt ==
    ASSUME NEW t \in Instants
    PROVE  t \in Int /\ Date(t) \in Int
BY ShowTableAssumption DEF Date, Local

(* A local time that resolves is one of the instants.                      *)
LEMMA ResolveIsInstant ==
    ASSUME NEW local, Resolves(local)
    PROVE  Resolve(local) \in Instants
<1>1. Moments(local) # {}
  BY FS_EmptySet DEF Resolves
<1> QED BY <1>1 DEF Moments, Resolve

(* A show's stretches hold exactly its dark instants.                      *)
LEMMA StretchesAreDark ==
    ASSUME NEW start \in Instants, NEW stop \in Instants, ~NeverTwilight(start, stop),
           NEW t \in start .. stop - 1
    PROVE  (\E span \in DarkStretches(start, stop) : span.start <= t /\ t < span.stop)
           <=> \E date \in DOMAIN Dusk :
                  /\ date + 1 \in DOMAIN Dawn /\ NoTwilight \notin {Dusk[date], Dawn[date + 1]}
                  /\ Dusk[date] <= t /\ t < Dawn[date + 1]
<1> DEFINE Stretch(e) == [start |-> Max({Dusk[e], start}), stop |-> Min({Dawn[e + 1], stop})]
<1>1. /\ start \in Int /\ stop \in Int /\ t \in Int /\ start <= t /\ t < stop
      /\ Date(start) \in Int /\ Date(stop) \in Int
  BY DateIsInt
<1>2. t \in Instants /\ Date(t) \in Int /\ Date(start) <= Date(t) /\ Date(t) <= Date(stop)
  <2>1. t \in Instants
    BY <1>1, SkyAssumption
  <2> QED BY <1>1, <2>1, DateIsInt, SkyAssumption
<1>3. ASSUME NEW e \in Evenings(start, stop)
      PROVE  /\ e \in DOMAIN Dusk /\ e + 1 \in DOMAIN Dawn /\ e \in Int
             /\ NoTwilight \notin {Dusk[e], Dawn[e + 1]}
             /\ Dusk[e] \in Int /\ Dawn[e + 1] \in Int
  <2>1. e \in Int /\ e \in Date(start) - 1 .. Date(stop) /\ e + 1 \in Date(start) .. Date(stop) + 1
    BY <1>1, <1>3 DEF Evenings
  <2>2. e \in DOMAIN Dusk /\ e + 1 \in DOMAIN Dawn
    BY <2>1, SkyAssumption
  <2>3. NoTwilight \notin {Dusk[e], Dawn[e + 1]}
    BY <1>3 DEF NeverTwilight
  <2> QED BY <2>1, <2>2, <2>3, SkyAssumption
<1>4. ASSUME NEW e \in Evenings(start, stop)
      PROVE  Stretch(e).start <= t /\ t < Stretch(e).stop <=> Dusk[e] <= t /\ t < Dawn[e + 1]
  <2>1. Stretch(e).start = (IF Dusk[e] >= start THEN Dusk[e] ELSE start)
    BY <1>1, <1>3, <1>4, MaxOfTwo
  <2>2. Stretch(e).stop = (IF Dawn[e + 1] <= stop THEN Dawn[e + 1] ELSE stop)
    BY <1>1, <1>3, <1>4, MinOfTwo
  <2> QED BY <1>1, <1>3, <1>4, <2>1, <2>2
<1>5. ASSUME NEW span \in DarkStretches(start, stop), span.start <= t, t < span.stop
      PROVE  \E date \in DOMAIN Dusk :
                /\ date + 1 \in DOMAIN Dawn /\ NoTwilight \notin {Dusk[date], Dawn[date + 1]}
                /\ Dusk[date] <= t /\ t < Dawn[date + 1]
  <2>1. PICK e \in Evenings(start, stop) : span = Stretch(e)
    BY <1>5 DEF DarkStretches
  <2>2. Dusk[e] <= t /\ t < Dawn[e + 1]
    BY <1>4, <1>5, <2>1
  <2> QED BY <1>3, <2>2
<1>6. ASSUME NEW date \in DOMAIN Dusk,
             date + 1 \in DOMAIN Dawn, NoTwilight \notin {Dusk[date], Dawn[date + 1]},
             Dusk[date] <= t, t < Dawn[date + 1]
      PROVE  \E span \in DarkStretches(start, stop) : span.start <= t /\ t < span.stop
  <2>1. date \in Int /\ date <= Date(t) /\ Date(t) <= date + 1
    BY <1>2, <1>6, SkyAssumption
  <2>2. date \in Evenings(start, stop)
    BY <1>1, <1>2, <2>1 DEF Evenings
  <2>3. Stretch(date).start <= t /\ t < Stretch(date).stop
    BY <1>4, <1>6, <2>2
  <2>4. Stretch(date).start \in Int /\ Stretch(date).stop \in Int
    BY <1>1, <1>3, <2>2, MaxOfTwo, MinOfTwo
  <2>5. Stretch(date).start < Stretch(date).stop
    BY <1>1, <2>3, <2>4
  <2>6. Stretch(date) \in {Stretch(e) : e \in Evenings(start, stop)}
    BY <2>2
  <2>7. Stretch(date) \in DarkStretches(start, stop)
    BY <2>5, <2>6 DEF DarkStretches
  <2> QED BY <2>3, <2>7
<1> QED BY <1>5, <1>6

(* A show the calendar accepts resolves to a sound one.                    *)
LEMMA ShowResolvesSound ==
    ASSUME NEW show, NEW resolved, ShowComplaints(show, resolved) = {}
    PROVE  ResolvedShow(show) \in SoundShows
<1> DEFINE start == Resolve(show.start)
           stop  == Resolve(show.stop)
<1>1. Resolves(show.start) /\ Resolves(show.stop)
  BY DEF ShowComplaints
<1>2. start \in Instants /\ stop \in Instants
  BY <1>1, ResolveIsInstant
<1>3. ~NeverTwilight(start, stop)
  BY <1>1 DEF ShowComplaints
<1>4. ResolvedShow(show) = Spanned(start, stop)
  BY DEF ResolvedShow, Spanned
<1>5. /\ <<start, stop>> \in Instants \X Instants
      /\ <<start, stop>>[1] = start /\ <<start, stop>>[2] = stop
  BY <1>2
<1> QED BY <1>3, <1>4, <1>5 DEF SoundShows

(* Every step keeps the shows resolved sound.                              *)
LEMMA NextShowsSound == ShowsSound /\ [Next]_vars => ShowsSound'
<1> SUFFICES ASSUME ShowsSound, [Next]_vars PROVE ShowsSound'
  OBVIOUS
<1>1. CASE ResolveShow
  <2> DEFINE show == input.shows[next]
  <2>1. CASE ShowComplaints(show, shows) # {}
    BY <1>1, <2>1 DEF ResolveShow, Refuse, readVars, ShowsSound
  <2>2. CASE ShowComplaints(show, shows) = {}
    <3>1. shows' = Append(shows, ResolvedShow(show))
      BY <1>1, <2>2 DEF ResolveShow
    <3> QED BY <2>2, <3>1, ShowResolvesSound DEF ShowsSound
  <2> QED BY <2>1, <2>2
<1>2. CASE OtherBuild
  BY <1>2 DEF OtherBuild, ShowsSound
<1>3. CASE UNCHANGED shows
  BY <1>3 DEF ShowsSound
<1>4. ASSUME ParseSacn \/ ParseFixture \/ ParsePatch \/ LoadDefinition
             \/ ResolveDefinition \/ Ingest \/ Address \/ FindPlace \/ WriteCalendar
             \/ UNCHANGED vars
      PROVE  UNCHANGED shows
  BY <1>4 DEF ParseSacn, ParseFixture, ParsePatch, LoadDefinition, ResolveDefinition, Ingest,
              Address, FindPlace, WriteCalendar, Refuse, Onward, vars, readVars
<1> QED BY <1>1, <1>2, <1>3, <1>4 DEF Next

(* A show's dark stretches hold exactly its dark instants, for any table,  *)
(* zone and sun that meet SkyAssumption (calendar.rs:133-160).             *)
THEOREM DarkIsDarkAlways == Spec => []DarkIsDark
<1>1. Init => ShowsSound
  BY DEF Init, ShowsSound
<1>2. ShowsSound => DarkIsDark
  <2> SUFFICES ASSUME ShowsSound, NEW show \in ToSet(shows), NEW t \in show.start .. show.stop - 1
               PROVE  (\E span \in show.dark : span.start <= t /\ t < span.stop)
                      <=> \E date \in DOMAIN Dusk :
                             /\ date + 1 \in DOMAIN Dawn
                             /\ NoTwilight \notin {Dusk[date], Dawn[date + 1]}
                             /\ Dusk[date] <= t /\ t < Dawn[date + 1]
    BY DEF DarkIsDark
  <2>1. show \in SoundShows
    BY DEF ShowsSound, ToSet
  <2>2. PICK a \in Instants, b \in Instants : ~NeverTwilight(a, b) /\ show = Spanned(a, b)
    BY <2>1 DEF SoundShows
  <2>3. show.start = a /\ show.stop = b /\ show.dark = DarkStretches(a, b)
    BY <2>2 DEF Spanned
  <2>4. t \in a .. b - 1
    BY <2>3
  <2> QED BY <2>2, <2>3, <2>4, StretchesAreDark
<1> QED BY <1>1, <1>2, NextShowsSound, PTL DEF Spec

-----------------------------------------------------------------------------

(* A set of numbers has a least one.                                       *)
LEMMA LeastOf ==
    ASSUME NEW S \in SUBSET Nat, S # {}
    PROVE  Min(S) \in S /\ \A y \in S : Min(S) <= y
<1> DEFINE R == OpToRel(<, Nat)
<1>1. R = {pair \in Nat \X Nat : pair[1] < pair[2]}
  BY DEF OpToRel
<1> HIDE DEF R
<1>2. PICK x \in S : \A y \in S : ~ (<<y, x>> \in R)
  BY NatLessThanWellFounded, WFMin DEF R
<1>3. ASSUME NEW y \in S PROVE x <= y
  <2>1. x \in Nat /\ y \in Nat /\ ~ (<<y, x>> \in R)
    BY <1>2
  <2>2. y < x => <<y, x>> \in Nat \X Nat /\ <<y, x>>[1] < <<y, x>>[2]
    BY <2>1
  <2> QED BY <1>1, <2>1, <2>2
<1> QED BY <1>3 DEF Min

(* A set of numbers that is bounded has a greatest one.                    *)
LEMMA GreatestOf ==
    ASSUME NEW S \in SUBSET Nat, S # {}, NEW n \in Nat, \A y \in S : y <= n
    PROVE  Max(S) \in S /\ \A y \in S : Max(S) >= y
<1> DEFINE B == {b \in Nat : \A y \in S : y <= b}
           m == Min(B)
<1>1. m \in B /\ \A b \in B : m <= b
  BY LeastOf, n \in B
<1>2. m \in S
  <2> SUFFICES ASSUME m \notin S PROVE FALSE
    OBVIOUS
  <2> HIDE DEF m
  <2>1. PICK y \in S : TRUE
    OBVIOUS
  <2>2. m \in Nat /\ y <= m /\ m # y
    BY <1>1
  <2>3. m - 1 \in B
    BY <1>1, <2>2
  <2> QED BY <1>1, <2>2, <2>3
<1> HIDE DEF m
<1>3. \A y \in S : m >= y
  BY <1>1
<1> QED BY <1>2, <1>3 DEF Max

(* Sorted is S in an order: each of its numbers once, by key.              *)
LEMMA SortedOf ==
    ASSUME NEW S \in SUBSET Nat, IsFiniteSet(S), NEW key, \A i \in S : key[i] \in Nat
    PROVE  /\ Cardinality(S) \in Nat
           /\ Sorted(S, key) \in [1 .. Cardinality(S) -> S]
           /\ \A i \in S : \E n \in 1 .. Cardinality(S) : Sorted(S, key)[n] = i
           /\ \A m, n \in 1 .. Cardinality(S) :
                 m < n => /\ Sorted(S, key)[m] # Sorted(S, key)[n]
                          /\ key[Sorted(S, key)[m]] <= key[Sorted(S, key)[n]]
<1> DEFINE before(i) == {j \in S : key[j] < key[i] \/ (key[j] = key[i] /\ j < i)}
           N == Cardinality(S)
           rank == [i \in S |-> Cardinality(before(i)) + 1]
           s == Sorted(S, key)
<1>1. N \in Nat
  BY FS_CardinalityType
<1>2. ASSUME NEW i \in S
      PROVE  IsFiniteSet(before(i)) /\ Cardinality(before(i)) \in Nat /\ Cardinality(before(i)) < N
  <2>1. before(i) \in SUBSET S /\ i \notin before(i)
    OBVIOUS
  <2>2. IsFiniteSet(before(i)) /\ Cardinality(before(i)) <= N /\ Cardinality(before(i)) # N
    BY <2>1, FS_Subset
  <2>3. Cardinality(before(i)) \in Nat
    BY <2>2, FS_CardinalityType
  <2> HIDE DEF before, N
  <2> QED BY <1>1, <2>2, <2>3
<1>3. ASSUME NEW i \in S, NEW j \in S, i \in before(j)
      PROVE  Cardinality(before(i)) < Cardinality(before(j))
  <2>1. key[i] < key[j] \/ (key[i] = key[j] /\ i < j)
    BY <1>3
  <2>2. ASSUME NEW k \in S, key[k] < key[i] \/ (key[k] = key[i] /\ k < i)
        PROVE  key[k] < key[j] \/ (key[k] = key[j] /\ k < j)
    <3>1. key[k] \in Nat /\ key[i] \in Nat /\ key[j] \in Nat /\ k \in Nat /\ i \in Nat /\ j \in Nat
      OBVIOUS
    <3> QED BY <2>1, <2>2, <3>1
  <2>3. before(i) \in SUBSET before(j)
    BY <2>2
  <2>4. i \notin before(i)
    OBVIOUS
  <2>5. /\ Cardinality(before(i)) <= Cardinality(before(j))
        /\ Cardinality(before(i)) # Cardinality(before(j))
    BY <1>2, <1>3, <2>3, <2>4, FS_Subset
  <2> HIDE DEF before
  <2> QED BY <1>2, <2>5
<1>4. \A i, j \in S : i # j => i \in before(j) \/ j \in before(i)
  OBVIOUS
<1>5. rank \in [S -> 1 .. N]
  <2>1. \A c \in Nat : c < N => c + 1 \in 1 .. N
    BY <1>1
  <2> HIDE DEF before, N
  <2> QED BY <1>2, <2>1
<1>6. \A i, j \in S : i # j => rank[i] # rank[j]
  <2> SUFFICES ASSUME NEW i \in S, NEW j \in S, i # j PROVE rank[i] # rank[j]
    OBVIOUS
  <2> HIDE DEF before
  <2> QED BY <1>2, <1>3, <1>4
<1>7. rank \in Surjection(S, 1 .. N)
  <2>1. rank \in Injection(S, 1 .. N)
    BY <1>5, <1>6 DEF Injection, IsInjective
  <2>2. IsFiniteSet(1 .. N) /\ Cardinality(1 .. N) = N
    BY <1>1, FS_Interval
  <2> HIDE DEF rank
  <2> QED BY <2>1, <2>2, FS_Injection
<1>8. ASSUME NEW n \in 1 .. N
      PROVE  s[n] \in S /\ rank[s[n]] = n
  <2>1. PICK i \in S : rank[i] = n
    BY <1>7 DEF Surjection
  <2>2. Cardinality(before(i)) = n - 1
    BY <1>2, <2>1
  <2>3. s[n] = CHOOSE j \in S : Cardinality(before(j)) = n - 1
    BY DEF Sorted
  <2> HIDE DEF before, s
  <2>4. s[n] \in S /\ Cardinality(before(s[n])) = n - 1
    BY <2>2, <2>3
  <2>5. rank[s[n]] = Cardinality(before(s[n])) + 1
    BY <2>4
  <2> QED BY <1>1, <2>4, <2>5
<1>9. s \in [1 .. N -> S]
  <2>1. s = [n \in 1 .. N |-> CHOOSE i \in S : Cardinality(before(i)) = n - 1]
    BY Zenon DEF Sorted
  <2> HIDE DEF s, N, before
  <2> QED BY <1>8, <2>1
<1>10. \A i \in S : \E n \in 1 .. N : s[n] = i
  <2> SUFFICES ASSUME NEW i \in S PROVE \E n \in 1 .. N : s[n] = i
    OBVIOUS
  <2> HIDE DEF s, rank
  <2>1. rank[i] \in 1 .. N
    BY <1>5
  <2> QED BY <1>6, <1>8, <2>1
<1>11. ASSUME NEW m \in 1 .. N, NEW n \in 1 .. N, m < n
       PROVE  s[m] # s[n] /\ key[s[m]] <= key[s[n]]
  <2> HIDE DEF s
  <2>1. s[m] \in S /\ s[n] \in S /\ rank[s[m]] = m /\ rank[s[n]] = n
    BY <1>8
  <2>2. s[m] # s[n]
    BY <1>11, <2>1
  <2>3. s[n] \notin before(s[m])
    <3> SUFFICES ASSUME s[n] \in before(s[m]) PROVE FALSE
      OBVIOUS
    <3>1. Cardinality(before(s[n])) < Cardinality(before(s[m]))
      BY <1>3, <2>1
    <3>2. m = Cardinality(before(s[m])) + 1 /\ n = Cardinality(before(s[n])) + 1
      BY <2>1
    <3>3. Cardinality(before(s[m])) \in Nat /\ Cardinality(before(s[n])) \in Nat
      BY <1>2, <2>1
    <3> HIDE DEF before, rank
    <3> QED BY <1>11, <3>1, <3>2, <3>3
  <2>4. s[m] \in before(s[n])
    BY <1>4, <2>1, <2>2, <2>3
  <2>5. key[s[m]] < key[s[n]] \/ key[s[m]] = key[s[n]]
    BY <2>4
  <2>6. key[s[m]] \in Nat /\ key[s[n]] \in Nat
    BY <2>1
  <2> QED BY <2>2, <2>5, <2>6
<1> QED BY <1>1, <1>9, <1>10, <1>11

(* The channels of a fixture, in mode order.                               *)
Mode(channels, n) ==
    DOMAIN channels = 1 .. n /\ \A k \in 1 .. n : channels[k].preset \in {c.preset : c \in Channels}

(* A fine channel is folded into one coarse channel, and no coarse channel *)
(* is folded.                                                              *)
LEMMA FinePartners ==
    ASSUME NEW n \in Nat, NEW channels, Mode(channels, n)
    PROVE  LET F == FineOf(channels) IN
           /\ F = [c \in DOMAIN F |-> F[c]]
           /\ DOMAIN F \in SUBSET (1 .. n) /\ Range(F) \in SUBSET (1 .. n)
           /\ DOMAIN F \cap Range(F) = {}
           /\ \A c, d \in DOMAIN F : F[c] = F[d] => c = d
<1> DEFINE P(i) == Partners(channels, i)
           fines == {i \in DOMAIN channels : P(i) # {}}
           coarse(i) == Min(P(i))
           F == FineOf(channels)
<1>1. DOMAIN F = {coarse(i) : i \in fines} /\ F = [c \in DOMAIN F |-> F[c]]
      /\ \A c \in DOMAIN F : F[c] = Max({i \in fines : coarse(i) = c})
  BY DEF FineOf
<1>2. ASSUME NEW i \in fines
      PROVE  /\ i \in 1 .. n /\ coarse(i) \in 1 .. n
             /\ channels[i].preset # None /\ channels[i].preset.fine
             /\ channels[coarse(i)].preset = Coarse(channels[i].preset)
  <2>1. P(i) \in SUBSET Nat /\ P(i) # {} /\ i \in 1 .. n
    BY <1>2 DEF Partners, Mode
  <2>2. coarse(i) \in P(i)
    BY <2>1, LeastOf
  <2> QED BY <2>1, <2>2 DEF Partners, Mode
<1>3. ASSUME NEW c \in DOMAIN F
      PROVE  F[c] \in fines /\ coarse(F[c]) = c
  <2> DEFINE S == {i \in fines : coarse(i) = c}
  <2>1. S # {} /\ S \in SUBSET Nat /\ \A i \in S : i <= n
    BY <1>1, <1>2, <1>3
  <2>2. Max(S) \in S
    BY <2>1, GreatestOf
  <2> QED BY <1>1, <1>3, <2>2
<1>4. ASSUME NEW i \in fines PROVE channels[coarse(i)].preset.fine = FALSE
  <2> DEFINE p == channels[i].preset
  <2>1. p \in [attribute : STRING, of : STRING, fine : BOOLEAN]
    BY <1>2 DEF Mode, Channels
  <2>2. Coarse(p).fine = FALSE
    BY <2>1 DEF Coarse
  <2> QED BY <1>2, <2>2
<1> HIDE DEF F, fines, coarse
<1>5. \A c \in DOMAIN F : channels[c].preset.fine = FALSE /\ channels[F[c]].preset.fine
  BY <1>2, <1>3, <1>4
<1>6. DOMAIN F \in SUBSET (1 .. n) /\ Range(F) \in SUBSET (1 .. n)
  BY <1>1, <1>2, <1>3 DEF Range
<1>7. DOMAIN F \cap Range(F) = {}
  BY <1>5 DEF Range
<1>8. \A c, d \in DOMAIN F : F[c] = F[d] => c = d
  BY <1>3
<1> QED BY <1>1, <1>6, <1>7, <1>8 DEF F

(* The fields take each channel of the mode once, as a head or as a fine   *)
(* half.                                                                   *)
LEMMA FieldsCover ==
    ASSUME NEW n \in Nat, NEW channels, Mode(channels, n), NEW fs, fs = Fields(channels)
    PROVE  /\ fs \in Seq(ToSet(fs))
           /\ \A j \in DOMAIN fs :
                 fs[j].head \in 1 .. n /\ (fs[j].fine = None \/ fs[j].fine \in 1 .. n)
           /\ \A k \in 1 .. n : \E j \in DOMAIN fs : k \in {fs[j].head, fs[j].fine}
           /\ \A i, j \in DOMAIN fs :
                 /\ fs[i].head # fs[j].fine
                 /\ fs[i].head = fs[j].head => i = j
                 /\ fs[i].fine = fs[j].fine => i = j \/ fs[i].fine = None
<1> DEFINE F == FineOf(channels)
           S == DOMAIN channels \ Range(F)
           key == [k \in DOMAIN channels |-> k]
           h == Sorted(S, key)
           m == Cardinality(S)
           P == Paired(channels)
<1>1. /\ F = [c \in DOMAIN F |-> F[c]]
      /\ DOMAIN F \in SUBSET (1 .. n) /\ Range(F) \in SUBSET (1 .. n)
      /\ DOMAIN F \cap Range(F) = {}
      /\ \A c, d \in DOMAIN F : F[c] = F[d] => c = d
  BY FinePartners
<1>2. S \in SUBSET (1 .. n) /\ S \in SUBSET Nat /\ IsFiniteSet(S) /\ \A i \in S : key[i] \in Nat
  <2>1. S \in SUBSET (1 .. n) /\ \A i \in S : key[i] \in Nat
    BY DEF Mode
  <2>2. IsFiniteSet(1 .. n)
    BY FS_Interval
  <2> QED BY <2>1, <2>2, FS_Subset
<1>3. /\ m \in Nat
      /\ h \in [1 .. m -> S]
      /\ \A i \in S : \E j \in 1 .. m : h[j] = i
      /\ \A i, j \in 1 .. m : i < j => h[i] # h[j]
  <2> HIDE DEF S, key
  <2> QED BY <1>2, SortedOf
<1>4. \A i, j \in 1 .. m : h[i] = h[j] => i = j
  <2> HIDE DEF h, m
  <2> SUFFICES ASSUME NEW i \in 1 .. m, NEW j \in 1 .. m, i # j PROVE h[i] # h[j]
    OBVIOUS
  <2>1. i < j \/ j < i
    BY <1>3
  <2> QED BY <1>3, <2>1
<1>5. P = [k \in DOMAIN h |->
             [head |-> h[k], fine |-> IF h[k] \in DOMAIN F THEN F[h[k]] ELSE None]]
  BY DEF Paired
<1> HIDE DEF F, S, key, h, m, P
<1>6. /\ DOMAIN P = 1 .. m
      /\ \A j \in 1 .. m : /\ P[j].head = h[j]
                           /\ P[j].fine = IF h[j] \in DOMAIN F THEN F[h[j]] ELSE None
  BY <1>3, <1>5
<1>7. /\ DOMAIN fs = 1 .. m
      /\ \A j \in 1 .. m : fs[j].head = P[j].head /\ fs[j].fine = P[j].fine
  BY <1>6 DEF Fields, P
<1>8. fs \in Seq(ToSet(fs))
  <2>1. fs = [j \in 1 .. m |-> fs[j]]
    BY <1>6 DEF Fields, P
  <2>2. \A j \in 1 .. m : fs[j] \in ToSet(fs)
    BY <1>7 DEF ToSet
  <2>3. \A T : (\A j \in 1 .. m : fs[j] \in T) => [j \in 1 .. m |-> fs[j]] \in Seq(T)
    BY <1>3
  <2>4. [j \in 1 .. m |-> fs[j]] \in Seq(ToSet(fs))
    BY <2>2, <2>3
  <2> QED BY ONLY <2>1, <2>4
<1>9. ASSUME NEW j \in DOMAIN fs
      PROVE  /\ fs[j].head \in S /\ j \in 1 .. m /\ fs[j].head = h[j]
             /\ h[j] \in DOMAIN F => fs[j].fine = F[h[j]] /\ F[h[j]] \in Range(F)
             /\ h[j] \notin DOMAIN F => fs[j].fine = None
  BY <1>3, <1>6, <1>7 DEF Range
<1>10. \A i \in 1 .. n : i # None
  BY DefinitionsAssumption
<1>11. ASSUME NEW j \in DOMAIN fs
       PROVE  fs[j].head \in 1 .. n /\ (fs[j].fine = None \/ fs[j].fine \in 1 .. n)
  BY <1>1, <1>2, <1>9
<1>12. ASSUME NEW k \in 1 .. n
       PROVE  \E j \in DOMAIN fs : k \in {fs[j].head, fs[j].fine}
  <2>1. CASE k \in S
    <3>1. PICK j \in 1 .. m : h[j] = k
      BY <1>3, <2>1
    <3>2. j \in DOMAIN fs /\ fs[j].head = k
      BY <1>6, <1>7, <3>1
    <3> QED BY <3>2
  <2>2. CASE k \notin S
    <3>1. PICK c \in DOMAIN F : F[c] = k
      BY <2>2 DEF S, Mode, Range
    <3>2. c \in S
      BY <1>1 DEF S, Mode
    <3>3. PICK j \in 1 .. m : h[j] = c
      BY <1>3, <3>2
    <3>4. j \in DOMAIN fs /\ fs[j].fine = k
      BY <1>6, <1>7, <3>1, <3>3
    <3> QED BY <3>4
  <2> QED BY <2>1, <2>2
<1>13. ASSUME NEW i \in DOMAIN fs, NEW j \in DOMAIN fs
       PROVE  /\ fs[i].head # fs[j].fine
              /\ fs[i].head = fs[j].head => i = j
              /\ fs[i].fine = fs[j].fine => i = j \/ fs[i].fine = None
  <2>1. fs[i].head # fs[j].fine
    <3>1. fs[i].head \notin Range(F) /\ fs[i].head # None
      BY <1>9, <1>10, <1>11 DEF S
    <3> QED BY <1>9, <3>1
  <2>2. fs[i].head = fs[j].head => i = j
    BY <1>4, <1>9
  <2>3. ASSUME fs[i].fine = fs[j].fine, fs[i].fine # None PROVE i = j
    <3>1. h[i] \in DOMAIN F /\ h[j] \in DOMAIN F /\ F[h[i]] = F[h[j]]
      BY <1>9, <2>3
    <3> QED BY <1>1, <1>4, <1>9, <3>1
  <2> QED BY <2>1, <2>2, <2>3
<1> QED BY <1>8, <1>11, <1>12, <1>13

(* A row resolved: its channels at consecutive slots, its fields named     *)
(* apart, and no band of its channels backwards.                           *)
SoundRow(r) ==
    /\ r.address \in Nat /\ r.channels \in Nat
    /\ Mode(r.resolved, r.channels)
    /\ \A k \in 1 .. r.channels :
          /\ r.resolved[k].slot = r.address + k - 1
          /\ r.resolved[k].bands \in Seq({band \in Bands : band.min <= band.max})
    /\ r.fields = Fields(r.resolved)
    /\ \A i, j \in DOMAIN r.fields : r.fields[i].name = r.fields[j].name => i = j

HalvesOf(r) == UNION {Halves(field) : field \in ToSet(r.fields)}

(* A half of a field is known by its channel, and by its path.             *)
LEMMA HalvesApart ==
    ASSUME NEW r, SoundRow(r)
    PROVE  /\ \A h \in HalvesOf(r) :
                 /\ h.index \in 1 .. r.channels
                 /\ \E field \in ToSet(r.fields) : h \in Halves(field)
           /\ \A k \in 1 .. r.channels : \E h \in HalvesOf(r) : h.index = k
           /\ \A g, h \in HalvesOf(r) :
                 /\ g.index = h.index => g = h
                 /\ g.field = h.field /\ g.half = h.half => g = h
<1> DEFINE fs == r.fields
           n == r.channels
<1>1. /\ fs \in Seq(ToSet(fs))
      /\ \A j \in DOMAIN fs :
            fs[j].head \in 1 .. n /\ (fs[j].fine = None \/ fs[j].fine \in 1 .. n)
      /\ \A k \in 1 .. n : \E j \in DOMAIN fs : k \in {fs[j].head, fs[j].fine}
      /\ \A i, j \in DOMAIN fs :
            /\ fs[i].head # fs[j].fine
            /\ fs[i].head = fs[j].head => i = j
            /\ fs[i].fine = fs[j].fine => i = j \/ fs[i].fine = None
  <2>1. n \in Nat /\ Mode(r.resolved, n) /\ fs = Fields(r.resolved)
    BY DEF SoundRow
  <2> HIDE DEF fs, n
  <2> QED BY <2>1, FieldsCover
<1>2. ASSUME NEW h \in HalvesOf(r)
      PROVE  \E j \in DOMAIN fs :
                /\ h \in Halves(fs[j])
                /\ h.field = fs[j].name
                /\ \/ h.half = "whole" /\ h.index = fs[j].head /\ fs[j].fine = None
                   \/ h.half = "coarse" /\ h.index = fs[j].head /\ fs[j].fine # None
                   \/ h.half = "fine" /\ h.index = fs[j].fine /\ fs[j].fine # None
  <2>1. PICK j \in DOMAIN fs : h \in Halves(fs[j])
    BY DEF HalvesOf, ToSet
  <2> QED BY <2>1 DEF Halves
<1>3. \A k \in 1 .. n : k # None
  BY DefinitionsAssumption
<1>4. ASSUME NEW h \in HalvesOf(r)
      PROVE  h.index \in 1 .. n /\ \E field \in ToSet(fs) : h \in Halves(field)
  BY <1>1, <1>2, <1>3 DEF ToSet
<1>5. ASSUME NEW k \in 1 .. n
      PROVE  \E h \in HalvesOf(r) : h.index = k
  <2>1. PICK j \in DOMAIN fs : k \in {fs[j].head, fs[j].fine}
    BY <1>1
  <2>2. \E h \in Halves(fs[j]) : h.index = k
    BY <1>3, <2>1 DEF Halves
  <2>3. fs[j] \in ToSet(fs)
    BY DEF ToSet
  <2> QED BY <2>2, <2>3 DEF HalvesOf
<1>6. ASSUME NEW g \in HalvesOf(r), NEW h \in HalvesOf(r),
             g.index = h.index \/ (g.field = h.field /\ g.half = h.half)
      PROVE  g = h
  <2>1. PICK i \in DOMAIN fs :
           /\ g \in Halves(fs[i])
           /\ g.field = fs[i].name
           /\ \/ g.half = "whole" /\ g.index = fs[i].head /\ fs[i].fine = None
              \/ g.half = "coarse" /\ g.index = fs[i].head /\ fs[i].fine # None
              \/ g.half = "fine" /\ g.index = fs[i].fine /\ fs[i].fine # None
    BY <1>2
  <2>2. PICK j \in DOMAIN fs :
           /\ h \in Halves(fs[j])
           /\ h.field = fs[j].name
           /\ \/ h.half = "whole" /\ h.index = fs[j].head /\ fs[j].fine = None
              \/ h.half = "coarse" /\ h.index = fs[j].head /\ fs[j].fine # None
              \/ h.half = "fine" /\ h.index = fs[j].fine /\ fs[j].fine # None
    BY <1>2
  <2>3. i = j
    <3>1. CASE g.index = h.index
      BY <1>1, <2>1, <2>2, <3>1
    <3>2. CASE g.field = h.field
      BY <2>1, <2>2, <3>2 DEF SoundRow
    <3> QED BY <1>6, <3>1, <3>2
  <2>4. fs[j].head # fs[j].fine
    BY <1>1
  <2> HIDE DEF fs
  <2> QED BY <1>6, <2>1, <2>2, <2>3, <2>4 DEF Halves
<1> QED BY <1>4, <1>5, <1>6

(* Through its instance and its paths a fixture reaches each of its        *)
(* channels, at the slot its place in the mode says, and nothing else.     *)
LEMMA PathsReach ==
    ASSUME NEW r, SoundRow(r)
    PROVE  /\ DOMAIN ChannelPaths(r) = 1 .. r.channels /\ DOMAIN r.resolved = 1 .. r.channels
           /\ \A k \in 1 .. r.channels :
                 /\ ChannelPaths(r)[k] \in DOMAIN Instance(r)
                 /\ Instance(r)[ChannelPaths(r)[k]] = r.address + k - 1
           /\ \A path \in DOMAIN Instance(r) :
                 \E k \in 1 .. r.channels : path = ChannelPaths(r)[k]
<1> DEFINE H == HalvesOf(r)
           n == r.channels
           path(h) == <<h.field, h.half>>
<1>1. /\ \A h \in H : h.index \in 1 .. n
      /\ \A k \in 1 .. n : \E h \in H : h.index = k
      /\ \A g, h \in H : g.index = h.index => g = h
      /\ \A g, h \in H : path(g) = path(h) => g = h
  BY HalvesApart
<1>2. DOMAIN r.resolved = 1 .. n /\ \A k \in 1 .. n : r.resolved[k].slot = r.address + k - 1
  BY DEF SoundRow, Mode
<1>3. /\ DOMAIN ChannelPaths(r) = 1 .. n
      /\ \A k \in 1 .. n : ChannelPaths(r)[k] = path(CHOOSE h \in H : h.index = k)
  BY <1>2 DEF ChannelPaths, HalvesOf
<1>4. /\ DOMAIN Instance(r) = {path(h) : h \in H}
      /\ \A p \in DOMAIN Instance(r) :
            Instance(r)[p] = r.resolved[(CHOOSE h \in H : path(h) = p).index].slot
  BY DEF Instance, HalvesOf
<1> HIDE DEF H, n, path
<1>5. \A h \in H : ChannelPaths(r)[h.index] = path(h)
  <2> TAKE h \in H
  <2>1. h = CHOOSE g \in H : g.index = h.index
    BY <1>1
  <2> QED BY <1>1, <1>3, <2>1
<1>6. \A h \in H : path(h) \in DOMAIN Instance(r) /\ Instance(r)[path(h)] = r.address + h.index - 1
  <2> TAKE h \in H
  <2>1. h = CHOOSE g \in H : path(g) = path(h)
    BY <1>1
  <2> QED BY <1>1, <1>2, <1>4, <2>1
<1>7. ASSUME NEW k \in 1 .. n
      PROVE  /\ ChannelPaths(r)[k] \in DOMAIN Instance(r)
             /\ Instance(r)[ChannelPaths(r)[k]] = r.address + k - 1
  <2>1. PICK h \in H : h.index = k
    BY <1>1
  <2> QED BY <1>5, <1>6, <2>1
<1>8. ASSUME NEW p \in DOMAIN Instance(r)
      PROVE  \E k \in 1 .. n : p = ChannelPaths(r)[k]
  <2>1. PICK h \in H : p = path(h)
    BY <1>4
  <2> QED BY <1>1, <1>5, <2>1
<1> QED BY <1>2, <1>3, <1>7, <1>8 DEF n

(* A firmware's fields are the halves of the rig's, each at the offset of  *)
(* its channel, and only a fine half's name is used twice.                 *)
LEMMA FirmwareAgrees ==
    ASSUME NEW r, SoundRow(r)
    PROVE  /\ {<<field.name, field.offset>> : field \in FirmwareFields(r)}
                = {<<Called(path), Instance(r)[path] - r.address>> : path \in DOMAIN Instance(r)}
           /\ \A a, b \in FirmwareFields(r) :
                 /\ a.offset = b.offset => a = b
                 /\ a.name = b.name =>
                       a = b \/ \E path \in DOMAIN Instance(r) :
                                  path[2] = "fine" /\ a.name = Called(path)
<1> DEFINE fs == r.fields
           n == r.channels
           H == HalvesOf(r)
           path(h) == <<h.field, h.half>>
           offset(index) == r.resolved[index].slot - r.address
           of(h) == [name |-> Called(path(h)), offset |-> offset(h.index),
                     bands |-> IF h.half = "fine" THEN <<>> ELSE r.resolved[h.index].bands]
           head(f) == [name |-> f.name, offset |-> offset(f.head),
                       bands |-> r.resolved[f.head].bands]
           fine(f) == [name |-> Append(f.name, "fine"), offset |-> offset(f.fine), bands |-> <<>>]
<1>1. FirmwareFields(r) = {head(f) : f \in ToSet(fs)}
                          \cup {fine(f) : f \in {g \in ToSet(fs) : g.fine # None}}
  BY DEF FirmwareFields
<1>2. \A k \in 1 .. n : offset(k) = k - 1
  <2>1. r.address \in Nat /\ \A k \in 1 .. n : r.resolved[k].slot = r.address + k - 1
    BY DEF SoundRow
  <2>2. \A a, k \in Int : (a + k - 1) - a = k - 1
    OBVIOUS
  <2> QED BY <2>1, <2>2
<1>3. /\ \A h \in H : h.index \in 1 .. n /\ \E f \in ToSet(fs) : h \in Halves(f)
      /\ \A g, h \in H : g.index = h.index => g = h
      /\ \A g, h \in H : path(g) = path(h) => g = h
      /\ \A f \in ToSet(fs) : \A h \in Halves(f) : h \in H
  BY HalvesApart DEF HalvesOf
<1>4. \A f, g \in ToSet(fs) : f.name = g.name => f = g
  BY DEF SoundRow, ToSet
<1>5. /\ DOMAIN Instance(r) = {path(h) : h \in H}
      /\ \A h \in H : Instance(r)[path(h)] = r.resolved[h.index].slot
  <2>1. /\ DOMAIN Instance(r) = {path(h) : h \in H}
        /\ \A q \in DOMAIN Instance(r) :
              Instance(r)[q] = r.resolved[(CHOOSE h \in H : path(h) = q).index].slot
    BY DEF Instance, HalvesOf
  <2> HIDE DEF H, path
  <2>2. \A h \in H : h = CHOOSE g \in H : path(g) = path(h)
    BY <1>3
  <2> QED BY <2>1, <2>2
<1>6. ASSUME NEW f, NEW h \in Halves(f)
      PROVE  /\ h.field = f.name
             /\ h.half = "fine" => of(h) = fine(f) /\ f.fine # None
             /\ h.half # "fine" => of(h) = head(f)
  <2>1. /\ h.field = f.name
        /\ h.half = "fine" => h.index = f.fine /\ f.fine # None
        /\ h.half # "fine" => h.index = f.head
    BY DEF Halves
  <2>2. Called(path(h)) = IF h.half = "fine" THEN Append(h.field, "fine") ELSE h.field
    BY DEF Called
  <2> QED BY <2>1, <2>2
<1>7. ASSUME NEW f
      PROVE  /\ \E h \in Halves(f) : h.half # "fine"
             /\ f.fine # None => \E h \in Halves(f) : h.half = "fine"
             /\ \A g, h \in Halves(f) : g.half # "fine" /\ h.half # "fine" => g = h
  <2> DEFINE whole == [field |-> f.name, half |-> "whole", index |-> f.head]
             lead == [field |-> f.name, half |-> "coarse", index |-> f.head]
             tail == [field |-> f.name, half |-> "fine", index |-> f.fine]
  <2>1. Halves(f) = IF f.fine = None THEN {whole} ELSE {lead, tail}
    BY DEF Halves
  <2>2. whole.half # "fine" /\ lead.half # "fine" /\ tail.half = "fine"
    OBVIOUS
  <2> HIDE DEF whole, lead, tail
  <2> QED BY <2>1, <2>2
<1>8. \A h \in H : path(h)[2] = h.half /\ of(h).name = Called(path(h))
                   /\ of(h).offset = offset(h.index)
  OBVIOUS
<1>9. \A h \in H : h.half # "fine" => Called(path(h)) = h.field
  BY DEF Called
<1>10. FirmwareFields(r) = {of(h) : h \in H}
  <2> HIDE DEF of, head, fine, H, fs
  <2>1. ASSUME NEW h \in H PROVE of(h) \in FirmwareFields(r)
    <3>1. PICK f \in ToSet(fs) : h \in Halves(f)
      BY <1>3
    <3> QED BY <1>1, <1>6, <3>1
  <2>2. ASSUME NEW f \in ToSet(fs)
        PROVE  /\ \E h \in H : head(f) = of(h)
               /\ f.fine # None => \E h \in H : fine(f) = of(h)
    BY <1>3, <1>6, <1>7
  <2> QED BY <1>1, <2>1, <2>2
<1> HIDE DEF of, H, path, offset, fs, n
<1>11. {<<field.name, field.offset>> : field \in FirmwareFields(r)}
         = {<<Called(q), Instance(r)[q] - r.address>> : q \in DOMAIN Instance(r)}
  <2>1. {<<field.name, field.offset>> : field \in FirmwareFields(r)}
          = {<<Called(path(h)), offset(h.index)>> : h \in H}
    BY <1>8, <1>10
  <2>2. \A h \in H : Instance(r)[path(h)] - r.address = offset(h.index)
    BY <1>5 DEF offset
  <2>3. {<<Called(q), Instance(r)[q] - r.address>> : q \in DOMAIN Instance(r)}
          = {<<Called(path(h)), offset(h.index)>> : h \in H}
    BY <1>5, <2>2
  <2> QED BY <2>1, <2>3
<1>12. ASSUME NEW a \in FirmwareFields(r), NEW b \in FirmwareFields(r)
       PROVE  /\ a.offset = b.offset => a = b
              /\ a.name = b.name =>
                    a = b \/ \E q \in DOMAIN Instance(r) : q[2] = "fine" /\ a.name = Called(q)
  <2>1. PICK g \in H : a = of(g)
    BY <1>10
  <2>2. PICK h \in H : b = of(h)
    BY <1>10
  <2>3. a.offset = b.offset => a = b
    <3>1. g.index - 1 = h.index - 1 => g.index = h.index
      <4>1. g.index \in Int /\ h.index \in Int
        BY <1>3
      <4> QED BY <4>1
    <3>2. a.offset = g.index - 1 /\ b.offset = h.index - 1
      BY <1>2, <1>3, <1>8, <2>1, <2>2
    <3> QED BY <1>3, <2>1, <2>2, <3>1, <3>2
  <2>4. CASE g.half = "fine"
    <3>1. path(g) \in DOMAIN Instance(r) /\ path(g)[2] = "fine" /\ a.name = Called(path(g))
      BY <1>5, <1>8, <2>1, <2>4
    <3> QED BY <2>3, <3>1
  <2>5. CASE h.half = "fine"
    <3>1. path(h) \in DOMAIN Instance(r) /\ path(h)[2] = "fine" /\ b.name = Called(path(h))
      BY <1>5, <1>8, <2>2, <2>5
    <3> QED BY <2>3, <3>1
  <2>6. CASE g.half # "fine" /\ h.half # "fine"
    <3> SUFFICES ASSUME a.name = b.name PROVE g = h
      BY <2>1, <2>2, <2>3
    <3>1. g.field = h.field
      BY <1>8, <1>9, <2>1, <2>2, <2>6
    <3>2. PICK f \in ToSet(fs) : g \in Halves(f)
      BY <1>3
    <3>3. PICK f2 \in ToSet(fs) : h \in Halves(f2)
      BY <1>3
    <3>4. f = f2
      BY <1>4, <1>6, <3>1, <3>2, <3>3
    <3> QED BY <1>7, <2>6, <3>2, <3>3, <3>4
  <2> QED BY <2>4, <2>5, <2>6
<1> QED BY <1>11, <1>12

-----------------------------------------------------------------------------

(* The row a fixture ends as, and the patch a workspace without defects    *)
(* ends as.                                                                *)
Complete(f, file) ==
    [Patched(f) EXCEPT !.resolved = Resolved(f, file), !.fields = Fields(Resolved(f, file))]

Final ==
    [id \in {f.id : f \in ToSet(input.fixtures)} |->
        LET f == CHOOSE f \in ToSet(input.fixtures) : f.id = id
        IN  Complete(f, Directory[f.key])]

Flawless == input \in Inputs /\ RowDefects = {} /\ FileDefects = {} /\ FixtureDefects = {}

(* What parsing makes of a workspace.                                      *)
LEMMA InputTyped ==
    ASSUME input \in Inputs
    PROVE  /\ input.fixtures \in Seq(Fixtures)
           /\ input.directory \in Seq(ToSet(input.directory))
           /\ input.shows \in Seq(ToSet(input.shows))
           /\ \A file \in ToSet(input.directory) :
                 /\ \A n \in DOMAIN file.channels : file.channels[n] \in Channels
                 /\ \A m \in DOMAIN file.modes :
                       file.modes[m] \in Seq([number : Nat, channel : STRING])
BY InputsAssumption

(* What it makes of a row.                                                 *)
LEMMA RowTyped ==
    ASSUME input \in Inputs, NEW i \in DOMAIN input.fixtures
    PROVE  /\ input.fixtures[i] \in Fixtures /\ input.fixtures[i] \in ToSet(input.fixtures)
           /\ input.fixtures[i].id \in Nat /\ input.fixtures[i].universe \in Nat
           /\ input.fixtures[i].address \in Nat /\ input.fixtures[i].channels \in Nat
<1>1. input.fixtures[i] \in Fixtures /\ input.fixtures[i] \in ToSet(input.fixtures)
  BY InputTyped DEF ToSet
<1> QED BY <1>1 DEF Fixtures

(* What no defect means, row by row.                                       *)
LEMMA RowsSound ==
    ASSUME input \in Inputs, RowDefects = {}
    PROVE  LET rows == input.fixtures IN
           /\ rows # <<>>
           /\ \A f \in ToSet(rows) : /\ f.universe = 0 /\ Slots(f) # {}
                                     /\ Slots(f) \subseteq 0 .. UniverseSlots - 1
                                     /\ Usable(IdentOf[f.name])
           /\ \A i, j \in DOMAIN rows :
                 i # j => /\ rows[i].id # rows[j].id
                          /\ IdentOf[rows[i].name] # IdentOf[rows[j].name]
                          /\ Slots(rows[i]) \cap Slots(rows[j]) = {}
<1> DEFINE rows == input.fixtures
<1>1. \A f \in ToSet(rows) : f.universe = 0
  BY DEF RowDefects
<1>2. \A f \in ToSet(rows) : Slots(f) # {}
  BY DEF RowDefects
<1>3. \A f \in ToSet(rows) : Slots(f) \subseteq 0 .. UniverseSlots - 1
  BY DEF RowDefects
<1>4. \A f \in ToSet(rows) : Usable(IdentOf[f.name])
  BY DEF RowDefects
<1>5. rows # <<>>
  BY DEF RowDefects
<1>6. \A i, j \in DOMAIN rows : i < j => IdentOf[rows[i].name] # IdentOf[rows[j].name]
  BY DEF RowDefects, Twice
<1>7. \A i, j \in DOMAIN rows : i < j => rows[i].id # rows[j].id
  BY DEF RowDefects, Twice
<1>8. \A i, j \in DOMAIN rows : i < j => Slots(rows[i]) \cap Slots(rows[j]) = {}
  BY DEF RowDefects
<1>9. \A i, j \in DOMAIN rows : i # j => i < j \/ j < i
  BY InputTyped
<1> QED BY <1>1, <1>2, <1>3, <1>4, <1>5, <1>6, <1>7, <1>8, <1>9

(* A fixture's span, as numbers.                                           *)
LEMMA SpanFits ==
    ASSUME input \in Inputs, RowDefects = {}, NEW i \in DOMAIN input.fixtures
    PROVE  LET f == input.fixtures[i] IN
           f.channels >= 1 /\ f.address + f.channels <= UniverseSlots
<1> DEFINE f == input.fixtures[i]
<1>1. f \in ToSet(input.fixtures) /\ f.address \in Nat /\ f.channels \in Nat
  BY RowTyped
<1>2. Slots(f) # {} /\ Slots(f) \subseteq 0 .. UniverseSlots - 1
  BY <1>1, RowsSound
<1>3. UniverseSlots \in Nat
  BY PatchAssumption
<1> HIDE DEF f
<1>4. f.channels >= 1
  BY <1>1, <1>2 DEF Slots
<1>5. f.address + f.channels - 1 \in Slots(f)
  BY <1>1, <1>4 DEF Slots
<1> QED BY <1>1, <1>2, <1>3, <1>4, <1>5 DEF f

(* The definition of a key, and what no defect means for it.               *)
LEMMA DirectoryOf ==
    ASSUME input \in Inputs, FileDefects = {}
    PROVE  /\ DOMAIN Directory = {file.key : file \in ToSet(input.directory)}
           /\ \A file \in ToSet(input.directory) :
                 Directory[file.key] = file /\ FileComplaints(file, {}) = {}
           /\ \A i, j \in DOMAIN input.directory :
                 i # j => input.directory[i].key # input.directory[j].key
<1> DEFINE dir == input.directory
<1>1. \A file \in ToSet(dir) : FileComplaints(file, {}) = {}
  BY DEF FileDefects
<1>3. \A i, j \in DOMAIN dir : i < j => dir[i].key # dir[j].key
  BY DEF FileDefects, Twice
<1>4. \A i, j \in DOMAIN dir : i # j => i < j \/ j < i
  BY InputTyped
<1>5. \A i, j \in DOMAIN dir : i # j => dir[i].key # dir[j].key
  BY <1>3, <1>4
<1>6. ASSUME NEW file \in ToSet(dir)
      PROVE  Directory[file.key] = file
  <2>1. \A g \in ToSet(dir) : g.key = file.key => g = file
    BY <1>5 DEF ToSet
  <2>2. file = CHOOSE g \in ToSet(dir) : g.key = file.key
    BY <2>1
  <2> QED BY <2>2 DEF Directory
<1> QED BY <1>1, <1>5, <1>6 DEF Directory

(* A fixture the builds accept, resolved, is a sound row.                  *)
LEMMA CompleteIsSound ==
    ASSUME Flawless, NEW f \in ToSet(input.fixtures)
    PROVE  /\ SoundRow(Complete(f, Directory[f.key]))
           /\ Directory[f.key] \in ToSet(input.directory)
<1> DEFINE file == Directory[f.key]
           mode == file.modes[f.mode]
           channels == Resolved(f, file)
           n == f.channels
           key == [i \in DOMAIN mode |-> mode[i].number]
           order == Sorted(DOMAIN mode, key)
           r == Complete(f, file)
<1>1. /\ f.address \in Nat /\ n \in Nat
      /\ f \in Fixtures
  BY RowTyped DEF Flawless, ToSet
<1>2. ResolveComplaints(f, Directory) = {}
  BY DEF Flawless, FixtureDefects
<1>3. /\ f.key \in DOMAIN Directory /\ f.mode \in DOMAIN file.modes /\ Len(mode) = n
      /\ \A i \in DOMAIN mode : mode[i].channel \in DOMAIN file.channels
      /\ \A j, k \in DOMAIN Fields(channels) :
            j < k => Fields(channels)[j].name # Fields(channels)[k].name
  BY <1>2 DEF ResolveComplaints
<1>4. file \in ToSet(input.directory) /\ FileComplaints(file, {}) = {}
  BY <1>3, DirectoryOf DEF Flawless
<1>5. /\ \A m \in DOMAIN file.channels : file.channels[m] \in Channels
      /\ mode \in Seq([number : Nat, channel : STRING])
  BY <1>3, <1>4, InputTyped DEF Flawless
<1>6. \A m \in DOMAIN file.channels : \A band \in ToSet(file.channels[m].bands) : band.min <= band.max
  <2>1. ASSUME NEW m \in DOMAIN file.channels, NEW band \in ToSet(file.channels[m].bands)
        PROVE  band.min <= band.max
    <3>1. ~(band.min > band.max)
      BY <1>4 DEF FileComplaints
    <3>2. band \in Bands
      BY <1>5 DEF Channels, ToSet
    <3>3. band.min \in 0 .. 255 /\ band.max \in 0 .. 255
      BY <3>2 DEF Bands
    <3>4. band.min \in Int /\ band.max \in Int
      BY <3>3
    <3> QED BY <3>1, <3>4
  <2> QED BY <2>1
<1>7. DOMAIN mode = 1 .. n /\ \A i \in 1 .. n : mode[i].number \in Nat
  <2> HIDE DEF mode, n
  <2>1. \A i \in DOMAIN mode : mode[i] \in [number : Nat, channel : STRING]
    <3>1. mode \in Seq([number : Nat, channel : STRING])
      BY <1>5
    <3>2. \A S : \A q \in Seq(S) : \A i \in DOMAIN q : q[i] \in S
      OBVIOUS
    <3> QED BY <3>1, <3>2
  <2>2. DOMAIN mode = 1 .. n
    BY <1>3, <1>5
  <2> QED BY <2>1, <2>2
<1>8. order \in [1 .. n -> 1 .. n]
  <2>2. \A i \in 1 .. n : key[i] \in Nat
    BY <1>7
  <2> HIDE DEF key, n
  <2>1. IsFiniteSet(1 .. n) /\ Cardinality(1 .. n) = n /\ 1 .. n \in SUBSET Nat
    <3>1. n \in Nat /\ n \in Int /\ 1 \in Int
      BY <1>1
    <3>2. Cardinality(1 .. n) = (IF 1 > n THEN 0 ELSE n - 1 + 1) /\ IsFiniteSet(1 .. n)
      BY <3>1, FS_Interval
    <3>3. 1 .. n \in SUBSET Nat
      OBVIOUS
    <3> QED BY <3>1, <3>2, <3>3
  <2>3. Sorted(1 .. n, key) \in [1 .. n -> 1 .. n]
    BY <2>1, <2>2, SortedOf
  <2> QED BY <1>7, <2>3
<1>9. ASSUME NEW k \in 1 .. n
      PROVE  \E m \in DOMAIN file.channels :
                /\ channels[k].preset = file.channels[m].preset
                /\ channels[k].bands = file.channels[m].bands
                /\ channels[k].slot = f.address + k - 1
  <2>1. InNumberOrder(mode)[k] = mode[order[k]].channel
    BY <1>7 DEF InNumberOrder
  <2>2. InNumberOrder(mode)[k] \in DOMAIN file.channels
    BY <1>3, <1>7, <1>8, <2>1
  <2> HIDE DEF mode
  <2> QED BY <2>2 DEF Resolved, mode
<1>10. DOMAIN channels = 1 .. n
  BY DEF Resolved
<1>11. /\ r.address = f.address /\ r.channels = n /\ r.resolved = channels
       /\ r.fields = Fields(channels)
  BY DEF Complete, Patched
<1> HIDE DEF r, channels, file, n, mode
<1>12. Mode(channels, n)
  <2>1. \A k \in 1 .. n : channels[k].preset \in {c.preset : c \in Channels}
    BY <1>5, <1>9
  <2> QED BY <1>10, <2>1 DEF Mode
<1>13. \A k \in 1 .. n : channels[k].bands \in Seq({band \in Bands : band.min <= band.max})
  <2> TAKE k \in 1 .. n
  <2>1. PICK m \in DOMAIN file.channels : channels[k].bands = file.channels[m].bands
    BY <1>9
  <2> DEFINE b == file.channels[m].bands
  <2>2. b \in Seq(Bands)
    BY <1>5 DEF Channels
  <2>3. \A i \in DOMAIN b : b[i].min <= b[i].max
    BY <1>6 DEF ToSet
  <2> HIDE DEF b
  <2>4. b \in Seq({band \in Bands : band.min <= band.max})
    BY <2>2, <2>3
  <2> QED BY <2>1, <2>4 DEF b
<1>14. Fields(channels) \in Seq(ToSet(Fields(channels)))
  BY <1>1, <1>12, FieldsCover DEF n
<1>15. \A i, j \in DOMAIN r.fields : r.fields[i].name = r.fields[j].name => i = j
  <2> DEFINE fs == Fields(channels)
  <2> HIDE DEF fs
  <2>1. \A i, j \in DOMAIN fs : i = j \/ i < j \/ j < i
    BY <1>14 DEF fs
  <2> QED BY <1>3, <1>11, <2>1 DEF fs
<1>16. \A k \in 1 .. n : channels[k].slot = f.address + k - 1
  BY <1>9
<1> QED BY <1>1, <1>4, <1>11, <1>12, <1>13, <1>15, <1>16 DEF SoundRow, r, file, n

(* The patch of a workspace without defects: its rows are sound, lie in    *)
(* the universe and do not overlap.                                        *)
LEMMA FinalIsSound ==
    ASSUME Flawless
    PROVE  /\ DOMAIN Final = {f.id : f \in ToSet(input.fixtures)}
           /\ DOMAIN Final \in SUBSET Nat /\ IsFiniteSet(DOMAIN Final)
           /\ \A i \in DOMAIN input.fixtures :
                 Final[input.fixtures[i].id]
                     = Complete(input.fixtures[i], Directory[input.fixtures[i].key])
           /\ \A id \in DOMAIN Final :
                 /\ SoundRow(Final[id])
                 /\ Final[id].channels >= 1
                 /\ Final[id].address + Final[id].channels <= UniverseSlots
           /\ \A a, b \in DOMAIN Final : a # b => Slots(Final[a]) \cap Slots(Final[b]) = {}
<1> DEFINE rows == input.fixtures
           row(f) == Complete(f, Directory[f.key])
<1>1. \A i, j \in DOMAIN rows :
         i # j => rows[i].id # rows[j].id /\ Slots(rows[i]) \cap Slots(rows[j]) = {}
  BY RowsSound DEF Flawless
<1>2. DOMAIN Final = {f.id : f \in ToSet(rows)}
  BY DEF Final
<1>3. ASSUME NEW i \in DOMAIN rows PROVE Final[rows[i].id] = row(rows[i])
  <2>1. rows[i] \in ToSet(rows) /\ \A f \in ToSet(rows) : f.id = rows[i].id => f = rows[i]
    BY <1>1 DEF ToSet
  <2>2. rows[i] = CHOOSE f \in ToSet(rows) : f.id = rows[i].id
    BY <2>1
  <2> QED BY <2>1, <2>2 DEF Final
<1>4. \A id \in DOMAIN Final : \E i \in DOMAIN rows : id = rows[i].id
  BY <1>2 DEF ToSet
<1>5. \A f : row(f).address = f.address /\ row(f).channels = f.channels
  BY DEF Complete, Patched
<1>6. DOMAIN Final \in SUBSET Nat
  BY <1>4, RowTyped DEF Flawless
<1>7. IsFiniteSet(DOMAIN Final)
  <2> DEFINE g == [i \in DOMAIN rows |-> rows[i].id]
  <2>1. DOMAIN rows = 1 .. Len(rows) /\ Len(rows) \in Int /\ 1 \in Int
    BY InputTyped DEF Flawless
  <2>2. IsFiniteSet(DOMAIN rows)
    BY <2>1, FS_Interval
  <2>3. g \in Surjection(DOMAIN rows, DOMAIN Final)
    BY <1>2, <1>4 DEF Surjection, ToSet
  <2> HIDE DEF g
  <2> QED BY <2>2, <2>3, FS_Surjection
<1>8. ASSUME NEW i \in DOMAIN rows
      PROVE  /\ SoundRow(row(rows[i]))
             /\ rows[i].channels >= 1 /\ rows[i].address + rows[i].channels <= UniverseSlots
  BY RowTyped, CompleteIsSound, SpanFits DEF Flawless
<1> HIDE DEF row
<1>9. ASSUME NEW id \in DOMAIN Final
      PROVE  /\ SoundRow(Final[id])
             /\ Final[id].channels >= 1
             /\ Final[id].address + Final[id].channels <= UniverseSlots
  <2>1. PICK i \in DOMAIN rows : id = rows[i].id
    BY <1>4
  <2> QED BY <1>3, <1>5, <1>8, <2>1
<1>10. ASSUME NEW a \in DOMAIN Final, NEW b \in DOMAIN Final, a # b
       PROVE  Slots(Final[a]) \cap Slots(Final[b]) = {}
  <2>1. PICK i \in DOMAIN rows : a = rows[i].id
    BY <1>4
  <2>2. PICK j \in DOMAIN rows : b = rows[j].id
    BY <1>4
  <2>3. Slots(Final[a]) = Slots(rows[i]) /\ Slots(Final[b]) = Slots(rows[j])
    BY <1>3, <1>5, <2>1, <2>2 DEF Slots
  <2> QED BY <1>1, <1>10, <2>1, <2>2, <2>3
<1> QED BY <1>2, <1>3, <1>6, <1>7, <1>9, <1>10 DEF row

(* The rows in address order are those of the patch, each of them once.    *)
LEMMA InAddressOrder ==
    ASSUME NEW p, DOMAIN p \in SUBSET Nat, IsFiniteSet(DOMAIN p),
           \A id \in DOMAIN p : p[id].address \in Nat
    PROVE  /\ Cardinality(DOMAIN p) \in Nat
           /\ DOMAIN ByAddress(p) = 1 .. Cardinality(DOMAIN p)
           /\ \E ids \in [1 .. Cardinality(DOMAIN p) -> DOMAIN p] :
                 /\ \A k \in 1 .. Cardinality(DOMAIN p) : ByAddress(p)[k] = p[ids[k]]
                 /\ \A id \in DOMAIN p : \E k \in 1 .. Cardinality(DOMAIN p) : ids[k] = id
                 /\ \A k, l \in 1 .. Cardinality(DOMAIN p) :
                       k < l => ids[k] # ids[l] /\ p[ids[k]].address <= p[ids[l]].address
<1> DEFINE key == [id \in DOMAIN p |-> p[id].address]
           ids == Sorted(DOMAIN p, key)
           n == Cardinality(DOMAIN p)
<1>1. \A id \in DOMAIN p : key[id] \in Nat /\ key[id] = p[id].address
  OBVIOUS
<1>2. /\ n \in Nat
      /\ ids \in [1 .. n -> DOMAIN p]
      /\ \A id \in DOMAIN p : \E k \in 1 .. n : ids[k] = id
      /\ \A k, l \in 1 .. n : k < l => ids[k] # ids[l] /\ key[ids[k]] <= key[ids[l]]
  <2> HIDE DEF key
  <2> QED BY <1>1, SortedOf
<1>3. ByAddress(p) = [k \in DOMAIN ids |-> p[ids[k]]]
  BY DEF ByAddress
<1> HIDE DEF key, ids, n
<1>4. DOMAIN ByAddress(p) = 1 .. n /\ \A k \in 1 .. n : ByAddress(p)[k] = p[ids[k]]
  BY <1>2, <1>3
<1>5. \A k, l \in 1 .. n : k < l => ids[k] # ids[l] /\ p[ids[k]].address <= p[ids[l]].address
  BY <1>1, <1>2
<1> QED BY <1>2, <1>4, <1>5 DEF n

(* What the two builds say of a workspace without defects is one           *)
(* addressing.                                                             *)
LEMMA AddressingIsOne ==
    ASSUME Flawless
    PROVE  /\ Addressed(PatchTable(Final))
           /\ \A k \in DOMAIN PatchTable(Final) :
                 Agree(Addressing(Final)[k], PatchTable(Final)[k])
<1> DEFINE n == Cardinality(DOMAIN Final)
           table == PatchTable(Final)
           width == FrameWidth(PatchTable(Final))
           f(k) == ByAddress(Final)[k]
<1>1. /\ n \in Nat
      /\ \E ids \in [1 .. n -> DOMAIN Final] :
            /\ \A k \in 1 .. n : f(k) = Final[ids[k]]
            /\ \A k, l \in 1 .. n : k < l => ids[k] # ids[l]
  <2>1. \A id \in DOMAIN Final : Final[id].address \in Nat
    BY FinalIsSound DEF SoundRow
  <2>2. DOMAIN Final \in SUBSET Nat /\ IsFiniteSet(DOMAIN Final)
    BY FinalIsSound
  <2>3. /\ n \in Nat
        /\ \E ids \in [1 .. n -> DOMAIN Final] :
              /\ \A k \in 1 .. n : f(k) = Final[ids[k]]
              /\ \A id \in DOMAIN Final : \E k \in 1 .. n : ids[k] = id
              /\ \A k, l \in 1 .. n :
                    k < l => /\ ids[k] # ids[l]
                             /\ Final[ids[k]].address <= Final[ids[l]].address
    BY <2>1, <2>2, InAddressOrder
  <2> HIDE DEF n, f
  <2> QED BY <2>3
<1>2. PICK ids \in [1 .. n -> DOMAIN Final] :
         /\ \A k \in 1 .. n : f(k) = Final[ids[k]]
         /\ \A k, l \in 1 .. n : k < l => ids[k] # ids[l]
  BY <1>1
<1>3. ASSUME NEW k \in 1 .. n
      PROVE  /\ SoundRow(f(k)) /\ f(k).address \in Nat /\ f(k).channels \in Nat
             /\ f(k).address + f(k).channels <= UniverseSlots
  <2>1. f(k) = Final[ids[k]] /\ ids[k] \in DOMAIN Final
    BY <1>2
  <2>2. SoundRow(f(k)) /\ f(k).address + f(k).channels <= UniverseSlots
    BY <2>1, FinalIsSound
  <2> HIDE DEF f
  <2> QED BY <2>2 DEF SoundRow
<1>4. ASSUME NEW k \in 1 .. n, NEW l \in 1 .. n, k # l
      PROVE  Slots(f(k)) \cap Slots(f(l)) = {}
  <2>1. ids[k] # ids[l]
    <3>1. k < l \/ l < k
      BY <1>1, <1>4
    <3> QED BY <1>2, <3>1
  <2>2. /\ f(k) = Final[ids[k]] /\ ids[k] \in DOMAIN Final
        /\ f(l) = Final[ids[l]] /\ ids[l] \in DOMAIN Final
    BY <1>2
  <2> QED BY <2>1, <2>2, FinalIsSound
<1>5. DOMAIN table = 1 .. n
  BY DEF PatchTable
<1>6. ASSUME NEW k \in 1 .. n
      PROVE  /\ table[k].ident = IdentOf[f(k).name] /\ table[k].address = f(k).address + 1
             /\ table[k].instance = Instance(f(k))
             /\ DOMAIN table[k].channels = 1 .. f(k).channels
             /\ \A i \in 1 .. f(k).channels :
                   table[k].channels[i] = Instance(f(k))[ChannelPaths(f(k))[i]]
  <2>1. table[k] = [ident |-> IdentOf[f(k).name], type |-> TypeName(f(k), Final),
                    address |-> f(k).address + 1, instance |-> Instance(f(k)),
                    channels |-> [i \in DOMAIN f(k).resolved |->
                                    Instance(f(k))[ChannelPaths(f(k))[i]]]]
    BY DEF PatchTable
  <2>2. DOMAIN f(k).resolved = 1 .. f(k).channels
    BY <1>3, PathsReach
  <2> HIDE DEF table, f
  <2> QED BY <2>1, <2>2
<1>7. ASSUME NEW k \in 1 .. n
      PROVE  /\ Addressing(Final)[k].ident = IdentOf[f(k).name]
             /\ Addressing(Final)[k].address = f(k).address + 1
             /\ Addressing(Final)[k].channels = f(k).channels
             /\ Addressing(Final)[k].fields = FirmwareFields(f(k))
  BY DEF Addressing
<1> HIDE DEF table, f, n
<1>8. ASSUME NEW k \in 1 .. n
      PROVE  /\ \A i \in 1 .. f(k).channels : table[k].channels[i] = f(k).address + i - 1
             /\ ToSet(table[k].channels) = Slots(f(k))
             /\ IsInjective(table[k].instance)
             /\ Range(table[k].instance) = ToSet(table[k].channels)
  <2> DEFINE r == f(k)
             c == r.channels
             paths == ChannelPaths(r)
             slotAt == Instance(r)
  <2>1. /\ \A i \in 1 .. c : paths[i] \in DOMAIN slotAt /\ slotAt[paths[i]] = r.address + i - 1
        /\ \A path \in DOMAIN slotAt : \E i \in 1 .. c : path = paths[i]
    BY <1>3, PathsReach
  <2>2. r.address \in Nat /\ c \in Nat
    BY <1>3
  <2>3. \A i \in 1 .. c : table[k].channels[i] = r.address + i - 1
    BY <1>6, <2>1
  <2>4. DOMAIN table[k].channels = 1 .. c /\ table[k].instance = slotAt
    BY <1>6
  <2> HIDE DEF r, c, paths, slotAt
  <2>5. ToSet(table[k].channels) = Slots(r)
    <3>1. \A x \in Slots(r) : x - r.address + 1 \in 1 .. c /\ r.address + (x - r.address + 1) - 1 = x
      BY <2>2 DEF Slots, c
    <3>2. \A i \in 1 .. c : r.address + i - 1 \in Slots(r)
      BY <2>2 DEF Slots, c
    <3> QED BY <2>3, <2>4, <3>1, <3>2 DEF ToSet
  <2>6. IsInjective(table[k].instance)
    <3> SUFFICES ASSUME NEW p \in DOMAIN slotAt, NEW q \in DOMAIN slotAt, slotAt[p] = slotAt[q]
                 PROVE  p = q
      BY <2>4 DEF IsInjective
    <3>1. PICK i \in 1 .. c : p = paths[i]
      BY <2>1
    <3>2. PICK j \in 1 .. c : q = paths[j]
      BY <2>1
    <3>3. r.address + i - 1 = r.address + j - 1
      BY <2>1, <3>1, <3>2
    <3>4. i = j
      BY <2>2, <3>3
    <3> QED BY <3>1, <3>2, <3>4
  <2>7. Range(table[k].instance) = ToSet(table[k].channels)
    <3>1. Range(table[k].instance) = {slotAt[p] : p \in DOMAIN slotAt}
      BY <2>4 DEF Range
    <3>2. ToSet(table[k].channels) = {table[k].channels[i] : i \in 1 .. c}
      BY <2>4 DEF ToSet
    <3>3. \A i \in 1 .. c : table[k].channels[i] = slotAt[paths[i]]
      BY <2>1, <2>3
    <3>4. \A p \in DOMAIN slotAt : \E i \in 1 .. c : slotAt[p] = table[k].channels[i]
      <4> TAKE p \in DOMAIN slotAt
      <4>1. PICK i \in 1 .. c : p = paths[i]
        BY <2>1
      <4> QED BY <3>3, <4>1
    <3>5. \A i \in 1 .. c : \E p \in DOMAIN slotAt : slotAt[p] = table[k].channels[i]
      BY <2>1, <3>3
    <3> QED BY <3>1, <3>2, <3>4, <3>5
  <2> QED BY <2>3, <2>5, <2>6, <2>7 DEF r, c
<1>9. UniverseSlots \in Nat
  BY PatchAssumption
<1>10. /\ width <= UniverseSlots
       /\ \A k \in 1 .. n : Slots(f(k)) \subseteq 0 .. width - 1
  <2> DEFINE used == UNION {ToSet(row.channels) : row \in ToSet(table)}
             W == {0} \cup {slot + 1 : slot \in used}
  <2>1. used = UNION {Slots(f(k)) : k \in 1 .. n}
    <3>1. ToSet(table) = {table[k] : k \in 1 .. n}
      BY <1>5 DEF ToSet
    <3> QED BY <1>8, <3>1
  <2>2. \A slot \in used : slot \in Nat /\ slot + 1 <= UniverseSlots
    <3> TAKE slot \in used
    <3>1. PICK k \in 1 .. n : slot \in Slots(f(k))
      BY <2>1
    <3> QED BY <1>3, <1>9, <3>1 DEF Slots
  <2>3. W \in SUBSET Nat /\ W # {} /\ \A w \in W : w <= UniverseSlots
    BY <1>9, <2>2
  <2>4. width = Max(W)
    BY DEF FrameWidth, table
  <2> HIDE DEF W, used, width
  <2>5. width \in W /\ \A w \in W : width >= w
    BY <1>9, <2>3, <2>4, GreatestOf
  <2>6. \A slot \in used : slot \in 0 .. width - 1
    <3> TAKE slot \in used
    <3>1. slot + 1 \in W
      BY DEF W
    <3> QED BY <2>2, <2>3, <2>5, <3>1
  <2> QED BY <2>1, <2>3, <2>5, <2>6
<1> HIDE DEF width
<1>11. ASSUME NEW k \in 1 .. n
       PROVE  /\ \A i \in DOMAIN table[k].channels :
                    table[k].channels[i] = table[k].address - 1 + i - 1
              /\ ToSet(table[k].channels) \subseteq 0 .. width - 1
  <2>1. table[k].address - 1 = f(k).address
    BY <1>3, <1>6
  <2>2. DOMAIN table[k].channels = 1 .. f(k).channels
    BY <1>6
  <2>3. ToSet(table[k].channels) \subseteq 0 .. width - 1
    BY <1>8, <1>10
  <2> QED BY <1>8, <2>1, <2>2, <2>3
<1>12. ASSUME NEW k \in 1 .. n
       PROVE  Agree(Addressing(Final)[k], table[k])
  <2> DEFINE mine == Addressing(Final)[k]
             r == f(k)
  <2>1. /\ mine.ident = table[k].ident /\ mine.address = table[k].address
        /\ table[k].address - 1 = r.address
        /\ mine.fields = FirmwareFields(r) /\ table[k].instance = Instance(r)
        /\ DOMAIN table[k].channels = 1 .. mine.channels
    BY <1>3, <1>6, <1>7
  <2>2. SoundRow(r)
    BY <1>3
  <2> HIDE DEF mine, r
  <2>3. /\ {<<field.name, field.offset>> : field \in FirmwareFields(r)}
             = {<<Called(path), Instance(r)[path] - r.address>> : path \in DOMAIN Instance(r)}
        /\ \A a, b \in FirmwareFields(r) :
              /\ a.offset = b.offset => a = b
              /\ a.name = b.name =>
                    a = b \/ \E path \in DOMAIN Instance(r) : path[2] = "fine" /\ a.name = Called(path)
    BY <2>2, FirmwareAgrees
  <2>4. Agree(mine, table[k])
    BY <2>1, <2>3 DEF Agree
  <2> QED BY <2>4 DEF mine
<1>13. ASSUME NEW row \in ToSet(table)
       PROVE  /\ \A i \in DOMAIN row.channels : row.channels[i] = row.address - 1 + i - 1
              /\ IsInjective(row.instance)
              /\ Range(row.instance) = ToSet(row.channels)
              /\ ToSet(row.channels) \subseteq 0 .. width - 1
  <2>1. PICK k \in 1 .. n : row = table[k]
    BY <1>5 DEF ToSet
  <2> QED BY <1>8, <1>11, <2>1
<1>14. ASSUME NEW i \in DOMAIN table, NEW j \in DOMAIN table, i # j
       PROVE  ToSet(table[i].channels) \cap ToSet(table[j].channels) = {}
  BY <1>4, <1>5, <1>8, <1>14
<1> QED BY <1>5, <1>10, <1>12, <1>13, <1>14 DEF table, width, Addressed

-----------------------------------------------------------------------------

(* A channel whose bands run forwards.                                     *)
Forwards(c) == c.bands \in Seq({band \in Bands : band.min <= band.max})

(* The start of a band with one of these presets lies in that band.        *)
LEMMA BandStartOf ==
    ASSUME NEW c, Forwards(c), NEW presets, DOMAIN presets \in SUBSET Nat
    PROVE  IF \E k \in DOMAIN presets : BandsOf(c, presets[k]) # {}
             THEN BandStart(c, presets) \in Nat /\ InBand(c, BandStart(c, presets), ToSet(presets))
             ELSE BandStart(c, presets) = Missing
<1> DEFINE stated == {k \in DOMAIN presets : BandsOf(c, presets[k]) # {}}
<1>1. CASE stated = {}
  BY <1>1 DEF BandStart
<1>2. CASE stated # {}
  <2> DEFINE k == Min(stated)
             i == Min(BandsOf(c, presets[k]))
  <2>1. k \in stated
    <3>1. stated \in SUBSET Nat /\ stated # {}
      BY <1>2
    <3> HIDE DEF stated
    <3> QED BY <3>1, LeastOf
  <2>2. BandsOf(c, presets[k]) # {} /\ BandsOf(c, presets[k]) \in SUBSET Nat
    BY <2>1 DEF BandsOf, Forwards
  <2>3. i \in BandsOf(c, presets[k])
    BY <2>2, LeastOf
  <2>4. BandStart(c, presets) = c.bands[i].min
    BY <1>2 DEF BandStart
  <2>5. i \in DOMAIN c.bands /\ c.bands[i].preset = presets[k] /\ presets[k] \in ToSet(presets)
    BY <2>1, <2>3 DEF BandsOf, ToSet
  <2> HIDE DEF k, i
  <2>6. c.bands[i] \in Bands /\ c.bands[i].min <= c.bands[i].max /\ c.bands[i] \in ToSet(c.bands)
    BY <2>5 DEF Forwards, ToSet
  <2>7. c.bands[i].min \in 0 .. 255
    BY <2>6 DEF Bands
  <2>8. c.bands[i].min <= c.bands[i].min /\ c.bands[i].min \in Nat
    <3>1. \A m \in 0 .. 255 : m <= m /\ m \in Nat
      OBVIOUS
    <3> QED BY <2>7, <3>1
  <2>9. InBand(c, BandStart(c, presets), ToSet(presets))
    BY <2>4, <2>5, <2>6, <2>8 DEF InBand
  <2> QED BY <1>2, <2>4, <2>8, <2>9
<1> QED BY <1>1, <1>2

(* Of two presets the first that has a band decides.                       *)
LEMMA BandOfTwo ==
    ASSUME NEW c, NEW v, NEW w
    PROVE  BandStart(c, <<v, w>>) = IF BandsOf(c, v) # {} THEN BandStart(c, <<v>>)
                                                           ELSE BandStart(c, <<w>>)
<1> DEFINE stated(presets) == {k \in DOMAIN presets : BandsOf(c, presets[k]) # {}}
<1>1. /\ DOMAIN <<v, w>> = {1, 2} /\ <<v, w>>[1] = v /\ <<v, w>>[2] = w
      /\ DOMAIN <<v>> = {1} /\ <<v>>[1] = v
      /\ DOMAIN <<w>> = {1} /\ <<w>>[1] = w
  <2>1. /\ DOMAIN <<v, w>> = 1 .. 2 /\ <<v, w>>[1] = v /\ <<v, w>>[2] = w
        /\ DOMAIN <<v>> = 1 .. 1 /\ <<v>>[1] = v
        /\ DOMAIN <<w>> = 1 .. 1 /\ <<w>>[1] = w
    OBVIOUS
  <2>2. 1 .. 2 = {1, 2} /\ 1 .. 1 = {1}
    OBVIOUS
  <2> QED BY <2>1, <2>2
<1>2. /\ Min({1}) = 1 /\ Min({2}) = 2 /\ Min({1, 2}) = 1
  <2>1. /\ {1} \in SUBSET Nat /\ {1} # {} /\ {2} \in SUBSET Nat /\ {2} # {}
        /\ {1, 2} \in SUBSET Nat /\ {1, 2} # {}
    OBVIOUS
  <2>2. Min({1}) \in {1} /\ Min({2}) \in {2} /\ Min({1, 2}) \in {1, 2}
        /\ \A x \in {1, 2} : Min({1, 2}) <= x
    BY <2>1, LeastOf
  <2> QED BY <2>2
<1>3. CASE BandsOf(c, v) # {}
  <2>1. stated(<<v>>) = {1} /\ stated(<<v, w>>) \in {{1}, {1, 2}}
    BY <1>1, <1>3
  <2>2. Min(stated(<<v>>)) = 1 /\ Min(stated(<<v, w>>)) = 1
    BY <1>2, <2>1
  <2> QED BY <1>1, <1>3, <2>1, <2>2 DEF BandStart
<1>4. CASE BandsOf(c, v) = {} /\ BandsOf(c, w) # {}
  <2>1. stated(<<w>>) = {1} /\ stated(<<v, w>>) = {2}
    BY <1>1, <1>4
  <2>2. Min(stated(<<w>>)) = 1 /\ Min(stated(<<v, w>>)) = 2
    BY <1>2, <2>1
  <2> QED BY <1>1, <1>4, <2>1, <2>2 DEF BandStart
<1>5. CASE BandsOf(c, v) = {} /\ BandsOf(c, w) = {}
  <2>1. stated(<<w>>) = {} /\ stated(<<v, w>>) = {}
    BY <1>1, <1>5
  <2> QED BY <1>5, <2>1 DEF BandStart
<1> QED BY <1>3, <1>4, <1>5

(* What the stop holds a channel at is a rest for it, unless it is missing; *)
(* and it is missing where no band says.                                   *)
LEMMA OverrideOf ==
    ASSUME NEW c, Forwards(c)
    PROVE  /\ StopOverride(c) = Missing <=> NoBand(c)
           /\ StopOverride(c) # Missing => AtRest(c, StopOverride(c) # None, StopOverride(c))
<1> DEFINE v == StopOverride(c)
<1>1. ASSUME NEW preset PROVE Has(c, preset) <=> BandsOf(c, preset) # {}
  BY DEF Has, BandsOf, ToSet
<1>2. ASSUME NEW w
      PROVE  /\ Has(c, w) => BandStart(c, <<w>>) \in Nat /\ InBand(c, BandStart(c, <<w>>), {w})
             /\ ~Has(c, w) => BandStart(c, <<w>>) = Missing
  <2>1. DOMAIN <<w>> = 1 .. 1 /\ <<w>>[1] = w
    OBVIOUS
  <2>2. 1 .. 1 = {1} /\ {1} \in SUBSET Nat
    OBVIOUS
  <2>3. DOMAIN <<w>> = {1} /\ DOMAIN <<w>> \in SUBSET Nat
    BY <2>1, <2>2
  <2>4. ToSet(<<w>>) = {w}
    BY <2>1, <2>3 DEF ToSet
  <2>5. (\E k \in DOMAIN <<w>> : BandsOf(c, <<w>>[k]) # {}) <=> Has(c, w)
    BY <1>1, <2>1, <2>3
  <2> QED BY <2>3, <2>4, <2>5, BandStartOf
<1>3. /\ Has(c, "ShutterClose") =>
            BandStart(c, <<"ShutterClose", "ShutterOpen">>) = BandStart(c, <<"ShutterClose">>)
      /\ ~Has(c, "ShutterClose") =>
            BandStart(c, <<"ShutterClose", "ShutterOpen">>) = BandStart(c, <<"ShutterOpen">>)
  BY <1>1, BandOfTwo
<1>4. None # Missing /\ \A n \in Nat : n # Missing /\ n # None
  BY DefinitionsAssumption
<1>5. CASE c.group = "Intensity"
  <2>1. v = IF LitAtZero(c) THEN None ELSE 0
    BY <1>5 DEF StopOverride
  <2>2. ~Spins(c) /\ ~Strobes(c) /\ ~Acts(c)
    BY <1>5 DEF Spins, Strobes, Acts
  <2>3. v # Missing /\ (v # None <=> ~LitAtZero(c)) /\ (v # None => v = 0)
    BY <1>4, <2>1
  <2> QED BY <1>5, <2>2, <2>3 DEF NoBand, AtRest
<1>6. CASE Spins(c)
  <2>1. c.group # "Intensity" /\ Has(c, "RotationStop")
    BY <1>6 DEF Spins
  <2>2. v = BandStart(c, <<"RotationStop">>)
    BY <1>1, <2>1 DEF StopOverride
  <2>3. v \in Nat /\ InBand(c, v, {"RotationStop"})
    BY <1>2, <2>1, <2>2
  <2> HIDE DEF v
  <2>4. v # Missing /\ v # None
    BY <1>4, <2>3
  <2> QED BY <1>6, <2>1, <2>3, <2>4 DEF NoBand, AtRest, v
<1>7. CASE c.group # "Intensity" /\ ~Spins(c) /\ Strobes(c)
  <2>1. c.group = "Shutter" /\ ~Iris(c) /\ BandsOf(c, "RotationStop") = {} /\ ~Acts(c)
    BY <1>1, <1>7 DEF Spins, Strobes, Acts
  <2>2. v = BandStart(c, <<"ShutterClose", "ShutterOpen">>)
    BY <2>1 DEF StopOverride, ShutterStop
  <2> HIDE DEF v
  <2>3. CASE Has(c, "ShutterClose")
    <3>1. v \in Nat /\ InBand(c, v, {"ShutterClose"})
      BY <1>2, <1>3, <2>2, <2>3
    <3> QED BY <1>4, <1>7, <2>1, <2>3, <3>1 DEF NoBand, AtRest, v
  <2>4. CASE ~Has(c, "ShutterClose") /\ Has(c, "ShutterOpen")
    <3>1. v \in Nat /\ InBand(c, v, {"ShutterOpen"})
      BY <1>2, <1>3, <2>2, <2>4
    <3> QED BY <1>4, <1>7, <2>1, <2>4, <3>1 DEF NoBand, AtRest, v
  <2>5. CASE ~Has(c, "ShutterClose") /\ ~Has(c, "ShutterOpen")
    <3>1. v = Missing
      BY <1>2, <1>3, <2>2, <2>5
    <3> QED BY <1>7, <2>5, <3>1 DEF NoBand, v
  <2> QED BY <2>3, <2>4, <2>5
<1>8. CASE c.group # "Intensity" /\ ~Spins(c) /\ Acts(c)
  <2>1. /\ c.group \in {"Effect", "Maintenance"} /\ c.group # "Shutter" /\ ~Strobes(c)
        /\ BandsOf(c, "RotationStop") = {}
    BY <1>1, <1>8 DEF Spins, Strobes, Acts
  <2>2. v = BandStart(c, <<"NoFunction">>)
    BY <2>1 DEF StopOverride
  <2> HIDE DEF v
  <2>3. CASE Has(c, "NoFunction")
    <3>1. v \in Nat /\ InBand(c, v, {"NoFunction"})
      BY <1>2, <2>2, <2>3
    <3> QED BY <1>4, <1>8, <2>1, <2>3, <3>1 DEF NoBand, AtRest, v
  <2>4. CASE ~Has(c, "NoFunction")
    <3>1. v = Missing
      BY <1>2, <2>2, <2>4
    <3> QED BY <1>8, <2>4, <3>1 DEF NoBand, v
  <2> QED BY <2>3, <2>4
<1>9. CASE c.group # "Intensity" /\ ~Spins(c) /\ ~Strobes(c) /\ ~Acts(c)
  <2>1. /\ c.group \notin {"Effect", "Maintenance"} /\ BandsOf(c, "RotationStop") = {}
        /\ c.group = "Shutter" => Iris(c)
    BY <1>1, <1>9 DEF Spins, Strobes, Acts
  <2>2. v = None
    BY <1>9, <2>1 DEF StopOverride, ShutterStop
  <2> HIDE DEF v
  <2> QED BY <1>4, <1>9, <2>2 DEF NoBand, AtRest, v
<1> QED BY <1>5, <1>6, <1>7, <1>8, <1>9 DEF Spins

(* A slot of the patch belongs to one channel of one fixture.              *)
LEMMA SlotsApart ==
    ASSUME Flawless, NEW a \in DOMAIN Final, NEW b \in DOMAIN Final,
           NEW k \in 1 .. Final[a].channels, NEW l \in 1 .. Final[b].channels,
           Final[a].resolved[k].slot = Final[b].resolved[l].slot
    PROVE  a = b /\ k = l
<1> DEFINE r == Final[a]
           s == Final[b]
<1>1. SoundRow(r) /\ SoundRow(s)
  BY FinalIsSound
<1>2. /\ r.address \in Nat /\ r.channels \in Nat /\ s.address \in Nat /\ s.channels \in Nat
      /\ r.resolved[k].slot = r.address + k - 1 /\ s.resolved[l].slot = s.address + l - 1
  BY <1>1 DEF SoundRow
<1>3. r.address + k - 1 \in Slots(r) /\ s.address + l - 1 \in Slots(s)
  BY <1>2 DEF Slots
<1>4. a = b
  <2>1. Slots(r) \cap Slots(s) # {}
    BY <1>2, <1>3
  <2> QED BY <2>1, FinalIsSound
<1>5. r.address = s.address /\ r.resolved[k].slot = s.resolved[l].slot
  BY <1>4
<1>6. k \in Int /\ l \in Int
  OBVIOUS
<1> HIDE DEF r, s
<1>7. r.address + k - 1 = r.address + l - 1
  BY <1>2, <1>5
<1> QED BY <1>2, <1>4, <1>6, <1>7

(* A row of the stop is what one field of one fixture asks, for one of its *)
(* halves.                                                                 *)
Asks(id, j, k, row) ==
    LET f == Final[id]
        v == StopOverride(f.resolved[f.fields[j].head])
    IN  /\ v # None
        /\ \/ k = f.fields[j].head /\ row = [slot |-> f.resolved[k].slot, value |-> v]
           \/ /\ f.fields[j].fine # None /\ k = f.fields[j].fine
              /\ row = [slot |-> f.resolved[k].slot, value |-> 0]

(* The stop table is what the fields ask.                                  *)
LEMMA StopRowOf ==
    ASSUME NEW row
    PROVE  row \in StopTable(Final) <=>
              \E id \in DOMAIN Final : \E j \in DOMAIN Final[id].fields : \E k : Asks(id, j, k, row)
<1>1. row \in StopTable(Final) <=>
         \E id \in DOMAIN Final : \E j \in DOMAIN Final[id].fields :
            row \in StopRows(Final[id], Final[id].fields[j])
  BY DEF StopTable, ToSet
<1>2. ASSUME NEW id \in DOMAIN Final, NEW j \in DOMAIN Final[id].fields
      PROVE  row \in StopRows(Final[id], Final[id].fields[j]) <=> \E k : Asks(id, j, k, row)
  BY DEF StopRows, Asks
<1> QED BY <1>1, <1>2

(* A field's head is a channel of its fixture with its bands forwards.     *)
LEMMA HeadsForward ==
    ASSUME Flawless, NEW id \in DOMAIN Final, NEW j \in DOMAIN Final[id].fields
    PROVE  LET head == Final[id].fields[j].head
           IN  /\ head \in 1 .. Final[id].channels /\ head # None
               /\ Forwards(Final[id].resolved[head])
<1> DEFINE r == Final[id]
<1>1. r.channels \in Nat /\ Mode(r.resolved, r.channels) /\ r.fields = Fields(r.resolved)
  BY FinalIsSound DEF SoundRow
<1>2. \A n \in 1 .. r.channels : n # None
  BY DefinitionsAssumption
<1>3. \A n \in 1 .. r.channels : Forwards(r.resolved[n])
  BY FinalIsSound DEF SoundRow, Forwards
<1> HIDE DEF r
<1>4. \A m \in DOMAIN r.fields : r.fields[m].head \in 1 .. r.channels
  BY <1>1, FieldsCover
<1> QED BY <1>2, <1>3, <1>4 DEF r

(* Two fields ask something of one slot only if they are one field, and    *)
(* then they ask the same of it.                                           *)
LEMMA AskedOnce ==
    ASSUME Flawless,
           NEW a \in DOMAIN Final, NEW i \in DOMAIN Final[a].fields, NEW k, NEW p, Asks(a, i, k, p),
           NEW b \in DOMAIN Final, NEW j \in DOMAIN Final[b].fields, NEW l,
           l \in {Final[b].fields[j].head, Final[b].fields[j].fine}, l # None,
           p.slot = Final[b].resolved[l].slot
    PROVE  a = b /\ i = j /\ k = l
<1>1. ASSUME NEW id \in DOMAIN Final
      PROVE  /\ \A m \in DOMAIN Final[id].fields :
                   /\ Final[id].fields[m].head \in 1 .. Final[id].channels
                   /\ \/ Final[id].fields[m].fine = None
                      \/ Final[id].fields[m].fine \in 1 .. Final[id].channels
             /\ \A m, n \in DOMAIN Final[id].fields :
                   /\ Final[id].fields[m].head # Final[id].fields[n].fine
                   /\ Final[id].fields[m].head = Final[id].fields[n].head => m = n
                   /\ Final[id].fields[m].fine = Final[id].fields[n].fine
                         => m = n \/ Final[id].fields[m].fine = None
  <2> DEFINE r == Final[id]
  <2>1. SoundRow(r)
    BY FinalIsSound
  <2>2. r.channels \in Nat /\ Mode(r.resolved, r.channels) /\ r.fields = Fields(r.resolved)
    BY <2>1 DEF SoundRow
  <2> HIDE DEF r
  <2>3. /\ \A m \in DOMAIN r.fields :
              r.fields[m].head \in 1 .. r.channels
              /\ (r.fields[m].fine = None \/ r.fields[m].fine \in 1 .. r.channels)
        /\ \A m, n \in DOMAIN r.fields :
              /\ r.fields[m].head # r.fields[n].fine
              /\ r.fields[m].head = r.fields[n].head => m = n
              /\ r.fields[m].fine = r.fields[n].fine => m = n \/ r.fields[m].fine = None
    BY <2>2, FieldsCover
  <2> QED BY <2>3 DEF r
<1>2. /\ k \in {Final[a].fields[i].head, Final[a].fields[i].fine} /\ k # None
      /\ p.slot = Final[a].resolved[k].slot
  <2>1. \A n \in 1 .. Final[a].channels : n # None
    BY DefinitionsAssumption
  <2> QED BY <1>1, <2>1 DEF Asks
<1>3. k \in 1 .. Final[a].channels /\ l \in 1 .. Final[b].channels
  BY <1>1, <1>2
<1>4. a = b /\ k = l
  <2>1. Final[a].resolved[k].slot = Final[b].resolved[l].slot
    BY <1>2
  <2>2. k \in 1 .. Final[a].channels /\ l \in 1 .. Final[b].channels
    BY <1>3
  <2> QED BY ONLY <2>1, <2>2, SlotsApart, Flawless, a \in DOMAIN Final, b \in DOMAIN Final
<1>5. i = j
  BY <1>1, <1>2, <1>4
<1> QED BY <1>4, <1>5

(* The stop table of a workspace without defects does no harm, if it has   *)
(* a value for every channel that needs one.                               *)
LEMMA StopHarmless ==
    ASSUME Flawless, \A row \in StopTable(Final) : row.value # Missing
    PROVE  Harmless(StopTable(Final), Final)
<1> DEFINE stop == StopTable(Final)
           overridden(slot) == \E row \in stop : row.slot = slot
           value(slot) == (CHOOSE row \in stop : row.slot = slot).value
<1>1. ASSUME NEW p \in stop, NEW q \in stop, p.slot = q.slot
      PROVE  p = q
  <2>1. PICK a \in DOMAIN Final : \E i \in DOMAIN Final[a].fields : \E k : Asks(a, i, k, p)
    BY StopRowOf
  <2>11. PICK i \in DOMAIN Final[a].fields : \E k : Asks(a, i, k, p)
    BY <2>1
  <2>12. PICK k : Asks(a, i, k, p)
    BY <2>11
  <2>2. PICK b \in DOMAIN Final : \E j \in DOMAIN Final[b].fields : \E l : Asks(b, j, l, q)
    BY StopRowOf
  <2>21. PICK j \in DOMAIN Final[b].fields : \E l : Asks(b, j, l, q)
    BY <2>2
  <2>22. PICK l : Asks(b, j, l, q)
    BY <2>21
  <2>3. /\ Final[b].fields[j].head # None
        /\ Final[b].fields[j].head # Final[b].fields[j].fine
    <3> DEFINE r == Final[b]
    <3>1. r.channels \in Nat /\ Mode(r.resolved, r.channels) /\ r.fields = Fields(r.resolved)
      BY FinalIsSound DEF SoundRow
    <3>2. \A n \in 1 .. r.channels : n # None
      BY DefinitionsAssumption
    <3> HIDE DEF r
    <3>3. /\ \A m \in DOMAIN r.fields : r.fields[m].head \in 1 .. r.channels
          /\ \A m, n \in DOMAIN r.fields : r.fields[m].head # r.fields[n].fine
      BY <3>1, FieldsCover
    <3> QED BY <3>2, <3>3 DEF r
  <2>4. /\ l \in {Final[b].fields[j].head, Final[b].fields[j].fine} /\ l # None
        /\ q.slot = Final[b].resolved[l].slot
    BY <2>22, <2>3 DEF Asks
  <2>5. a = b /\ i = j /\ k = l
    BY <1>1, <2>12, <2>4, AskedOnce
  <2> QED BY <2>12, <2>22, <2>3, <2>5 DEF Asks
<1>2. ASSUME NEW row \in stop
      PROVE  overridden(row.slot) /\ value(row.slot) = row.value
  <2>1. row = CHOOSE q \in stop : q.slot = row.slot
    BY <1>1
  <2> QED BY <2>1
<1> HIDE DEF overridden, value, stop
<1>3. ASSUME NEW id \in DOMAIN Final, NEW j \in DOMAIN Final[id].fields
      PROVE  LET field == Final[id].fields[j]
                 c == Final[id].resolved[field.head]
                 half == Final[id].resolved[field.fine]
             IN  /\ Forwards(c) /\ StopOverride(c) # Missing
                 /\ overridden(c.slot) <=> StopOverride(c) # None
                 /\ overridden(c.slot) => value(c.slot) = StopOverride(c)
                 /\ field.fine # None =>
                       /\ overridden(half.slot) = overridden(c.slot)
                       /\ overridden(c.slot) => value(half.slot) = 0
  <2> DEFINE field == Final[id].fields[j]
             c == Final[id].resolved[field.head]
             half == Final[id].resolved[field.fine]
             v == StopOverride(c)
             headRow == [slot |-> c.slot, value |-> v]
             fineRow == [slot |-> half.slot, value |-> 0]
  <2>1. field.head \in 1 .. Final[id].channels /\ field.head # None /\ Forwards(c)
    BY HeadsForward
  <2>2. v # None => headRow \in stop
    <3>1. v # None => Asks(id, j, field.head, headRow)
      BY DEF Asks
    <3> QED BY <3>1, StopRowOf DEF stop
  <2>3. v # None /\ field.fine # None => fineRow \in stop
    <3>1. v # None /\ field.fine # None => Asks(id, j, field.fine, fineRow)
      BY DEF Asks
    <3> QED BY <3>1, StopRowOf DEF stop
  <2>4. ASSUME NEW l \in {field.head, field.fine}, l # None, overridden(Final[id].resolved[l].slot)
        PROVE  v # None
    <3>1. PICK row \in stop : row.slot = Final[id].resolved[l].slot
      BY <2>4 DEF overridden
    <3>2. PICK a \in DOMAIN Final : \E i \in DOMAIN Final[a].fields : \E k : Asks(a, i, k, row)
      BY StopRowOf DEF stop
    <3>3. PICK i \in DOMAIN Final[a].fields : \E k : Asks(a, i, k, row)
      BY <3>2
    <3>4. PICK k : Asks(a, i, k, row)
      BY <3>3
    <3>5. a = id /\ i = j
      BY <2>4, <3>1, <3>4, AskedOnce
    <3> QED BY <3>4, <3>5 DEF Asks
  <2>5. v # Missing
    <3>1. None # Missing
      BY DefinitionsAssumption
    <3>2. v # None => headRow.value # Missing
      BY <2>2 DEF stop
    <3> QED BY <3>1, <3>2
  <2>6. v # None => overridden(c.slot) /\ value(c.slot) = v
    <3>1. v # None => overridden(headRow.slot) /\ value(headRow.slot) = headRow.value
      BY <1>2, <2>2
    <3> QED BY <3>1
  <2>7. v # None /\ field.fine # None => overridden(half.slot) /\ value(half.slot) = 0
    <3>1. v # None /\ field.fine # None =>
             overridden(fineRow.slot) /\ value(fineRow.slot) = fineRow.value
      BY <1>2, <2>3
    <3> QED BY <3>1
  <2>8. overridden(c.slot) \in BOOLEAN /\ overridden(half.slot) \in BOOLEAN
    BY DEF overridden
  <2>9. overridden(c.slot) => v # None
    BY <2>1, <2>4
  <2>10. field.fine # None /\ overridden(half.slot) => v # None
    BY <2>4
  <2> HIDE DEF v, c, half, field
  <2>11. field.fine # None => overridden(half.slot) = overridden(c.slot)
    BY <2>6, <2>7, <2>8, <2>9, <2>10
  <2>12. /\ Forwards(c) /\ v # Missing
         /\ overridden(c.slot) <=> v # None
         /\ overridden(c.slot) => value(c.slot) = v
         /\ field.fine # None => /\ overridden(half.slot) = overridden(c.slot)
                                 /\ overridden(c.slot) => value(half.slot) = 0
    BY <2>1, <2>5, <2>6, <2>7, <2>9, <2>11
  <2> QED BY <2>12 DEF v, c, half, field
<1>4. ASSUME NEW id \in DOMAIN Final, NEW j \in DOMAIN Final[id].fields
      PROVE  LET c == Final[id].resolved[Final[id].fields[j].head]
             IN  AtRest(c, overridden(c.slot), value(c.slot))
  <2> DEFINE c == Final[id].resolved[Final[id].fields[j].head]
             v == StopOverride(c)
  <2>1. /\ Forwards(c) /\ v # Missing
        /\ overridden(c.slot) <=> v # None
        /\ overridden(c.slot) => value(c.slot) = v
    BY <1>3
  <2> HIDE DEF c
  <2>2. AtRest(c, v # None, v)
    BY <2>1, OverrideOf
  <2> HIDE DEF v
  <2>3. AtRest(c, overridden(c.slot), value(c.slot))
    BY <2>1, <2>2 DEF AtRest
  <2> QED BY <2>3 DEF c
<1>5. ASSUME NEW id \in DOMAIN Final, NEW field \in ToSet(Final[id].fields)
      PROVE  LET c == Final[id].resolved[field.head]
             IN  /\ AtRest(c, overridden(c.slot), value(c.slot))
                 /\ field.fine # None =>
                       LET half == Final[id].resolved[field.fine].slot IN
                       /\ overridden(half) = overridden(c.slot)
                       /\ overridden(half) => value(half) = 0
  <2>1. PICK j \in DOMAIN Final[id].fields : field = Final[id].fields[j]
    BY DEF ToSet
  <2> QED BY <1>3, <1>4, <2>1
<1>6. ASSUME NEW row \in stop
      PROVE  \E id \in DOMAIN Final : \E field \in ToSet(Final[id].fields) :
                \E index \in {field.head, field.fine} \ {None} :
                   row.slot = Final[id].resolved[index].slot
  <2>1. PICK id \in DOMAIN Final : \E j \in DOMAIN Final[id].fields : \E k : Asks(id, j, k, row)
    BY StopRowOf DEF stop
  <2>2. PICK j \in DOMAIN Final[id].fields : \E k : Asks(id, j, k, row)
    BY <2>1
  <2>3. PICK k : Asks(id, j, k, row)
    BY <2>2
  <2> DEFINE field == Final[id].fields[j]
  <2>4. field.head # None /\ field \in ToSet(Final[id].fields)
    BY HeadsForward DEF ToSet
  <2>5. k \in {field.head, field.fine} \ {None} /\ row.slot = Final[id].resolved[k].slot
    BY <2>3, <2>4 DEF Asks
  <2> QED BY <2>4, <2>5
<1>7. \A p, q \in stop : p.slot = q.slot => p = q
  BY <1>1
<1> QED
  BY <1>5, <1>6, <1>7 DEF Harmless, overridden, value, stop

-----------------------------------------------------------------------------

(* What is known of the build while it reads, and of what it has made.     *)
RowsRead(rows, p, n) ==
    /\ p = [id \in {rows[i].id : i \in 1 .. n} |-> p[id]]
    /\ \A i \in 1 .. n :
          /\ rows[i].universe = 0 /\ rows[i].channels # 0
          /\ rows[i].address + rows[i].channels <= UniverseSlots
          /\ Usable(IdentOf[rows[i].name])
          /\ p[rows[i].id] = Patched(rows[i])
    /\ \A i, j \in 1 .. n :
          i < j => rows[i].id # rows[j].id /\ IdentOf[rows[i].name] # IdentOf[rows[j].name]

FilesRead(dir, loaded, n) ==
    /\ loaded = [key \in {dir[i].key : i \in 1 .. n} |-> loaded[key]]
    /\ \A i \in 1 .. n : FileComplaints(dir[i], {}) = {} /\ loaded[dir[i].key] = dir[i]
    /\ \A i, j \in 1 .. n : i < j => dir[i].key # dir[j].key

(* A row waits for its definition, or has found all it needs in it.        *)
RowsResolved(rows, files, p) ==
    /\ p = [id \in {rows[i].id : i \in DOMAIN rows} |-> p[id]]
    /\ \A i \in DOMAIN rows :
          \/ p[rows[i].id] = Patched(rows[i])
          \/ /\ ResolveComplaints(rows[i], files) = {}
             /\ p[rows[i].id] = Complete(rows[i], files[rows[i].key])

ShowsRead(table, resolved, n) ==
    /\ Len(resolved) = n
    /\ \A i \in 1 .. n :
          /\ Resolves(table[i].start) /\ Resolves(table[i].stop)
          /\ Resolve(table[i].start) < Resolve(table[i].stop)
          /\ ~NeverTwilight(Resolve(table[i].start), Resolve(table[i].stop))
          /\ resolved[i].stop = Resolve(table[i].stop)
    /\ \A i, j \in 1 .. n : i < j => Resolve(table[i].stop) <= Resolve(table[j].start)

Ingesting == {"output", "fixtures", "definitions"}

Shape ==
    /\ input \in Inputs /\ builder \in Builders
    /\ at \in {"output", "fixtures", "definitions", "place", "shows", "ended"}
    /\ generated = [p \in Products |-> generated[p]] /\ refused = [b \in Builders |-> refused[b]]
    /\ builder = "rig" =>
          /\ generated["firmware"] = None /\ refused["firmware"] = None
          /\ at \in Ingesting => generated["rig"] = None

Reading ==
    /\ at \notin {"output", "ended"} => SacnComplaints(input.output) = {}
    /\ at = "output" => next = 1 /\ patch = <<>>
    /\ at \in {"output", "fixtures"} => definitions = <<>>
    /\ at \in {"output", "fixtures", "definitions", "place"} => shows = <<>>
    /\ at = "fixtures" =>
          /\ next \in 1 .. Len(input.fixtures) + 1
          /\ RowsRead(input.fixtures, patch, next - 1)
    /\ at = "definitions" =>
          /\ RowDefects = {} /\ RowsResolved(input.fixtures, Directory, patch)
          /\ next <= Len(input.directory) =>
                RowsRead(input.fixtures, patch, Len(input.fixtures))
          /\ next \in 1 .. Len(input.directory) + 1
          /\ FilesRead(input.directory, definitions, next - 1)
    /\ at \in {"place", "shows"} => builder = "rig"
    /\ at = "shows" =>
          /\ Cardinality(FindCity(input.place)) = 1
          /\ next \in 1 .. Len(input.shows) + 1 /\ ShowsRead(input.shows, shows, next - 1)

Honest == \A b \in Builders : refused[b] # None => refused[b] \in Defects(b)

Made ==
    /\ generated["rig"] # None =>
          /\ Flawless /\ SacnComplaints(input.output) = {} /\ TypeDefects = {} /\ StopDefects = {}
          /\ generated["rig"] = [patch |-> PatchTable(Final), stop |-> StopTable(Final)]
          /\ builder = "rig" => patch = Final
    /\ generated["firmware"] # None =>
          /\ Flawless /\ SacnComplaints(input.output) = {}
          /\ generated["firmware"] = Addressing(Final)
    /\ Built("rig") => ShowDefects = {}

BuildInv == Shape /\ ShowsSound /\ Reading /\ Honest /\ Made

(* What is said of the workspace stays said: no step changes it.           *)
LEMMA InputStays ==
    ASSUME input' = input
    PROVE  /\ RowDefects' = RowDefects /\ FileDefects' = FileDefects
           /\ FixtureDefects' = FixtureDefects /\ TypeDefects' = TypeDefects
           /\ StopDefects' = StopDefects /\ ShowDefects' = ShowDefects
           /\ Directory' = Directory /\ Final' = Final /\ (Flawless <=> Flawless')
<1>1. Directory' = Directory
  BY DEF Directory
<1>2. RowDefects' = RowDefects
  BY DEF RowDefects
<1>3. FileDefects' = FileDefects
  <2>1. ToSet(input.directory)' = ToSet(input.directory)
    OBVIOUS
  <2>2. Twice(input.directory, LAMBDA file : file.key)'
           = Twice(input.directory, LAMBDA file : file.key)
    BY DEF Twice
  <2> QED BY <2>1, <2>2 DEF FileDefects
<1>4. FixtureDefects' = FixtureDefects
  BY <1>1 DEF FixtureDefects
<1>5. TypeDefects' = TypeDefects
  BY DEF TypeDefects
<1>6. StopDefects' = StopDefects
  BY <1>1 DEF StopDefects
<1>7. ShowDefects' = ShowDefects
  BY DEF ShowDefects
<1>8. Final' = Final
  BY <1>1 DEF Final
<1>9. Flawless <=> Flawless'
  BY <1>2, <1>3, <1>4 DEF Flawless
<1> QED BY <1>1, <1>2, <1>3, <1>4, <1>5, <1>6, <1>7, <1>8, <1>9

(* A row that is refused after the rows before it has one of its defects.  *)
LEMMA RowComplaints ==
    ASSUME input \in Inputs, NEW n \in DOMAIN input.fixtures,
           RowsRead(input.fixtures, patch, n - 1),
           NEW why \in FixtureComplaints(input.fixtures[n], patch)
    PROVE  why \in RowDefects
<1> DEFINE rows == input.fixtures
           f == rows[n]
<1>1. /\ n \in Nat /\ n >= 1 /\ \A i \in 1 .. n - 1 : i \in DOMAIN rows /\ i < n
      /\ f \in ToSet(rows) /\ f.address \in Nat /\ f.channels \in Nat
  <2>1. n \in 1 .. Len(rows) /\ Len(rows) \in Nat /\ DOMAIN rows = 1 .. Len(rows)
    BY InputTyped
  <2> HIDE DEF rows
  <2>2. \A i \in 1 .. n - 1 : i \in DOMAIN rows /\ i < n
    BY <2>1
  <2> QED BY <2>1, <2>2, RowTyped DEF rows
<1>2. DOMAIN patch = {rows[i].id : i \in 1 .. n - 1}
  BY DEF RowsRead
<1>3. CASE why = "universe index"
  <2>1. f.universe # 0
    BY <1>3 DEF FixtureComplaints
  <2> QED BY <1>1, <1>3, <2>1 DEF RowDefects
<1>4. CASE why = "zero channels"
  <2>1. f.channels = 0
    BY <1>4 DEF FixtureComplaints
  <2>2. Slots(f) = {}
    BY <1>1, <2>1 DEF Slots
  <2> QED BY <1>1, <1>4, <2>2 DEF RowDefects
<1>5. CASE why = "past the end"
  <2>1. f.channels # 0 /\ f.address + f.channels > UniverseSlots
    BY <1>5 DEF FixtureComplaints
  <2> HIDE DEF f
  <2>2. f.address + f.channels - 1 \in Slots(f)
    BY <1>1, <2>1 DEF Slots
  <2>3. f.address + f.channels - 1 \notin 0 .. UniverseSlots - 1
    BY <1>1, <2>1, PatchAssumption
  <2>4. ~ Slots(f) \subseteq 0 .. UniverseSlots - 1
    BY <2>2, <2>3
  <2> QED BY <1>1, <1>5, <2>4 DEF RowDefects
<1>6. CASE why = "name"
  <2>1. ~Usable(IdentOf[f.name])
    BY <1>6 DEF FixtureComplaints
  <2> QED BY <1>1, <1>6, <2>1 DEF RowDefects
<1>7. CASE why = "name clash"
  <2>1. \E id \in DOMAIN patch : IdentOf[patch[id].name] = IdentOf[f.name]
    BY <1>7 DEF FixtureComplaints
  <2>2. PICK i \in 1 .. n - 1 : IdentOf[patch[rows[i].id].name] = IdentOf[f.name]
    BY <1>2, <2>1
  <2>3. patch[rows[i].id].name = rows[i].name
    <3>1. patch[rows[i].id] = Patched(rows[i])
      BY DEF RowsRead
    <3> QED BY <3>1 DEF Patched
  <2>4. i < n /\ i \in DOMAIN rows /\ IdentOf[rows[i].name] = IdentOf[rows[n].name]
    BY <1>1, <2>2, <2>3
  <2> QED BY <1>7, <2>4 DEF RowDefects, Twice
<1>8. CASE why = "id"
  <2>1. f.id \in DOMAIN patch
    BY <1>8 DEF FixtureComplaints
  <2>2. PICK i \in 1 .. n - 1 : rows[i].id = f.id
    BY <1>2, <2>1
  <2>3. i < n /\ i \in DOMAIN rows /\ rows[i].id = rows[n].id
    BY <1>1, <2>2
  <2> QED BY <1>8, <2>3 DEF RowDefects, Twice
<1>9. why \in {"universe index", "zero channels", "past the end", "name", "name clash", "id"}
  BY DEF FixtureComplaints
<1> QED BY <1>3, <1>4, <1>5, <1>6, <1>7, <1>8, <1>9

(* A row that is not refused has none of them, after the rows before it.   *)
LEMMA RowAccepted ==
    ASSUME NEW f, FixtureComplaints(f, patch) = {}
    PROVE  /\ f.universe = 0 /\ f.channels # 0 /\ ~(f.address + f.channels > UniverseSlots)
           /\ Usable(IdentOf[f.name]) /\ f.id \notin DOMAIN patch
           /\ \A id \in DOMAIN patch : IdentOf[patch[id].name] # IdentOf[f.name]
<1>1. f.universe = 0
  BY DEF FixtureComplaints
<1>2. f.channels # 0
  BY DEF FixtureComplaints
<1>3. ~(f.address + f.channels > UniverseSlots)
  BY <1>2 DEF FixtureComplaints
<1>4. Usable(IdentOf[f.name])
  BY DEF FixtureComplaints
<1>5. f.id \notin DOMAIN patch
  BY DEF FixtureComplaints
<1>6. \A id \in DOMAIN patch : IdentOf[patch[id].name] # IdentOf[f.name]
  BY DEF FixtureComplaints
<1> QED BY <1>1, <1>2, <1>3, <1>4, <1>5, <1>6

(* The rows read, as numbers.                                              *)
LEMMA RowsInPatch ==
    ASSUME input \in Inputs, RowsRead(input.fixtures, patch, Len(input.fixtures))
    PROVE  LET rows == input.fixtures IN
           /\ DOMAIN rows = 1 .. Len(rows) /\ Len(rows) \in Nat
           /\ DOMAIN patch = {rows[i].id : i \in DOMAIN rows}
           /\ DOMAIN patch \in SUBSET Nat /\ IsFiniteSet(DOMAIN patch)
           /\ \A i \in DOMAIN rows :
                 /\ patch[rows[i].id].address = rows[i].address /\ rows[i].address \in Nat
                 /\ patch[rows[i].id].channels = rows[i].channels /\ rows[i].channels \in Nat \ {0}
                 /\ Slots(patch[rows[i].id]) = Slots(rows[i])
           /\ \A i, j \in DOMAIN rows : i # j => rows[i].id # rows[j].id
<1> DEFINE rows == input.fixtures
<1>1. DOMAIN rows = 1 .. Len(rows) /\ Len(rows) \in Nat
  BY InputTyped
<1>2. DOMAIN patch = {rows[i].id : i \in DOMAIN rows}
  BY <1>1 DEF RowsRead
<1>3. DOMAIN patch \in SUBSET Nat
  BY <1>2, RowTyped
<1>4. ASSUME NEW i \in DOMAIN rows
      PROVE  /\ patch[rows[i].id].address = rows[i].address /\ rows[i].address \in Nat
             /\ patch[rows[i].id].channels = rows[i].channels /\ rows[i].channels \in Nat \ {0}
  <2>1. patch[rows[i].id] = Patched(rows[i]) /\ rows[i].channels # 0
    BY <1>1 DEF RowsRead
  <2>2. rows[i].address \in Nat /\ rows[i].channels \in Nat
    BY RowTyped
  <2> QED BY <2>1, <2>2 DEF Patched
<1>5. \A i \in DOMAIN rows : Slots(patch[rows[i].id]) = Slots(rows[i])
  BY <1>4 DEF Slots
<1>6. \A i, j \in DOMAIN rows : i < j => rows[i].id # rows[j].id
  BY <1>1 DEF RowsRead
<1>7. \A i, j \in DOMAIN rows : i # j => rows[i].id # rows[j].id
  <2>1. \A i, j \in DOMAIN rows : i # j => i < j \/ j < i
    BY <1>1
  <2> QED BY <1>6, <2>1
<1>8. IsFiniteSet(DOMAIN patch)
  <2> DEFINE g == [i \in DOMAIN rows |-> rows[i].id]
  <2>1. IsFiniteSet(DOMAIN rows)
    <3>1. Len(rows) \in Int /\ 1 \in Int
      BY <1>1
    <3> QED BY <1>1, <3>1, FS_Interval
  <2>2. g \in Surjection(DOMAIN rows, DOMAIN patch)
    BY <1>2 DEF Surjection
  <2> HIDE DEF g
  <2> QED BY <2>1, <2>2, FS_Surjection
<1> QED BY <1>1, <1>2, <1>3, <1>4, <1>5, <1>7, <1>8

(* Rows that were accepted one by one have no defect but an overlap.       *)
LEMMA RowsHaveNone ==
    ASSUME input \in Inputs, RowsRead(input.fixtures, patch, Len(input.fixtures)),
           input.fixtures # <<>>,
           \A i, j \in DOMAIN input.fixtures :
              i < j => Slots(input.fixtures[i]) \cap Slots(input.fixtures[j]) = {}
    PROVE  RowDefects = {}
<1> DEFINE rows == input.fixtures
<1>1. DOMAIN rows = 1 .. Len(rows) /\ ToSet(rows) = {rows[i] : i \in DOMAIN rows}
  BY InputTyped DEF ToSet
<1>2. \A i \in DOMAIN rows :
         /\ rows[i].universe = 0 /\ rows[i].channels # 0
         /\ rows[i].address + rows[i].channels <= UniverseSlots
         /\ Usable(IdentOf[rows[i].name])
  BY <1>1 DEF RowsRead
<1>3. \A i, j \in DOMAIN rows :
         i < j => rows[i].id # rows[j].id /\ IdentOf[rows[i].name] # IdentOf[rows[j].name]
  BY <1>1 DEF RowsRead
<1>4. \A i \in DOMAIN rows : Slots(rows[i]) # {} /\ Slots(rows[i]) \subseteq 0 .. UniverseSlots - 1
  <2> TAKE i \in DOMAIN rows
  <2> DEFINE f == rows[i]
  <2>1. f.address \in Nat /\ f.channels \in Nat \ {0} /\ f.address + f.channels <= UniverseSlots
    BY <1>2, RowTyped
  <2>2. UniverseSlots \in Nat
    BY PatchAssumption
  <2> HIDE DEF f
  <2>3. f.address \in Slots(f)
    BY <2>1 DEF Slots
  <2>4. Slots(f) \subseteq 0 .. UniverseSlots - 1
    BY <2>1, <2>2 DEF Slots
  <2> QED BY <2>3, <2>4 DEF f
<1>5. ~Twice(rows, LAMBDA f : IdentOf[f.name])
  BY <1>3 DEF Twice
<1>6. ~Twice(rows, LAMBDA f : f.id)
  BY <1>3 DEF Twice
<1> SUFFICES ASSUME NEW why \in RowDefects PROVE FALSE
  OBVIOUS
<1>7. /\ why = "universe index" => \E f \in ToSet(rows) : f.universe # 0
      /\ why = "zero channels" => \E f \in ToSet(rows) : Slots(f) = {}
      /\ why = "past the end" => \E f \in ToSet(rows) : ~ Slots(f) \subseteq 0 .. UniverseSlots - 1
      /\ why = "name" => \E f \in ToSet(rows) : ~Usable(IdentOf[f.name])
      /\ why # "name clash" /\ why # "id" /\ why # "empty"
      /\ why = "overlap" =>
            \E i, j \in DOMAIN rows : i < j /\ Slots(rows[i]) \cap Slots(rows[j]) # {}
  BY <1>5, <1>6 DEF RowDefects
<1>8. why \in {"universe index", "zero channels", "past the end", "name", "name clash", "id",
               "empty", "overlap"}
  BY DEF RowDefects
<1> HIDE DEF rows
<1> QED BY <1>1, <1>2, <1>4, <1>7, <1>8 DEF rows

(* Neighbours compared in address order are as good as all pairs.          *)
LEMMA PatchJudged ==
    ASSUME input \in Inputs, RowsRead(input.fixtures, patch, Len(input.fixtures))
    PROVE  /\ PatchComplaints(patch) \subseteq RowDefects
           /\ PatchComplaints(patch) = {} => RowDefects = {}
<1> DEFINE rows == input.fixtures
           n == Cardinality(DOMAIN patch)
           lies(k) == Spans(patch)[k]
<1>1. /\ DOMAIN rows = 1 .. Len(rows) /\ Len(rows) \in Nat
      /\ DOMAIN patch = {rows[i].id : i \in DOMAIN rows}
      /\ DOMAIN patch \in SUBSET Nat /\ IsFiniteSet(DOMAIN patch)
      /\ \A i \in DOMAIN rows :
            /\ patch[rows[i].id].address = rows[i].address /\ rows[i].address \in Nat
            /\ patch[rows[i].id].channels = rows[i].channels /\ rows[i].channels \in Nat \ {0}
            /\ Slots(patch[rows[i].id]) = Slots(rows[i])
      /\ \A i, j \in DOMAIN rows : i # j => rows[i].id # rows[j].id
  BY RowsInPatch
<1>2. \A i \in DOMAIN rows : Slots(patch[rows[i].id]) = Slots(rows[i])
  BY <1>1
<1>3. \A i, j \in DOMAIN rows : i # j => rows[i].id # rows[j].id
  BY <1>1
<1>4. \A id \in DOMAIN patch : \E i \in DOMAIN rows : rows[i].id = id
  BY <1>1
<1>5. \A i \in DOMAIN rows : rows[i].id \in DOMAIN patch
  BY <1>1
<1>6. CASE rows = <<>>
  <2>1. DOMAIN patch = {} /\ "empty" \in RowDefects
    BY <1>1, <1>6 DEF RowDefects
  <2> QED BY <2>1 DEF PatchComplaints
<1>7. CASE rows # <<>>
  <2>1. DOMAIN patch # {}
    <3>1. rows \in Seq(Fixtures) /\ (\A S : \A q \in Seq(S) : Len(q) = 0 => q = <<>>)
      BY InputTyped
    <3>2. Len(rows) # 0
      BY <1>7, <3>1
    <3>3. 1 \in DOMAIN rows
      BY <1>1, <3>2
    <3>4. DOMAIN patch = {rows[i].id : i \in DOMAIN rows}
      BY <1>1
    <3> QED BY ONLY <3>3, <3>4
  <2>2. \A id \in DOMAIN patch :
           patch[id].address \in Nat /\ patch[id].channels \in Nat \ {0}
    BY <1>1
  <2>3. /\ n \in Nat
        /\ \E ids \in [1 .. n -> DOMAIN patch] :
              /\ \A k \in 1 .. n : lies(k) = patch[ids[k]]
              /\ \A id \in DOMAIN patch : \E k \in 1 .. n : ids[k] = id
              /\ \A k, l \in 1 .. n :
                    k < l => ids[k] # ids[l] /\ patch[ids[k]].address <= patch[ids[l]].address
    BY <1>1, <2>2, InAddressOrder DEF Spans
  <2> HIDE DEF n, lies
  <2>4. PICK ids \in [1 .. n -> DOMAIN patch] :
           /\ \A k \in 1 .. n : lies(k) = patch[ids[k]]
           /\ \A id \in DOMAIN patch : \E k \in 1 .. n : ids[k] = id
           /\ \A k, l \in 1 .. n :
                 k < l => ids[k] # ids[l] /\ patch[ids[k]].address <= patch[ids[l]].address
    BY <2>3
  <2>5. \A k \in 1 .. n : lies(k).address \in Nat /\ lies(k).channels \in Nat \ {0}
    BY <2>2, <2>4
  <2>6. \A k, l \in 1 .. n : k < l => lies(k).address <= lies(l).address
    BY <2>4
  <2>7. PatchComplaints(patch) =
           IF \E k \in 1 .. n - 1 : lies(k).address + lies(k).channels > lies(k + 1).address
             THEN {"overlap"} ELSE {}
    BY <2>1 DEF PatchComplaints, n, lies
  <2>8. ASSUME NEW k \in 1 .. n - 1, lies(k).address + lies(k).channels > lies(k + 1).address
        PROVE  "overlap" \in RowDefects
    <3>1. k \in 1 .. n /\ k + 1 \in 1 .. n /\ k < k + 1
      BY <2>3
    <3>2. ids[k] # ids[k + 1]
      BY <2>4, <3>1
    <3>3. PICK i \in DOMAIN rows : ids[k] = rows[i].id
      BY <1>4, <2>4, <3>1
    <3>4. PICK j \in DOMAIN rows : ids[k + 1] = rows[j].id
      BY <1>4, <2>4, <3>1
    <3>5. lies(k + 1).address \in Slots(lies(k)) \cap Slots(lies(k + 1))
      <4>1. lies(k).address <= lies(k + 1).address
        BY <2>6, <3>1
      <4>2. /\ lies(k).address \in Nat /\ lies(k).channels \in Nat \ {0}
            /\ lies(k + 1).address \in Nat /\ lies(k + 1).channels \in Nat \ {0}
        BY <2>5, <3>1
      <4>3. \A a, c, b, d \in Nat :
               a <= b /\ a + c > b /\ d # 0 => b \in a .. a + c - 1 /\ b \in b .. b + d - 1
        OBVIOUS
      <4>4. /\ lies(k + 1).address \in Slots(lies(k))
            /\ lies(k + 1).address \in Slots(lies(k + 1))
        BY <2>8, <4>1, <4>2, <4>3 DEF Slots
      <4> QED BY <4>4
    <3>6. Slots(lies(k)) = Slots(rows[i]) /\ Slots(lies(k + 1)) = Slots(rows[j])
      <4>1. lies(k) = patch[rows[i].id] /\ lies(k + 1) = patch[rows[j].id]
        BY <2>4, <3>1, <3>3, <3>4
      <4> QED BY <1>2, <4>1
    <3>7. i < j \/ j < i
      <4>1. i # j
        BY <3>2, <3>3, <3>4
      <4> QED BY <1>1, <4>1
    <3>8. \E a, b \in DOMAIN rows : a < b /\ Slots(rows[a]) \cap Slots(rows[b]) # {}
      BY <3>5, <3>6, <3>7
    <3> QED BY <3>8 DEF RowDefects
  <2>9. ASSUME \A k \in 1 .. n - 1 : ~(lies(k).address + lies(k).channels > lies(k + 1).address)
        PROVE  RowDefects = {}
    <3>1. ASSUME NEW k \in 1 .. n, NEW l \in 1 .. n, k < l
          PROVE  Slots(lies(k)) \cap Slots(lies(l)) = {}
      <4>1. k \in 1 .. n - 1 /\ k + 1 \in 1 .. n /\ (k + 1 = l \/ k + 1 < l)
        BY <2>3, <3>1
      <4>2. ~(lies(k).address + lies(k).channels > lies(k + 1).address)
        BY <2>9, <4>1
      <4>3. lies(k + 1).address <= lies(l).address
        <5>1. k + 1 < l => lies(k + 1).address <= lies(l).address
          BY <2>6, <4>1
        <5>2. lies(l).address \in Nat
          BY <2>5
        <5> QED BY <4>1, <5>1, <5>2
      <4>4. /\ lies(k).address \in Nat /\ lies(k).channels \in Nat
            /\ lies(l).address \in Nat /\ lies(l).channels \in Nat
            /\ lies(k + 1).address \in Nat
        BY <2>5, <4>1
      <4>5. lies(k).address + lies(k).channels <= lies(l).address
        BY <4>2, <4>3, <4>4
      <4> QED BY <4>4, <4>5 DEF Slots
    <3>2. ASSUME NEW i \in DOMAIN rows, NEW j \in DOMAIN rows, i # j
          PROVE  Slots(rows[i]) \cap Slots(rows[j]) = {}
      <4>1. PICK k \in 1 .. n : ids[k] = rows[i].id
        BY <1>5, <2>4
      <4>2. PICK l \in 1 .. n : ids[l] = rows[j].id
        BY <1>5, <2>4
      <4>3. k # l
        BY <1>3, <3>2, <4>1, <4>2
      <4>4. k < l \/ l < k
        BY <2>3, <4>3
      <4>5. Slots(lies(k)) \cap Slots(lies(l)) = {}
        <5>1. CASE k < l
          BY <3>1, <5>1
        <5>2. CASE l < k
          BY <3>1, <5>2
        <5> QED BY <4>4, <5>1, <5>2
      <4>6. Slots(lies(k)) = Slots(rows[i]) /\ Slots(lies(l)) = Slots(rows[j])
        <5>1. lies(k) = patch[rows[i].id] /\ lies(l) = patch[rows[j].id]
          BY <2>4, <4>1, <4>2
        <5> QED BY <1>2, <5>1
      <4> QED BY <4>5, <4>6
    <3>3. \A i, j \in DOMAIN rows : i < j => Slots(rows[i]) \cap Slots(rows[j]) = {}
      <4>1. \A i, j \in DOMAIN rows : i < j => i # j
        BY <1>1
      <4> QED BY <3>2, <4>1
    <3> QED BY <1>7, <3>3, RowsHaveNone
  <2> QED BY <2>7, <2>8, <2>9
<1> QED BY <1>6, <1>7

(* The files loaded before it decide whether a file is a second of its     *)
(* key.                                                                    *)
LEMMA FileJudged ==
    ASSUME input \in Inputs, NEW n \in DOMAIN input.directory,
           FilesRead(input.directory, definitions, n - 1)
    PROVE  LET dir == input.directory
               complaints == FileComplaints(dir[n], DOMAIN definitions)
           IN  /\ complaints \subseteq FileDefects
               /\ complaints = {} => /\ FileComplaints(dir[n], {}) = {}
                                     /\ \A i \in 1 .. n - 1 : dir[i].key # dir[n].key
<1> DEFINE dir == input.directory
           complaints == FileComplaints(dir[n], DOMAIN definitions)
<1>1. /\ n \in Nat /\ \A i \in 1 .. n - 1 : i \in DOMAIN dir /\ i < n
      /\ dir[n] \in ToSet(dir)
  <2>1. n \in 1 .. Len(dir) /\ Len(dir) \in Nat /\ DOMAIN dir = 1 .. Len(dir)
    BY InputTyped
  <2>2. dir[n] \in ToSet(dir)
    BY DEF ToSet
  <2> HIDE DEF dir
  <2> QED BY <2>1, <2>2
<1>2. DOMAIN definitions = {dir[i].key : i \in 1 .. n - 1}
  BY DEF FilesRead
<1>3. \A why \in complaints : why = "defined twice" \/ why \in FileComplaints(dir[n], {})
  BY DEF FileComplaints
<1>4. "defined twice" \in complaints => "defined twice" \in FileDefects
  <2> SUFFICES ASSUME "defined twice" \in complaints PROVE "defined twice" \in FileDefects
    OBVIOUS
  <2>1. dir[n].key \in DOMAIN definitions
    BY DEF FileComplaints
  <2>2. PICK i \in 1 .. n - 1 : dir[i].key = dir[n].key
    BY <1>2, <2>1
  <2>3. Twice(dir, LAMBDA file : file.key)
    BY <1>1, <2>2 DEF Twice
  <2> QED BY <2>3 DEF FileDefects
<1>5. FileComplaints(dir[n], {}) \subseteq FileDefects
  BY <1>1 DEF FileDefects
<1>6. FileComplaints(dir[n], {}) \subseteq complaints
  BY DEF FileComplaints
<1>7. dir[n].key \in DOMAIN definitions => "defined twice" \in complaints
  BY DEF FileComplaints
<1>8. \A i \in 1 .. n - 1 : dir[i].key \in DOMAIN definitions
  BY <1>2
<1> HIDE DEF complaints, dir
<1>9. complaints \subseteq FileDefects
  BY <1>3, <1>4, <1>5
<1>10. complaints = {} => /\ FileComplaints(dir[n], {}) = {}
                          /\ \A i \in 1 .. n - 1 : dir[i].key # dir[n].key
  BY <1>6, <1>7, <1>8
<1> QED BY <1>9, <1>10 DEF complaints, dir

(* With the last file the directory is loaded, and nothing is wrong in it. *)
LEMMA FilesHaveNone ==
    ASSUME input \in Inputs, FilesRead(input.directory, definitions, Len(input.directory))
    PROVE  FileDefects = {} /\ definitions = Directory
<1> DEFINE dir == input.directory
<1>1. DOMAIN dir = 1 .. Len(dir) /\ ToSet(dir) = {dir[i] : i \in DOMAIN dir}
  BY InputTyped DEF ToSet
<1>2. /\ definitions = [key \in {dir[i].key : i \in DOMAIN dir} |-> definitions[key]]
      /\ \A i \in DOMAIN dir : FileComplaints(dir[i], {}) = {} /\ definitions[dir[i].key] = dir[i]
      /\ \A i, j \in DOMAIN dir : i < j => dir[i].key # dir[j].key
  BY <1>1 DEF FilesRead
<1>3. FileDefects = {}
  <2>1. ~Twice(dir, LAMBDA file : file.key)
    BY <1>2 DEF Twice
  <2>2. \A file \in ToSet(dir) : FileComplaints(file, {}) = {}
    BY <1>1, <1>2
  <2> QED BY <2>1, <2>2 DEF FileDefects
<1>4. /\ DOMAIN Directory = {file.key : file \in ToSet(dir)}
      /\ \A file \in ToSet(dir) : Directory[file.key] = file
  BY <1>3, DirectoryOf
<1>5. DOMAIN definitions = DOMAIN Directory
  BY <1>1, <1>2, <1>4
<1>6. \A key \in DOMAIN Directory : definitions[key] = Directory[key]
  BY <1>1, <1>2, <1>4
<1>7. Directory = [key \in DOMAIN Directory |-> Directory[key]]
  BY DEF Directory
<1>8. definitions = [key \in DOMAIN definitions |-> definitions[key]]
  BY <1>2
<1> HIDE DEF dir
<1> QED BY <1>3, <1>5, <1>6, <1>7, <1>8

(* A row of the patch resolves as the fixture it was read from.            *)
LEMMA ResolvedAlike ==
    ASSUME NEW f, NEW files
    PROVE  /\ \A file : Resolved(Patched(f), file) = Resolved(f, file)
           /\ ResolveComplaints(Patched(f), files) = ResolveComplaints(f, files)
<1>1. /\ Patched(f).key = f.key /\ Patched(f).mode = f.mode
      /\ Patched(f).channels = f.channels /\ Patched(f).address = f.address
  BY DEF Patched
<1>2. \A file : Resolved(Patched(f), file) = Resolved(f, file)
  BY <1>1 DEF Resolved
<1>3. ResolveComplaints(Patched(f), files) = ResolveComplaints(f, files)
  <2>1. CASE f.key \notin DOMAIN files
    BY <1>1, <2>1 DEF ResolveComplaints
  <2>2. CASE f.key \in DOMAIN files /\ f.mode \notin DOMAIN files[f.key].modes
    BY <1>1, <2>2 DEF ResolveComplaints
  <2>3. CASE f.key \in DOMAIN files /\ f.mode \in DOMAIN files[f.key].modes
    <3>1. Resolved(Patched(f), files[f.key]) = Resolved(f, files[f.key])
      BY <1>2
    <3> QED BY <1>1, <2>3, <3>1 DEF ResolveComplaints
  <2> QED BY <2>1, <2>2, <2>3
<1> QED BY <1>2, <1>3

(* Rows named before and after they are resolved are named alike.          *)
LEMMA TypesAlike ==
    ASSUME Flawless
    PROVE  TypeComplaints(Final) = TypeDefects
<1> DEFINE rows == input.fixtures
<1>1. \A i \in DOMAIN rows :
         /\ rows[i].id \in DOMAIN Final
         /\ Final[rows[i].id].key = rows[i].key /\ Final[rows[i].id].mode = rows[i].mode
  <2> TAKE i \in DOMAIN rows
  <2>1. rows[i] \in ToSet(rows) /\ Final[rows[i].id] = Complete(rows[i], Directory[rows[i].key])
    BY FinalIsSound, RowTyped DEF Flawless
  <2>2. rows[i].id \in DOMAIN Final
    BY <2>1, FinalIsSound
  <2> QED BY <2>1, <2>2 DEF Complete, Patched
<1>2. \A id \in DOMAIN Final : \E i \in DOMAIN rows : id = rows[i].id
  BY FinalIsSound DEF ToSet
<1> HIDE DEF rows
<1>3. ASSUME NEW i \in DOMAIN rows
      PROVE  TypeName(Final[rows[i].id], Final) = TypeName(rows[i], rows)
  <2>1. (\E id \in DOMAIN Final : /\ Final[id].key.model = Final[rows[i].id].key.model
                                  /\ Final[id].mode # Final[rows[i].id].mode)
        <=> \E j \in DOMAIN rows :
               rows[j].key.model = rows[i].key.model /\ rows[j].mode # rows[i].mode
    BY <1>1, <1>2
  <2> QED BY <1>1, <2>1 DEF TypeName
<1>4. (\E id \in DOMAIN Final : ~Usable(TypeName(Final[id], Final)))
      <=> \E i \in DOMAIN rows : ~Usable(TypeName(rows[i], rows))
  BY <1>1, <1>2, <1>3
<1>5. (\E a, b \in DOMAIN Final :
          /\ TypeName(Final[a], Final) = TypeName(Final[b], Final)
          /\ Final[a].key.model # Final[b].key.model \/ Final[a].mode # Final[b].mode)
      <=> \E i, j \in DOMAIN rows :
             /\ TypeName(rows[i], rows) = TypeName(rows[j], rows)
             /\ rows[i].key.model # rows[j].key.model \/ rows[i].mode # rows[j].mode
  <2>1. ASSUME NEW i \in DOMAIN rows, NEW j \in DOMAIN rows
        PROVE  (/\ TypeName(Final[rows[i].id], Final) = TypeName(Final[rows[j].id], Final)
                /\ \/ Final[rows[i].id].key.model # Final[rows[j].id].key.model
                   \/ Final[rows[i].id].mode # Final[rows[j].id].mode)
               <=> /\ TypeName(rows[i], rows) = TypeName(rows[j], rows)
                   /\ rows[i].key.model # rows[j].key.model \/ rows[i].mode # rows[j].mode
    BY <1>1, <1>3
  <2> QED BY <1>1, <1>2, <2>1
<1>6. TypeComplaints(Final) = TypeComplaints(rows)
  BY <1>4, <1>5 DEF TypeComplaints
<1> QED BY <1>6 DEF TypeDefects, rows

(* A stop row is missing where a definition has no band for the stop.      *)
LEMMA StopsAlike ==
    ASSUME Flawless
    PROVE  StopDefects = IF \E row \in StopTable(Final) : row.value = Missing
                           THEN {"no stop band"} ELSE {}
<1> DEFINE rows == input.fixtures
           channels(f) == Resolved(f, Directory[f.key])
           missing == \E f \in ToSet(rows) :
                         /\ ResolveComplaints(f, Directory) = {}
                         /\ \E field \in ToSet(Fields(channels(f))) :
                               NoBand(channels(f)[field.head])
<1>1. StopDefects = IF missing THEN {"no stop band"} ELSE {}
  BY DEF StopDefects
<1>2. \A i \in DOMAIN rows :
         /\ rows[i].id \in DOMAIN Final /\ rows[i] \in ToSet(rows)
         /\ Final[rows[i].id].resolved = channels(rows[i])
         /\ Final[rows[i].id].fields = Fields(channels(rows[i]))
  <2> TAKE i \in DOMAIN rows
  <2>1. rows[i] \in ToSet(rows) /\ Final[rows[i].id] = Complete(rows[i], Directory[rows[i].key])
    BY FinalIsSound, RowTyped DEF Flawless
  <2>2. rows[i].id \in DOMAIN Final
    BY <2>1, FinalIsSound
  <2> QED BY <2>1, <2>2 DEF Complete, Patched
<1>3. \A id \in DOMAIN Final : \E i \in DOMAIN rows : id = rows[i].id
  BY FinalIsSound DEF ToSet
<1>4. \A f \in ToSet(rows) : ResolveComplaints(f, Directory) = {}
  BY DEF Flawless, FixtureDefects
<1>5. \A f \in ToSet(rows) : \E i \in DOMAIN rows : f = rows[i]
  BY DEF ToSet
<1>6. 0 # Missing /\ None # Missing
  BY DefinitionsAssumption
<1>9. ASSUME NEW id \in DOMAIN Final, NEW j \in DOMAIN Final[id].fields
      PROVE  LET c == Final[id].resolved[Final[id].fields[j].head]
             IN  StopOverride(c) = Missing <=> NoBand(c)
  BY HeadsForward, OverrideOf
<1> HIDE DEF channels, rows
<1>7. ASSUME NEW row \in StopTable(Final), row.value = Missing PROVE missing
  <2>1. PICK id \in DOMAIN Final : \E j \in DOMAIN Final[id].fields : \E k : Asks(id, j, k, row)
    BY StopRowOf
  <2>2. PICK j \in DOMAIN Final[id].fields : \E k : Asks(id, j, k, row)
    BY <2>1
  <2>3. PICK i \in DOMAIN rows : id = rows[i].id
    BY <1>3
  <2>4. StopOverride(Final[id].resolved[Final[id].fields[j].head]) = Missing
    BY <1>6, <1>7, <2>2 DEF Asks
  <2>5. /\ NoBand(channels(rows[i])[Fields(channels(rows[i]))[j].head])
        /\ Fields(channels(rows[i]))[j] \in ToSet(Fields(channels(rows[i])))
    BY <1>2, <1>9, <2>3, <2>4 DEF ToSet
  <2> QED BY <1>2, <1>4, <2>5
<1>8. ASSUME missing PROVE \E row \in StopTable(Final) : row.value = Missing
  <2>1. PICK f \in ToSet(rows) : \E field \in ToSet(Fields(channels(f))) :
                                    NoBand(channels(f)[field.head])
    BY <1>8
  <2>2. PICK field \in ToSet(Fields(channels(f))) : NoBand(channels(f)[field.head])
    BY <2>1
  <2>3. PICK i \in DOMAIN rows : f = rows[i]
    BY <1>5
  <2>4. PICK j \in DOMAIN Fields(channels(f)) : field = Fields(channels(f))[j]
    BY DEF ToSet
  <2> DEFINE id == rows[i].id
             row == [slot |-> Final[id].resolved[field.head].slot, value |-> Missing]
  <2>5. id \in DOMAIN Final /\ j \in DOMAIN Final[id].fields /\ Final[id].fields[j] = field
        /\ StopOverride(Final[id].resolved[field.head]) = Missing
    <3>1. /\ id \in DOMAIN Final /\ j \in DOMAIN Final[id].fields /\ Final[id].fields[j] = field
          /\ NoBand(Final[id].resolved[field.head])
      BY <1>2, <2>2, <2>3, <2>4
    <3> QED BY <1>9, <3>1
  <2>6. Asks(id, j, field.head, row)
    BY <1>6, <2>5 DEF Asks
  <2>7. row \in StopTable(Final)
    BY <2>5, <2>6, StopRowOf
  <2> QED BY <2>7
<1> HIDE DEF missing
<1> QED BY <1>1, <1>7, <1>8

(* A show is compared with the one above it alone; the ones above that end *)
(* before it opens.                                                        *)
LEMMA ShowJudged ==
    ASSUME input \in Inputs, NEW n \in DOMAIN input.shows, ShowsSound,
           ShowsRead(input.shows, shows, n - 1)
    PROVE  LET table == input.shows
               complaints == ShowComplaints(table[n], shows)
           IN  /\ complaints \subseteq ShowDefects
               /\ complaints = {} =>
                     /\ Resolves(table[n].start) /\ Resolves(table[n].stop)
                     /\ Resolve(table[n].start) < Resolve(table[n].stop)
                     /\ ~NeverTwilight(Resolve(table[n].start), Resolve(table[n].stop))
                     /\ \A i \in 1 .. n - 1 : Resolve(table[i].stop) <= Resolve(table[n].start)
<1> DEFINE table == input.shows
           complaints == ShowComplaints(table[n], shows)
           sound(i) == Resolves(table[i].start) /\ Resolves(table[i].stop)
           start(i) == Resolve(table[i].start)
           stop(i) == Resolve(table[i].stop)
<1>1. n \in Nat /\ n >= 1 /\ \A i \in 1 .. n - 1 : i \in DOMAIN table /\ i < n
  <2>1. n \in 1 .. Len(table) /\ Len(table) \in Nat /\ DOMAIN table = 1 .. Len(table)
    BY InputTyped
  <2> HIDE DEF table
  <2> QED BY <2>1
<1>2. ASSUME NEW i, sound(i) PROVE start(i) \in Int /\ stop(i) \in Int
  BY <1>2, ResolveIsInstant, DateIsInt
<1>3. /\ Len(shows) = n - 1 /\ shows \in Seq(SoundShows)
      /\ \A i \in 1 .. n - 1 : sound(i) /\ start(i) < stop(i) /\ shows[i].stop = stop(i)
      /\ \A i, j \in 1 .. n - 1 : i < j => stop(i) <= start(j)
  BY DEF ShowsRead, ShowsSound
<1>4. shows # <<>> <=> n > 1
  <2>1. \A S : \A q \in Seq(S) : q # <<>> <=> Len(q) # 0
    OBVIOUS
  <2> QED BY <1>1, <1>3, <2>1
<1>5. n > 1 => shows[Len(shows)].stop = stop(n - 1) /\ n - 1 \in 1 .. n - 1
  BY <1>1, <1>3
<1>6. /\ ~sound(n) => complaints = {"local time"}
      /\ sound(n) /\ stop(n) <= start(n) => complaints = {"ends before it starts"}
      /\ sound(n) /\ ~(stop(n) <= start(n)) /\ n > 1 /\ start(n) < stop(n - 1)
            => complaints = {"out of order"}
      /\ sound(n) /\ ~(stop(n) <= start(n)) /\ ~(n > 1 /\ start(n) < stop(n - 1))
            /\ NeverTwilight(start(n), stop(n)) => complaints = {"no twilight"}
  BY <1>4, <1>5 DEF ShowComplaints
<1>7. /\ ~sound(n) => "local time" \in ShowDefects
      /\ sound(n) /\ stop(n) <= start(n) => "ends before it starts" \in ShowDefects
      /\ sound(n) /\ NeverTwilight(start(n), stop(n)) => "no twilight" \in ShowDefects
  BY DEF ShowDefects
<1>8. sound(n) /\ n > 1 /\ start(n) < stop(n - 1) => "out of order" \in ShowDefects
  <2> SUFFICES ASSUME sound(n), n > 1, start(n) < stop(n - 1) PROVE "out of order" \in ShowDefects
    OBVIOUS
  <2>1. n - 1 \in DOMAIN table /\ n - 1 < n /\ sound(n - 1)
    BY <1>1, <1>3, <1>5
  <2>2. \E i, j \in DOMAIN table : i < j /\ sound(i) /\ sound(j) /\ start(j) < stop(i)
    BY <2>1
  <2> QED BY <2>2 DEF ShowDefects
<1> HIDE DEF complaints, sound, start, stop, table
<1>9. complaints \subseteq ShowDefects
  <2>1. CASE ~sound(n)
    BY <1>6, <1>7, <2>1
  <2>2. CASE sound(n) /\ stop(n) <= start(n)
    BY <1>6, <1>7, <2>2
  <2>3. CASE sound(n) /\ ~(stop(n) <= start(n)) /\ n > 1 /\ start(n) < stop(n - 1)
    BY <1>6, <1>8, <2>3
  <2>4. CASE /\ sound(n) /\ ~(stop(n) <= start(n)) /\ ~(n > 1 /\ start(n) < stop(n - 1))
             /\ NeverTwilight(start(n), stop(n))
    BY <1>6, <1>7, <2>4
  <2>5. CASE /\ sound(n) /\ ~(stop(n) <= start(n)) /\ ~(n > 1 /\ start(n) < stop(n - 1))
             /\ ~NeverTwilight(start(n), stop(n))
    <3>1. complaints = {}
      BY <1>4, <1>5, <2>5 DEF ShowComplaints, complaints, sound, start, stop
    <3> QED BY <3>1
  <2> QED BY <2>1, <2>2, <2>3, <2>4, <2>5
<1>10. ASSUME complaints = {}
       PROVE  /\ sound(n) /\ start(n) < stop(n) /\ ~NeverTwilight(start(n), stop(n))
              /\ \A i \in 1 .. n - 1 : stop(i) <= start(n)
  <2>1. sound(n) /\ ~(stop(n) <= start(n)) /\ ~(n > 1 /\ start(n) < stop(n - 1))
        /\ ~NeverTwilight(start(n), stop(n))
    BY <1>6, <1>10
  <2>2. start(n) \in Int /\ stop(n) \in Int
    BY <1>2, <2>1
  <2>3. ASSUME NEW i \in 1 .. n - 1 PROVE stop(i) <= start(n)
    <3>1. n > 1 /\ i \in Int /\ n - 1 \in 1 .. n - 1 /\ (i = n - 1 \/ i < n - 1)
      BY <1>1
    <3>2. sound(n - 1) /\ sound(i) /\ start(n - 1) < stop(n - 1)
      BY <1>3, <3>1
    <3>3. start(n - 1) \in Int /\ stop(n - 1) \in Int /\ stop(i) \in Int
      BY <1>2, <3>2
    <3>4. stop(n - 1) <= start(n)
      BY <2>1, <2>2, <3>1, <3>3
    <3>5. i < n - 1 => stop(i) <= start(n - 1)
      BY <1>3, <3>1
    <3> QED BY <2>2, <3>1, <3>2, <3>3, <3>4, <3>5
  <2> QED BY <2>1, <2>2, <2>3
<1> QED BY <1>9, <1>10 DEF complaints, sound, start, stop, table

(* With the last show the table has nothing wrong in it.                   *)
LEMMA ShowsHaveNone ==
    ASSUME input \in Inputs, ShowsRead(input.shows, shows, Len(input.shows)),
           Cardinality(FindCity(input.place)) = 1
    PROVE  ShowDefects = {}
<1> DEFINE table == input.shows
           sound(i) == Resolves(table[i].start) /\ Resolves(table[i].stop)
           start(i) == Resolve(table[i].start)
           stop(i) == Resolve(table[i].stop)
<1>1. DOMAIN table = 1 .. Len(table)
  BY InputTyped
<1>2. /\ \A i \in DOMAIN table : sound(i) /\ start(i) < stop(i) /\ ~NeverTwilight(start(i), stop(i))
      /\ \A i, j \in DOMAIN table : i < j => stop(i) <= start(j)
  BY <1>1 DEF ShowsRead
<1>3. \A i \in DOMAIN table : start(i) \in Int /\ stop(i) \in Int
  BY <1>2, ResolveIsInstant, DateIsInt
<1>4. /\ \A i \in DOMAIN table : ~(stop(i) <= start(i))
      /\ \A i, j \in DOMAIN table : i < j => ~(start(j) < stop(i))
  <2> HIDE DEF start, stop, table
  <2> QED BY <1>2, <1>3
<1>5. /\ ~\E i \in DOMAIN table : ~sound(i)
      /\ ~\E i \in DOMAIN table : sound(i) /\ stop(i) <= start(i)
      /\ ~\E i, j \in DOMAIN table : i < j /\ sound(i) /\ sound(j) /\ start(j) < stop(i)
      /\ ~\E i \in DOMAIN table : sound(i) /\ NeverTwilight(start(i), stop(i))
  BY <1>2, <1>4
<1> QED BY <1>5 DEF ShowDefects

-----------------------------------------------------------------------------

(* Nor does a step change what the build is to be refused for.             *)
LEMMA DefectsStay ==
    ASSUME input' = input
    PROVE  \A b \in Builders : Defects(b)' = Defects(b)
BY InputStays DEF Defects

(* A build that fails for one of its defects.                              *)
LEMMA StepRefused ==
    ASSUME BuildInv, NEW complaints, Refuse(complaints), complaints \subseteq Defects(builder),
           at # "ended", at \in {"place", "shows"} => None \notin complaints
    PROVE  Shape' /\ Reading' /\ Honest' /\ Made'
<1>1. PICK why \in complaints : refused' = [refused EXCEPT ![builder] = why]
  BY DEF Refuse
<1>2. /\ at' = "ended" /\ input' = input /\ builder' = builder /\ generated' = generated
      /\ patch' = patch
  BY DEF Refuse, readVars
<1>3. Shape
  BY DEF BuildInv
<1>4. /\ builder \in Builders /\ refused' = [b \in Builders |-> refused'[b]]
      /\ refused'[builder] = why
      /\ \A b \in Builders : b # builder => refused'[b] = refused[b]
  BY <1>1, <1>3 DEF Shape
<1>5. Shape'
  <2>1. builder = "rig" => refused'["firmware"] = refused["firmware"]
    BY <1>4 DEF Builders
  <2> QED BY <1>2, <1>3, <1>4, <2>1 DEF Shape, Ingesting
<1>6. Reading'
  BY <1>2 DEF Reading
<1>7. Honest'
  <2>1. \A b \in Builders : Defects(b)' = Defects(b)
    BY <1>2, DefectsStay
  <2>2. refused'[builder] \in Defects(builder)
    BY <1>4
  <2>3. \A b \in Builders : refused[b] # None => refused[b] \in Defects(b)
    BY DEF BuildInv, Honest
  <2>4. \A b \in Builders : refused'[b] # None => refused'[b] \in Defects(b)'
    <3> TAKE b \in Builders
    <3>1. CASE b = builder
      BY <2>1, <2>2, <3>1
    <3>2. CASE b # builder
      BY <1>4, <2>1, <2>3, <3>2
    <3> QED BY <3>1, <3>2
  <2> QED BY <2>4 DEF Honest
<1>8. Made'
  <2>1. Made
    BY DEF BuildInv
  <2>2. Built("rig")' => Built("rig")
    <3>1. CASE builder = "rig"
      <4>1. at \in Ingesting \/ at \in {"place", "shows"}
        BY <1>3 DEF Shape, Ingesting
      <4>2. at \in Ingesting => generated["rig"] = None
        BY <1>3, <3>1 DEF Shape
      <4>3. at \in {"place", "shows"} => refused'["rig"] # None
        BY <1>4, <3>1
      <4> QED BY <1>2, <4>1, <4>2, <4>3 DEF Built
    <3>2. CASE builder # "rig"
      <4>1. refused'["rig"] = refused["rig"]
        BY <1>4, <3>2 DEF Builders
      <4> QED BY <1>2, <3>2, <4>1 DEF Built
    <3> QED BY <3>1, <3>2
  <2> QED BY <1>2, <2>1, <2>2, InputStays DEF Made
<1> QED BY <1>5, <1>6, <1>7, <1>8

(* A build that reads on.                                                  *)
LEMMA StepKept ==
    ASSUME BuildInv, UNCHANGED <<input, builder, generated, refused>>, at # "ended",
           at' \in Ingesting \cup {"place", "shows"}, at' \in Ingesting => at \in Ingesting,
           patch' = patch \/ at \in Ingesting
    PROVE  Shape' /\ Honest' /\ Made'
<1>1. Shape /\ Honest /\ Made
  BY DEF BuildInv
<1>2. Shape'
  BY <1>1 DEF Shape, Ingesting
<1>3. Honest'
  BY <1>1, DefectsStay DEF Honest
<1>4. Built("rig")' => Built("rig")
  BY DEF Built, Ingesting
<1>5. builder = "rig" /\ generated["rig"] # None => patch' = patch
  BY <1>1 DEF Shape
<1> QED BY <1>1, <1>2, <1>3, <1>4, <1>5, InputStays DEF Made

(* parse_sacn reads the output's parameters.                               *)
LEMMA SacnStep ==
    ASSUME BuildInv, ParseSacn
    PROVE  Shape' /\ Reading' /\ Honest' /\ Made'
<1>1. at = "output" /\ Shape /\ Reading
  BY DEF ParseSacn, BuildInv
<1>2. CASE SacnComplaints(input.output) # {}
  <2>1. Refuse(SacnComplaints(input.output))
    BY <1>2 DEF ParseSacn
  <2>2. SacnComplaints(input.output) \subseteq Defects(builder)
    BY DEF Defects
  <2> QED BY <1>1, <2>1, <2>2, StepRefused
<1>3. CASE SacnComplaints(input.output) = {}
  <2>1. Onward("fixtures")
    BY <1>3 DEF ParseSacn
  <2>2. /\ at' = "fixtures" /\ next' = 1 /\ patch' = patch
        /\ UNCHANGED <<input, builder, generated, refused>>
        /\ definitions' = definitions /\ shows' = shows
    BY <2>1 DEF Onward
  <2>3. Shape' /\ Honest' /\ Made'
    BY <1>1, <2>2, StepKept DEF Ingesting
  <2>4. RowsRead(input.fixtures, patch, 0)'
    <3>1. patch' = <<>>
      BY <1>1, <2>2 DEF Reading
    <3>2. 1 .. 0 = {}
      OBVIOUS
    <3> QED BY <3>1, <3>2 DEF RowsRead
  <2>5. RowsRead(input.fixtures, patch, next - 1)'
    <3>1. next' - 1 = 0
      BY <2>2
    <3> QED BY <2>4, <3>1 DEF RowsRead
  <2>6. next' \in 1 .. Len(input.fixtures)' + 1
    <3>1. Len(input.fixtures) \in Nat
      BY <1>1, InputTyped DEF Shape
    <3> QED BY <2>2, <3>1
  <2>7. Reading'
    BY <1>1, <1>3, <2>2, <2>5, <2>6 DEF Reading
  <2> QED BY <2>3, <2>7
<1> QED BY <1>2, <1>3

(* parse_patch reads a row.                                                *)
LEMMA FixtureStep ==
    ASSUME BuildInv, ParseFixture
    PROVE  Shape' /\ Reading' /\ Honest' /\ Made'
<1> DEFINE rows == input.fixtures
           f == rows[next]
<1>1. /\ at = "fixtures" /\ next <= Len(rows) /\ Shape /\ Reading /\ input \in Inputs
  BY DEF ParseFixture, BuildInv, Shape
<1>2. /\ next \in DOMAIN rows /\ next \in Nat /\ next >= 1 /\ next + 1 \in 1 .. Len(rows) + 1
      /\ RowsRead(input.fixtures, patch, next - 1)
  <2>1. DOMAIN rows = 1 .. Len(rows) /\ Len(rows) \in Nat
    BY <1>1, InputTyped
  <2>2. next \in 1 .. Len(rows) + 1 /\ RowsRead(input.fixtures, patch, next - 1)
    BY <1>1 DEF Reading
  <2> HIDE DEF rows
  <2> QED BY <1>1, <2>1, <2>2
<1>3. CASE FixtureComplaints(f, patch) # {}
  <2>1. Refuse(FixtureComplaints(f, patch))
    BY <1>3 DEF ParseFixture
  <2>2. FixtureComplaints(f, patch) \subseteq RowDefects
    BY <1>1, <1>2, RowComplaints
  <2>3. FixtureComplaints(f, patch) \subseteq Defects(builder)
    BY <2>2 DEF Defects
  <2> QED BY <1>1, <2>1, <2>3, StepRefused
<1>4. CASE FixtureComplaints(f, patch) = {}
  <2>1. /\ at' = at /\ next' = next + 1 /\ UNCHANGED <<input, builder, generated, refused>>
        /\ definitions' = definitions /\ shows' = shows
        /\ patch' = [id \in DOMAIN patch \cup {f.id} |-> IF id = f.id THEN Patched(f) ELSE patch[id]]
    BY <1>4 DEF ParseFixture
  <2>2. Shape' /\ Honest' /\ Made'
    BY <1>1, <2>1, StepKept DEF Ingesting
  <2>3. /\ f.universe = 0 /\ f.channels # 0 /\ ~(f.address + f.channels > UniverseSlots)
        /\ Usable(IdentOf[f.name]) /\ f.id \notin DOMAIN patch
        /\ \A id \in DOMAIN patch : IdentOf[patch[id].name] # IdentOf[f.name]
    BY <1>4, RowAccepted
  <2>4. f.address + f.channels <= UniverseSlots
    <3>1. f.address \in Nat /\ f.channels \in Nat /\ UniverseSlots \in Nat
      BY <1>1, <1>2, RowTyped, PatchAssumption
    <3> HIDE DEF f
    <3> QED BY <2>3, <3>1
  <2>5. /\ DOMAIN patch = {rows[i].id : i \in 1 .. next - 1}
        /\ \A i \in 1 .. next - 1 :
              /\ rows[i].universe = 0 /\ rows[i].channels # 0
              /\ rows[i].address + rows[i].channels <= UniverseSlots
              /\ Usable(IdentOf[rows[i].name])
              /\ patch[rows[i].id] = Patched(rows[i])
        /\ \A i, j \in 1 .. next - 1 :
              i < j => rows[i].id # rows[j].id /\ IdentOf[rows[i].name] # IdentOf[rows[j].name]
    BY <1>2 DEF RowsRead
  <2>6. \A i \in 1 .. next - 1 : rows[i].id # f.id /\ IdentOf[rows[i].name] # IdentOf[f.name]
    <3> TAKE i \in 1 .. next - 1
    <3>1. rows[i].id \in DOMAIN patch /\ patch[rows[i].id] = Patched(rows[i])
      BY <2>5
    <3>2. patch[rows[i].id].name = rows[i].name
      BY <3>1 DEF Patched
    <3> QED BY <2>3, <3>1, <3>2
  <2>7. /\ 1 .. next = (1 .. next - 1) \cup {next}
        /\ \A i, j \in 1 .. next : i < j => i \in 1 .. next - 1 /\ (j \in 1 .. next - 1 \/ j = next)
    BY <1>2
  <2>8. /\ DOMAIN patch' = {rows[i].id : i \in 1 .. next}
        /\ patch' = [id \in DOMAIN patch' |-> patch'[id]]
    BY <2>1, <2>5, <2>7
  <2>9. /\ patch'[f.id] = Patched(f)
        /\ \A i \in 1 .. next - 1 : patch'[rows[i].id] = Patched(rows[i])
    BY <2>1, <2>5, <2>6
  <2>10. \A i \in 1 .. next :
            /\ rows[i].universe = 0 /\ rows[i].channels # 0
            /\ rows[i].address + rows[i].channels <= UniverseSlots
            /\ Usable(IdentOf[rows[i].name])
            /\ patch'[rows[i].id] = Patched(rows[i])
    BY <2>3, <2>4, <2>5, <2>7, <2>9
  <2>11. \A i, j \in 1 .. next :
            i < j => rows[i].id # rows[j].id /\ IdentOf[rows[i].name] # IdentOf[rows[j].name]
    BY <2>5, <2>6, <2>7
  <2>12. RowsRead(input.fixtures, patch, next - 1)'
    <3>1. next' - 1 = next
      BY <1>2, <2>1
    <3>2. patch' = [id \in {rows[i].id : i \in 1 .. next} |-> patch'[id]]
      BY <2>8
    <3> HIDE DEF rows
    <3>3. RowsRead(rows, patch', next)
      BY <2>10, <2>11, <3>2 DEF RowsRead
    <3> QED BY <2>1, <3>1, <3>3 DEF rows
  <2>13. next' \in 1 .. Len(input.fixtures)' + 1
    BY <1>2, <2>1
  <2> QED BY <1>1, <2>1, <2>2, <2>12, <2>13 DEF Reading
<1> QED BY <1>3, <1>4

(* parse_patch has read them all.                                          *)
LEMMA PatchStep ==
    ASSUME BuildInv, ParsePatch
    PROVE  Shape' /\ Reading' /\ Honest' /\ Made'
<1> DEFINE rows == input.fixtures
<1>1. /\ at = "fixtures" /\ Shape /\ Reading /\ input \in Inputs
      /\ RowsRead(input.fixtures, patch, Len(rows))
      /\ DOMAIN rows = 1 .. Len(rows)
  <2>1. at = "fixtures" /\ next > Len(rows) /\ Shape /\ Reading /\ input \in Inputs
    BY DEF ParsePatch, BuildInv, Shape
  <2>2. next \in 1 .. Len(rows) + 1 /\ RowsRead(input.fixtures, patch, next - 1)
    BY <2>1 DEF Reading
  <2>3. Len(rows) \in Nat /\ DOMAIN rows = 1 .. Len(rows)
    BY <2>1, InputTyped
  <2> HIDE DEF rows
  <2>4. next - 1 = Len(rows)
    BY <2>1, <2>2, <2>3
  <2> QED BY <2>1, <2>2, <2>3, <2>4
<1>2. PatchComplaints(patch) \subseteq RowDefects /\ (PatchComplaints(patch) = {} => RowDefects = {})
  BY <1>1, PatchJudged
<1>3. CASE PatchComplaints(patch) # {}
  <2>1. Refuse(PatchComplaints(patch))
    BY <1>3 DEF ParsePatch
  <2>2. PatchComplaints(patch) \subseteq Defects(builder)
    BY <1>2 DEF Defects
  <2> QED BY <1>1, <2>1, <2>2, StepRefused
<1>4. CASE PatchComplaints(patch) = {}
  <2>1. Onward("definitions")
    BY <1>4 DEF ParsePatch
  <2>2. /\ at' = "definitions" /\ next' = 1 /\ patch' = patch
        /\ UNCHANGED <<input, builder, generated, refused>>
        /\ definitions' = definitions /\ shows' = shows
    BY <2>1 DEF Onward
  <2>3. Shape' /\ Honest' /\ Made'
    BY <1>1, <2>2, StepKept DEF Ingesting
  <2>4. FilesRead(input.directory, definitions, next - 1)'
    <3>1. definitions' = <<>> /\ next' - 1 = 0
      BY <1>1, <2>2 DEF Reading
    <3>2. 1 .. 0 = {}
      OBVIOUS
    <3> QED BY <3>1, <3>2 DEF FilesRead
  <2>5. next' \in 1 .. Len(input.directory)' + 1
    <3>1. Len(input.directory) \in Nat
      BY <1>1, InputTyped
    <3> QED BY <2>2, <3>1
  <2>6. RowsRead(input.fixtures, patch, Len(input.fixtures))'
    BY <1>1, <2>2
  <2>8. RowsResolved(input.fixtures, Directory, patch)'
    <3>1. /\ patch = [id \in {rows[i].id : i \in DOMAIN rows} |-> patch[id]]
          /\ \A i \in DOMAIN rows : patch[rows[i].id] = Patched(rows[i])
      BY <1>1 DEF RowsRead
    <3>2. RowsResolved(rows, Directory, patch)
      BY <3>1 DEF RowsResolved
    <3>3. Directory' = Directory
      BY <2>2, InputStays
    <3> QED BY <2>2, <3>2, <3>3
  <2>7. RowDefects' = {}
    BY <1>2, <1>4, <2>2, InputStays
  <2> QED BY <1>1, <2>2, <2>3, <2>4, <2>5, <2>6, <2>7, <2>8 DEF Reading
<1> QED BY <1>3, <1>4

(* load_definitions reads a file.                                          *)
LEMMA DefinitionStep ==
    ASSUME BuildInv, LoadDefinition
    PROVE  Shape' /\ Reading' /\ Honest' /\ Made'
<1> DEFINE dir == input.directory
           file == dir[next]
           complaints == FileComplaints(file, DOMAIN definitions)
<1>1. /\ at = "definitions" /\ next <= Len(dir) /\ Shape /\ Reading /\ input \in Inputs
  BY DEF LoadDefinition, BuildInv, Shape
<1>2. /\ next \in DOMAIN dir /\ next \in Nat /\ next >= 1 /\ next + 1 \in 1 .. Len(dir) + 1
      /\ FilesRead(input.directory, definitions, next - 1)
      /\ RowDefects = {} /\ RowsResolved(input.fixtures, Directory, patch)
      /\ RowsRead(input.fixtures, patch, Len(input.fixtures))
  <2>1. DOMAIN dir = 1 .. Len(dir) /\ Len(dir) \in Nat
    BY <1>1, InputTyped
  <2>2. next \in 1 .. Len(dir) + 1 /\ FilesRead(input.directory, definitions, next - 1)
        /\ RowDefects = {} /\ RowsResolved(input.fixtures, Directory, patch)
        /\ RowsRead(input.fixtures, patch, Len(input.fixtures))
    BY <1>1 DEF Reading
  <2> HIDE DEF dir
  <2> QED BY <1>1, <2>1, <2>2
<1>3. /\ complaints \subseteq FileDefects
      /\ complaints = {} => /\ FileComplaints(file, {}) = {}
                            /\ \A i \in 1 .. next - 1 : dir[i].key # file.key
  BY <1>1, <1>2, FileJudged
<1>4. CASE complaints # {}
  <2>1. Refuse(complaints)
    BY <1>4 DEF LoadDefinition
  <2>2. complaints \subseteq Defects(builder)
    BY <1>3 DEF Defects
  <2> HIDE DEF complaints
  <2> QED BY <1>1, <2>1, <2>2, StepRefused
<1>5. CASE complaints = {}
  <2>1. /\ at' = at /\ next' = next + 1 /\ UNCHANGED <<input, builder, generated, refused>>
        /\ patch' = patch /\ shows' = shows
        /\ definitions' = [key \in DOMAIN definitions \cup {file.key} |->
                              IF key = file.key THEN file ELSE definitions[key]]
    BY <1>5 DEF LoadDefinition
  <2>2. Shape' /\ Honest' /\ Made'
    BY <1>1, <2>1, StepKept DEF Ingesting
  <2>3. /\ DOMAIN definitions = {dir[i].key : i \in 1 .. next - 1}
        /\ \A i \in 1 .. next - 1 :
              FileComplaints(dir[i], {}) = {} /\ definitions[dir[i].key] = dir[i]
        /\ \A i, j \in 1 .. next - 1 : i < j => dir[i].key # dir[j].key
    BY <1>2 DEF FilesRead
  <2>4. FileComplaints(file, {}) = {} /\ \A i \in 1 .. next - 1 : dir[i].key # file.key
    BY <1>3, <1>5
  <2>5. /\ 1 .. next = (1 .. next - 1) \cup {next}
        /\ \A i, j \in 1 .. next : i < j => i \in 1 .. next - 1 /\ (j \in 1 .. next - 1 \/ j = next)
    BY <1>2
  <2> HIDE DEF complaints
  <2>6. /\ DOMAIN definitions' = {dir[i].key : i \in 1 .. next}
        /\ definitions' = [key \in DOMAIN definitions' |-> definitions'[key]]
    BY <2>1, <2>3, <2>5
  <2>7. \A i \in 1 .. next : FileComplaints(dir[i], {}) = {} /\ definitions'[dir[i].key] = dir[i]
    BY <2>1, <2>3, <2>4, <2>5
  <2>8. \A i, j \in 1 .. next : i < j => dir[i].key # dir[j].key
    BY <2>3, <2>4, <2>5
  <2>9. FilesRead(input.directory, definitions, next - 1)'
    <3>1. next' - 1 = next
      BY <1>2, <2>1
    <3>2. definitions' = [key \in {dir[i].key : i \in 1 .. next} |-> definitions'[key]]
      BY <2>6
    <3> HIDE DEF dir
    <3>3. FilesRead(dir, definitions', next)
      BY <2>7, <2>8, <3>2 DEF FilesRead
    <3> QED BY <2>1, <3>1, <3>3 DEF dir
  <2>10. next' \in 1 .. Len(input.directory)' + 1
    BY <1>2, <2>1
  <2>11. /\ RowsResolved(input.fixtures, Directory, patch)'
         /\ RowsRead(input.fixtures, patch, Len(input.fixtures))'
    <3>1. Directory' = Directory
      BY <2>1, InputStays
    <3> QED BY <1>2, <2>1, <3>1
  <2>12. RowDefects' = {}
    BY <1>2, <2>1, InputStays
  <2> QED BY <1>1, <2>1, <2>2, <2>9, <2>10, <2>11, <2>12 DEF Reading
<1> QED BY <1>4, <1>5

(* A row that waits is one as it was read, and one that does not has found *)
(* all it needs.                                                           *)
LEMMA WaitingRow ==
    ASSUME input \in Inputs, RowDefects = {}, RowsResolved(input.fixtures, Directory, patch),
           NEW i \in DOMAIN input.fixtures
    PROVE  LET f == input.fixtures[i] IN
           /\ f.id \in DOMAIN patch
           /\ patch[f.id].resolved = <<>> => patch[f.id] = Patched(f)
           /\ patch[f.id].resolved # <<>> =>
                 /\ ResolveComplaints(f, Directory) = {}
                 /\ patch[f.id] = Complete(f, Directory[f.key])
<1> DEFINE f == input.fixtures[i]
           file == Directory[f.key]
<1>1. f.id \in DOMAIN patch
  BY DEF RowsResolved
<1>2. \/ patch[f.id] = Patched(f)
      \/ ResolveComplaints(f, Directory) = {} /\ patch[f.id] = Complete(f, file)
  BY DEF RowsResolved
<1>3. Patched(f).resolved = <<>>
  BY DEF Patched
<1>4. Complete(f, file).resolved # <<>>
  <2>1. f.channels >= 1 /\ f.channels \in Nat
    BY RowTyped, SpanFits
  <2>2. Complete(f, file).resolved = Resolved(f, file)
    BY DEF Complete, Patched
  <2>3. DOMAIN Resolved(f, file) = 1 .. f.channels
    BY DEF Resolved
  <2> HIDE DEF f, file
  <2>4. 1 \in DOMAIN Resolved(f, file)
    BY <2>1, <2>3
  <2>5. DOMAIN <<>> = {}
    OBVIOUS
  <2> QED BY <2>2, <2>4, <2>5
<1> HIDE DEF f, file
<1>5. /\ patch[f.id].resolved = <<>> => patch[f.id] = Patched(f)
      /\ patch[f.id].resolved # <<>> => /\ ResolveComplaints(f, Directory) = {}
                                        /\ patch[f.id] = Complete(f, file)
  BY <1>2, <1>3, <1>4
<1> QED BY <1>1, <1>5 DEF f, file

(* The directory read, the definitions are those of the whole of it.       *)
LEMMA LoadedAll ==
    ASSUME BuildInv, at = "definitions", next > Len(input.directory)
    PROVE  /\ input \in Inputs /\ RowDefects = {} /\ FileDefects = {}
      /\ RowsResolved(input.fixtures, Directory, patch)
           /\ definitions = Directory
<1> DEFINE dir == input.directory
<1>1. /\ input \in Inputs /\ RowDefects = {} /\ RowsResolved(input.fixtures, Directory, patch)
      /\ next \in 1 .. Len(dir) + 1 /\ FilesRead(dir, definitions, next - 1)
  BY DEF BuildInv, Shape, Reading
<1>2. Len(dir) \in Nat
  BY <1>1, InputTyped
<1> HIDE DEF dir
<1>3. next - 1 = Len(dir)
  BY <1>1, <1>2 DEF dir
<1> QED BY <1>1, <1>3, FilesHaveNone DEF dir

(* The directory read and no row waiting, the patch is the final one.      *)
LEMMA ResolvedIsFinal ==
    ASSUME BuildInv, at = "definitions", next > Len(input.directory), Unresolved = {}
    PROVE  Flawless /\ patch = Final
<1> DEFINE rows == input.fixtures
<1>1. /\ input \in Inputs /\ RowDefects = {} /\ FileDefects = {}
      /\ RowsResolved(input.fixtures, Directory, patch)
  BY LoadedAll
<1>2. \A i \in DOMAIN rows :
         /\ rows[i].id \in DOMAIN patch /\ ResolveComplaints(rows[i], Directory) = {}
         /\ patch[rows[i].id] = Complete(rows[i], Directory[rows[i].key])
  <2> TAKE i \in DOMAIN rows
  <2>1. rows[i].id \in DOMAIN patch
    BY <1>1, WaitingRow
  <2>2. patch[rows[i].id].resolved # <<>>
    BY <2>1 DEF Unresolved
  <2> QED BY <1>1, <2>1, <2>2, WaitingRow
<1>3. Flawless
  <2>1. FixtureDefects = {}
    BY <1>2 DEF FixtureDefects, ToSet
  <2> QED BY <1>1, <2>1 DEF Flawless
<1>4. /\ DOMAIN Final = {f.id : f \in ToSet(rows)}
      /\ \A i \in DOMAIN rows : Final[rows[i].id] = Complete(rows[i], Directory[rows[i].key])
  BY <1>3, FinalIsSound
<1>5. DOMAIN Final = {rows[i].id : i \in DOMAIN rows}
  BY <1>4 DEF ToSet
<1>6. patch = [id \in {rows[i].id : i \in DOMAIN rows} |-> patch[id]]
  BY <1>1 DEF RowsResolved
<1>7. Final = [id \in DOMAIN Final |-> Final[id]]
  BY DEF Final
<1>8. DOMAIN patch = DOMAIN Final /\ \A id \in DOMAIN Final : patch[id] = Final[id]
  <2>1. DOMAIN patch = DOMAIN Final
    BY <1>5, <1>6
  <2>2. \A i \in DOMAIN rows : patch[rows[i].id] = Final[rows[i].id]
    BY <1>2, <1>4
  <2> QED BY <1>5, <2>1, <2>2
<1>9. patch = [id \in DOMAIN patch |-> patch[id]]
  BY <1>6
<1>10. patch = Final
  BY <1>7, <1>8, <1>9
<1> QED BY <1>3, <1>10

(* resolve_definitions resolves a row.                                     *)
LEMMA ResolveStep ==
    ASSUME BuildInv, ResolveDefinition
    PROVE  Shape' /\ Reading' /\ Honest' /\ Made'
<1> DEFINE rows == input.fixtures
           id == Min(Unresolved)
           f == patch[id]
<1>1. /\ at = "definitions" /\ next > Len(input.directory) /\ Unresolved # {}
  BY DEF ResolveDefinition
<1>2. /\ input \in Inputs /\ RowDefects = {} /\ FileDefects = {}
      /\ RowsResolved(input.fixtures, Directory, patch)
      /\ definitions = Directory /\ Shape /\ Reading
  BY <1>1, LoadedAll DEF BuildInv
<1>9. next \in Int /\ Len(input.directory) \in Int
  BY <1>1, <1>2, InputTyped DEF Reading
<1>3. /\ DOMAIN patch = {rows[i].id : i \in DOMAIN rows}
      /\ patch = [q \in DOMAIN patch |-> patch[q]]
  BY <1>2 DEF RowsResolved
<1>4. id \in Unresolved
  <2>1. Unresolved \in SUBSET Nat
    BY <1>2, <1>3, RowTyped DEF Unresolved
  <2> QED BY <1>1, <2>1, LeastOf
<1>5. PICK n \in DOMAIN rows : id = rows[n].id
  BY <1>3, <1>4 DEF Unresolved
<1>6. f = Patched(rows[n])
  BY <1>2, <1>4, <1>5, WaitingRow DEF Unresolved
<1> HIDE DEF id, f
<1>7. CASE ResolveComplaints(f, definitions) # {}
  <2>1. Refuse(ResolveComplaints(f, definitions))
    BY <1>7 DEF ResolveDefinition, id, f
  <2>2. ResolveComplaints(f, definitions) = ResolveComplaints(rows[n], Directory)
    BY <1>2, <1>6, ResolvedAlike
  <2>3. ResolveComplaints(rows[n], Directory) \subseteq FixtureDefects
    BY DEF FixtureDefects, ToSet
  <2>4. ResolveComplaints(f, definitions) \subseteq Defects(builder)
    BY <2>2, <2>3 DEF Defects
  <2> QED BY <1>1, <2>1, <2>4, StepRefused
<1>8. CASE ResolveComplaints(f, definitions) = {}
  <2> DEFINE channels == Resolved(f, definitions[f.key])
             g == [f EXCEPT !.resolved = channels, !.fields = Fields(channels)]
  <2>1. /\ patch' = [patch EXCEPT ![id] = g]
        /\ UNCHANGED <<input, builder, at, next, definitions, shows, generated, refused>>
    BY <1>8 DEF ResolveDefinition, id, f
  <2>2. Shape' /\ Honest' /\ Made'
    <3> HIDE DEF g
    <3> QED BY <1>1, <2>1, StepKept DEF Ingesting
  <2>3. g = Complete(rows[n], Directory[rows[n].key])
    <3>1. f.key = rows[n].key
      BY <1>6 DEF Patched
    <3>2. channels = Resolved(rows[n], Directory[rows[n].key])
      BY <1>2, <1>6, <3>1, ResolvedAlike
    <3> HIDE DEF channels
    <3> QED BY <1>6, <3>2 DEF Complete
  <2>4. ResolveComplaints(rows[n], Directory) = {}
    BY <1>2, <1>6, <1>8, ResolvedAlike
  <2> HIDE DEF g, channels
  <2>5. /\ patch' = [q \in {rows[i].id : i \in DOMAIN rows} |-> patch'[q]]
        /\ patch'[rows[n].id] = Complete(rows[n], Directory[rows[n].key])
        /\ \A i \in DOMAIN rows : i # n => patch'[rows[i].id] = patch[rows[i].id]
    <3>1. \A i \in DOMAIN rows : i # n => rows[i].id # rows[n].id
      BY <1>2, RowsSound
    <3>2. id \in DOMAIN patch
      BY <1>4 DEF Unresolved
    <3>3. /\ DOMAIN patch' = DOMAIN patch
          /\ patch' = [q \in DOMAIN patch |-> IF q = id THEN g ELSE patch[q]]
      BY <1>3, <2>1
    <3> QED BY <1>3, <1>5, <2>3, <3>1, <3>2, <3>3
  <2>6. Directory' = Directory /\ RowDefects' = RowDefects
    BY <2>1, InputStays
  <2>7. RowsResolved(rows, Directory, patch')
    <3>1. \A i \in DOMAIN rows :
             \/ patch'[rows[i].id] = Patched(rows[i])
             \/ /\ ResolveComplaints(rows[i], Directory) = {}
                /\ patch'[rows[i].id] = Complete(rows[i], Directory[rows[i].key])
      <4> TAKE i \in DOMAIN rows
      <4>1. CASE i = n
        BY <2>4, <2>5, <4>1
      <4>2. CASE i # n
        BY <1>2, <2>5, <4>2 DEF RowsResolved
      <4> QED BY <4>1, <4>2
    <3> QED BY <2>5, <3>1 DEF RowsResolved
  <2>8. RowsResolved(input.fixtures, Directory, patch)'
    BY <2>1, <2>6, <2>7
  <2>9. ~(next' <= Len(input.directory)')
    BY <1>1, <1>9, <2>1
  <2> QED BY <1>1, <1>2, <2>1, <2>2, <2>6, <2>8, <2>9 DEF Reading
<1> QED BY <1>7, <1>8

(* ingest ends: the rig's file is written.                                 *)
LEMMA IngestStep ==
    ASSUME BuildInv, Ingest
    PROVE  Shape' /\ Reading' /\ Honest' /\ Made'
<1> DEFINE stop == StopTable(patch)
           missing == \E row \in stop : row.value = Missing
           product == [patch |-> PatchTable(Final), stop |-> StopTable(Final)]
<1>1. /\ at = "definitions" /\ next > Len(input.directory) /\ Unresolved = {} /\ builder = "rig"
  BY DEF Ingest, ResolvedAll
<1>2. Flawless /\ patch = Final /\ Shape /\ Reading /\ Honest /\ Made
  BY <1>1, ResolvedIsFinal DEF BuildInv
<1>3. /\ TypeComplaints(patch) = TypeDefects
      /\ StopDefects = IF missing THEN {"no stop band"} ELSE {}
  BY <1>2, TypesAlike, StopsAlike
<1>4. CASE TypeComplaints(patch) # {}
  <2>1. Refuse(TypeComplaints(patch))
    BY <1>4 DEF Ingest
  <2>2. TypeComplaints(patch) \subseteq Defects(builder)
    BY <1>1, <1>3 DEF Defects
  <2> QED BY <1>1, <2>1, <2>2, StepRefused
<1>5. CASE TypeComplaints(patch) = {} /\ missing
  <2>1. Refuse({"no stop band"})
    BY <1>5 DEF Ingest
  <2>2. {"no stop band"} \subseteq Defects(builder)
    BY <1>1, <1>3, <1>5 DEF Defects
  <2> QED BY <1>1, <2>1, <2>2, StepRefused
<1>6. CASE TypeComplaints(patch) = {} /\ ~missing
  <2>1. /\ generated' = [generated EXCEPT !["rig"] = [patch |-> PatchTable(patch), stop |-> stop]]
        /\ at' = "place" /\ next' = 1
        /\ UNCHANGED <<input, builder, patch, definitions, shows, refused>>
    BY <1>6 DEF Ingest
  <2>2. /\ generated' = [p \in Products |-> generated'[p]]
        /\ generated'["rig"] = product /\ generated'["firmware"] = generated["firmware"]
    <3>1. generated' = [generated EXCEPT !["rig"] = product]
      BY <1>2, <2>1
    <3>2. generated = [p \in Products |-> generated[p]] /\ "rig" \in Products /\ "firmware" # "rig"
          /\ "firmware" \in Products
      BY <1>2 DEF Shape, Products, Builders
    <3> HIDE DEF product
    <3> QED BY <3>1, <3>2
  <2>3. Shape'
    BY <1>2, <2>1, <2>2 DEF Shape, Ingesting
  <2>4. Reading'
    BY <1>1, <1>2, <2>1 DEF Reading
  <2>5. Honest'
    BY <1>2, <2>1, DefectsStay DEF Honest
  <2>6. TypeDefects = {} /\ StopDefects = {} /\ SacnComplaints(input.output) = {}
    BY <1>1, <1>2, <1>3, <1>6 DEF Reading
  <2>7. generated["firmware"] = None /\ ~Built("rig")'
    BY <1>1, <1>2, <2>1 DEF Shape, Built
  <2>8. generated'["rig"] = [patch |-> PatchTable(Final), stop |-> StopTable(Final)]'
    BY <2>1, <2>2, InputStays
  <2> HIDE DEF product
  <2>9. Made'
    BY <1>2, <2>1, <2>2, <2>6, <2>7, <2>8, InputStays DEF Made
  <2> QED BY <2>3, <2>4, <2>5, <2>9
<1> HIDE DEF missing
<1> QED BY <1>4, <1>5, <1>6

(* addressing ends: the firmware's patch is written.                       *)
LEMMA AddressStep ==
    ASSUME BuildInv, Address
    PROVE  Shape' /\ Reading' /\ Honest' /\ Made'
<1>1. /\ at = "definitions" /\ next > Len(input.directory) /\ Unresolved = {} /\ builder = "firmware"
      /\ generated' = [generated EXCEPT !["firmware"] = Addressing(patch)]
      /\ at' = "ended" /\ UNCHANGED <<input, builder, patch, refused>>
  BY DEF Address, ResolvedAll, readVars
<1>2. Flawless /\ patch = Final /\ Shape /\ Reading /\ Honest /\ Made
  BY <1>1, ResolvedIsFinal DEF BuildInv
<1>3. /\ generated' = [p \in Products |-> generated'[p]]
      /\ generated'["firmware"] = Addressing(Final) /\ generated'["rig"] = generated["rig"]
  <2>1. generated' = [generated EXCEPT !["firmware"] = Addressing(Final)]
    BY <1>1, <1>2
  <2>2. /\ generated = [p \in Products |-> generated[p]] /\ "firmware" # "rig"
        /\ "firmware" \in Products /\ "rig" \in Products
    BY <1>2 DEF Shape, Products, Builders
  <2> QED BY <2>1, <2>2
<1>4. Shape'
  BY <1>1, <1>2, <1>3 DEF Shape, Ingesting
<1>5. Reading'
  BY <1>1 DEF Reading
<1>6. Honest'
  BY <1>1, <1>2, DefectsStay DEF Honest
<1>7. Built("rig")' => Built("rig")
  BY <1>1, <1>3 DEF Built
<1>8. Addressing(Final)' = Addressing(Final) /\ builder' # "rig"
  BY <1>1, InputStays
<1>9. generated["rig"] = [patch |-> PatchTable(Final), stop |-> StopTable(Final)]
         => generated'["rig"] = [patch |-> PatchTable(Final), stop |-> StopTable(Final)]'
  BY <1>1, <1>3, InputStays
<1>10. SacnComplaints(input.output) = {}
  BY <1>1, <1>2 DEF Reading
<1>11. Made'
  BY <1>1, <1>2, <1>3, <1>7, <1>8, <1>9, <1>10, InputStays DEF Made
<1> QED BY <1>4, <1>5, <1>6, <1>11

(* find_city finds the one city the place names.                           *)
LEMMA PlaceStep ==
    ASSUME BuildInv, FindPlace
    PROVE  Shape' /\ Reading' /\ Honest' /\ Made'
<1>1. at = "place" /\ Shape /\ Reading /\ builder = "rig" /\ shows = <<>> /\ input \in Inputs
  BY DEF FindPlace, BuildInv, Reading, Shape
<1>2. CASE Cardinality(FindCity(input.place)) # 1
  <2>1. Refuse({"city"})
    BY <1>2 DEF FindPlace
  <2>2. "city" \in ShowDefects
    BY <1>2 DEF ShowDefects
  <2>3. {"city"} \subseteq Defects(builder) /\ None \notin {"city"}
    BY <1>1, <2>2, VerdictAssumption DEF Defects
  <2> QED BY <1>1, <2>1, <2>3, StepRefused
<1>3. CASE Cardinality(FindCity(input.place)) = 1
  <2>1. Onward("shows")
    BY <1>3 DEF FindPlace
  <2>2. /\ at' = "shows" /\ next' = 1 /\ UNCHANGED <<input, builder, generated, refused>>
        /\ patch' = patch /\ shows' = shows
    BY <2>1 DEF Onward
  <2>3. Shape' /\ Honest' /\ Made'
    BY <1>1, <2>2, StepKept DEF Ingesting
  <2>4. ShowsRead(input.shows, shows, next - 1)'
    <3>1. shows' = <<>> /\ next' - 1 = 0 /\ 1 .. 0 = {} /\ Len(<<>>) = 0
      BY <1>1, <2>2
    <3> QED BY <3>1 DEF ShowsRead
  <2>5. next' \in 1 .. Len(input.shows)' + 1
    <3>1. Len(input.shows) \in Nat
      BY <1>1, InputTyped
    <3> QED BY <2>2, <3>1
  <2> QED BY <1>1, <1>3, <2>2, <2>3, <2>4, <2>5 DEF Reading
<1> QED BY <1>2, <1>3

(* calendar resolves a show.                                               *)
LEMMA ShowStep ==
    ASSUME BuildInv, ResolveShow
    PROVE  Shape' /\ Reading' /\ Honest' /\ Made'
<1> DEFINE table == input.shows
           show == table[next]
           complaints == ShowComplaints(show, shows)
<1>1. /\ at = "shows" /\ next <= Len(table) /\ Shape /\ Reading /\ ShowsSound
      /\ builder = "rig" /\ input \in Inputs
  BY DEF ResolveShow, BuildInv, Reading, Shape
<1>2. /\ next \in DOMAIN table /\ next \in Nat /\ next >= 1 /\ next + 1 \in 1 .. Len(table) + 1
      /\ ShowsRead(table, shows, next - 1) /\ Cardinality(FindCity(input.place)) = 1
  <2>1. DOMAIN table = 1 .. Len(table) /\ Len(table) \in Nat
    BY <1>1, InputTyped
  <2>2. /\ next \in 1 .. Len(table) + 1 /\ ShowsRead(table, shows, next - 1)
        /\ Cardinality(FindCity(input.place)) = 1
    BY <1>1 DEF Reading
  <2> HIDE DEF table
  <2> QED BY <1>1, <2>1, <2>2
<1>3. /\ complaints \subseteq ShowDefects
      /\ complaints = {} =>
            /\ Resolves(show.start) /\ Resolves(show.stop)
            /\ Resolve(show.start) < Resolve(show.stop)
            /\ ~NeverTwilight(Resolve(show.start), Resolve(show.stop))
            /\ \A i \in 1 .. next - 1 : Resolve(table[i].stop) <= Resolve(show.start)
  BY <1>1, <1>2, ShowJudged
<1>4. CASE complaints # {}
  <2>1. Refuse(complaints)
    BY <1>4 DEF ResolveShow
  <2>2. complaints \subseteq Defects(builder)
    BY <1>1, <1>3 DEF Defects
  <2>3. None \notin complaints
    BY VerdictAssumption DEF ShowComplaints
  <2> HIDE DEF complaints
  <2> QED BY <1>1, <2>1, <2>2, <2>3, StepRefused
<1>5. CASE complaints = {}
  <2>1. /\ at' = at /\ next' = next + 1 /\ UNCHANGED <<input, builder, generated, refused>>
        /\ patch' = patch /\ shows' = Append(shows, ResolvedShow(show))
    BY <1>5 DEF ResolveShow
  <2>2. Shape' /\ Honest' /\ Made'
    BY <1>1, <2>1, StepKept DEF Ingesting
  <2>3. /\ Len(shows) = next - 1 /\ shows \in Seq(SoundShows)
        /\ \A i \in 1 .. next - 1 :
              /\ Resolves(table[i].start) /\ Resolves(table[i].stop)
              /\ Resolve(table[i].start) < Resolve(table[i].stop)
              /\ ~NeverTwilight(Resolve(table[i].start), Resolve(table[i].stop))
              /\ shows[i].stop = Resolve(table[i].stop)
        /\ \A i, j \in 1 .. next - 1 : i < j => Resolve(table[i].stop) <= Resolve(table[j].start)
    BY <1>1, <1>2 DEF ShowsRead, ShowsSound
  <2>4. /\ Resolves(show.start) /\ Resolves(show.stop)
        /\ Resolve(show.start) < Resolve(show.stop)
        /\ ~NeverTwilight(Resolve(show.start), Resolve(show.stop))
        /\ \A i \in 1 .. next - 1 : Resolve(table[i].stop) <= Resolve(show.start)
    BY <1>3, <1>5
  <2> HIDE DEF complaints
  <2>5. /\ 1 .. next = (1 .. next - 1) \cup {next}
        /\ \A i, j \in 1 .. next : i < j => i \in 1 .. next - 1 /\ (j \in 1 .. next - 1 \/ j = next)
    BY <1>2
  <2>6. /\ Len(shows') = next /\ shows'[next] = ResolvedShow(show)
        /\ \A i \in 1 .. next - 1 : shows'[i] = shows[i]
    <3>1. \A S : \A q \in Seq(S) : \A x :
             /\ Len(Append(q, x)) = Len(q) + 1 /\ Append(q, x)[Len(q) + 1] = x
             /\ \A i \in 1 .. Len(q) : Append(q, x)[i] = q[i]
      OBVIOUS
    <3> HIDE DEF show
    <3> QED BY <1>2, <2>1, <2>3, <3>1
  <2>7. ResolvedShow(show).stop = Resolve(show.stop)
    BY DEF ResolvedShow
  <2>8. \A i \in 1 .. next :
           /\ Resolves(table[i].start) /\ Resolves(table[i].stop)
           /\ Resolve(table[i].start) < Resolve(table[i].stop)
           /\ ~NeverTwilight(Resolve(table[i].start), Resolve(table[i].stop))
           /\ shows'[i].stop = Resolve(table[i].stop)
    BY <2>3, <2>4, <2>5, <2>6, <2>7
  <2>9. \A i, j \in 1 .. next : i < j => Resolve(table[i].stop) <= Resolve(table[j].start)
    BY <2>3, <2>4, <2>5
  <2>10. ShowsRead(input.shows, shows, next - 1)'
    <3>1. next' - 1 = next
      BY <1>2, <2>1
    <3> HIDE DEF table
    <3>2. ShowsRead(table, shows', next)
      BY <2>6, <2>8, <2>9 DEF ShowsRead
    <3> QED BY <2>1, <3>1, <3>2 DEF table
  <2>11. next' \in 1 .. Len(input.shows)' + 1
    BY <1>2, <2>1
  <2> QED BY <1>1, <1>2, <2>1, <2>2, <2>10, <2>11 DEF Reading
<1> QED BY <1>4, <1>5

(* calendar ends: the rig's build is done.                                 *)
LEMMA CalendarStep ==
    ASSUME BuildInv, WriteCalendar
    PROVE  Shape' /\ Reading' /\ Honest' /\ Made'
<1> DEFINE table == input.shows
<1>1. /\ at = "shows" /\ next > Len(table) /\ at' = "ended"
      /\ generated' = [generated EXCEPT !["calendar"] = shows]
      /\ UNCHANGED <<input, builder, patch, refused>>
      /\ Shape /\ Reading /\ Honest /\ Made /\ builder = "rig" /\ input \in Inputs
  BY DEF WriteCalendar, readVars, BuildInv, Shape, Reading
<1>2. ShowDefects = {}
  <2>1. /\ next \in 1 .. Len(table) + 1 /\ ShowsRead(table, shows, next - 1)
        /\ Cardinality(FindCity(input.place)) = 1
    BY <1>1 DEF Reading
  <2>2. Len(table) \in Nat
    BY <1>1, InputTyped
  <2> HIDE DEF table
  <2>3. next - 1 = Len(table)
    BY <1>1, <2>1, <2>2
  <2> QED BY <1>1, <2>1, <2>3, ShowsHaveNone DEF table
<1>3. /\ generated' = [p \in Products |-> generated'[p]]
      /\ generated'["rig"] = generated["rig"] /\ generated'["firmware"] = generated["firmware"]
  <2>1. /\ generated = [p \in Products |-> generated[p]]
        /\ "rig" \in Products /\ "firmware" \in Products
        /\ "rig" # "calendar" /\ "firmware" # "calendar"
    BY <1>1 DEF Shape, Products, Builders
  <2> QED BY <1>1, <2>1
<1>4. Shape'
  BY <1>1, <1>3 DEF Shape, Ingesting
<1>5. Reading'
  BY <1>1 DEF Reading
<1>6. Honest'
  BY <1>1, DefectsStay DEF Honest
<1>7. Made'
  BY <1>1, <1>2, <1>3, InputStays DEF Made
<1> QED BY <1>4, <1>5, <1>6, <1>7

(* The same workspace, read by a firmware's build.                         *)
LEMMA OtherStep ==
    ASSUME BuildInv, OtherBuild
    PROVE  Shape' /\ Reading' /\ Honest' /\ Made'
<1>1. /\ at = "ended" /\ builder = "rig" /\ builder' = "firmware" /\ at' = "output" /\ next' = 1
      /\ patch' = <<>> /\ definitions' = <<>> /\ shows' = <<>>
      /\ UNCHANGED <<input, generated, refused>> /\ Shape /\ Reading /\ Honest /\ Made
  BY DEF OtherBuild, BuildInv
<1>2. Shape'
  BY <1>1 DEF Shape, Builders
<1>3. Reading'
  BY <1>1 DEF Reading
<1>4. Honest'
  BY <1>1, DefectsStay DEF Honest
<1>5. Built("rig")' => Built("rig")
  BY <1>1 DEF Built
<1>6. Made'
  BY <1>1, <1>5, InputStays DEF Made
<1> QED BY <1>2, <1>3, <1>4, <1>6

(* The build's invariant: it holds at the start, and every step keeps it.  *)
THEOREM BuildInvariant == Spec => []BuildInv
<1>1. Init => BuildInv
  <2> SUFFICES ASSUME Init PROVE BuildInv
    OBVIOUS
  <2>1. /\ input \in Inputs /\ builder = "rig" /\ at = "output" /\ next = 1
        /\ patch = <<>> /\ definitions = <<>> /\ shows = <<>>
        /\ generated = [p \in Products |-> None] /\ refused = [b \in Builders |-> None]
    BY DEF Init
  <2>2. \A p \in Products : generated[p] = None
    BY <2>1
  <2>3. \A b \in Builders : refused[b] = None
    BY <2>1
  <2>4. {"rig", "firmware"} = Builders /\ "rig" \in Products /\ "firmware" \in Products
    BY DEF Builders, Products
  <2>5. Shape
    BY <2>1, <2>2, <2>3, <2>4 DEF Shape
  <2>6. Reading
    BY <2>1 DEF Reading
  <2>7. Honest
    BY <2>3 DEF Honest
  <2>8. Made
    BY <2>2, <2>4 DEF Made, Built
  <2>9. ShowsSound
    BY <2>1 DEF ShowsSound
  <2> QED BY <2>5, <2>6, <2>7, <2>8, <2>9 DEF BuildInv
<1>2. BuildInv /\ [Next]_vars => BuildInv'
  <2> SUFFICES ASSUME BuildInv, [Next]_vars PROVE BuildInv'
    OBVIOUS
  <2>1. ShowsSound'
    BY NextShowsSound DEF BuildInv
  <2>2. Shape' /\ Reading' /\ Honest' /\ Made'
    <3>1. CASE UNCHANGED vars
      <4>1. UNCHANGED <<input, builder, at, next, patch, definitions, shows, generated, refused>>
        BY <3>1 DEF vars, readVars
      <4>2. Shape /\ Reading /\ Honest /\ Made
        BY DEF BuildInv
      <4>3. Shape'
        BY <4>1, <4>2 DEF Shape
      <4>4. Reading'
        BY <4>1, <4>2, InputStays DEF Reading
      <4>5. Honest'
        BY <4>1, <4>2, DefectsStay DEF Honest
      <4>6. Made'
        BY <4>1, <4>2, InputStays DEF Made, Built
      <4> QED BY <4>3, <4>4, <4>5, <4>6
    <3>2. CASE Next
      BY <3>2, SacnStep, FixtureStep, PatchStep, DefinitionStep, ResolveStep, IngestStep,
         AddressStep, PlaceStep, ShowStep, CalendarStep, OtherStep DEF Next
    <3> QED BY <3>1, <3>2
  <2> QED BY <2>1, <2>2 DEF BuildInv
<1> QED BY <1>1, <1>2, PTL DEF Spec

(* A build fails for a defect the workspace has, and what it accepts has   *)
(* none: checked one by one and against neighbours, in any workspace.      *)
THEOREM VerdictIsRightAlways == Spec => []VerdictIsRight
<1>1. BuildInv => VerdictIsRight
  <2> SUFFICES ASSUME BuildInv, NEW b \in Builders
               PROVE  /\ refused[b] # None => refused[b] \in Defects(b)
                      /\ Built(b) => Defects(b) = {}
    BY DEF VerdictIsRight
  <2>1. Honest /\ Made
    BY DEF BuildInv
  <2>2. refused[b] # None => refused[b] \in Defects(b)
    BY <2>1 DEF Honest
  <2>3. ASSUME Built("rig") PROVE Defects("rig") = {}
    <3>1. generated["rig"] # None
      BY <2>3 DEF Built
    <3>2. /\ Flawless /\ SacnComplaints(input.output) = {} /\ TypeDefects = {} /\ StopDefects = {}
          /\ ShowDefects = {}
      BY <2>1, <2>3, <3>1 DEF Made
    <3> QED BY <3>2 DEF Defects, Flawless
  <2>4. ASSUME Built("firmware") PROVE Defects("firmware") = {}
    <3>1. generated["firmware"] # None
      BY <2>4 DEF Built
    <3>2. Flawless /\ SacnComplaints(input.output) = {}
      BY <2>1, <3>1 DEF Made
    <3> QED BY <3>2 DEF Defects, Flawless
  <2> QED BY <2>2, <2>3, <2>4 DEF Builders
<1> QED BY <1>1, BuildInvariant, PTL

(* One addressing: the table and the instances reach every channel at the  *)
(* slot its place in the mode says, and a firmware has a field of the same *)
(* name there for each of them, the fine halves included (lib.rs:245-246,  *)
(* 1206-1211).                                                             *)
THEOREM OneAddressingAlways == Spec => []OneAddressing
<1>1. BuildInv => OneAddressing
  <2> SUFFICES ASSUME BuildInv, Built("rig")
               PROVE  /\ Addressed(generated["rig"].patch)
                      /\ Built("firmware") =>
                            \A k \in DOMAIN generated["rig"].patch :
                               Agree(generated["firmware"][k], generated["rig"].patch[k])
    BY DEF OneAddressing
  <2>1. /\ Flawless
        /\ generated["rig"] = [patch |-> PatchTable(Final), stop |-> StopTable(Final)]
    BY DEF BuildInv, Made, Built
  <2>2. generated["rig"].patch = PatchTable(Final)
    BY <2>1
  <2>3. Built("firmware") => generated["firmware"] = Addressing(Final)
    BY DEF BuildInv, Made, Built
  <2> QED BY <2>1, <2>2, <2>3, AddressingIsOne
<1> QED BY <1>1, BuildInvariant, PTL

(* The stop the build generates does no harm: light is dark in both its    *)
(* halves, rotations, strobes, programs and resets read the band in which  *)
(* they rest, and every other slot, an iris among them, is where it was    *)
(* (estop.rs:3-8).                                                         *)
THEOREM StopIsHarmlessAlways == Spec => []StopIsHarmless
<1>1. BuildInv => StopIsHarmless
  <2> SUFFICES ASSUME BuildInv, builder = "rig", generated["rig"] # None
               PROVE  Harmless(generated["rig"].stop, patch)
    BY DEF StopIsHarmless
  <2>1. /\ Flawless /\ StopDefects = {} /\ patch = Final
        /\ generated["rig"] = [patch |-> PatchTable(Final), stop |-> StopTable(Final)]
    BY DEF BuildInv, Made
  <2>2. generated["rig"].stop = StopTable(Final)
    BY <2>1
  <2>3. ~\E row \in StopTable(Final) : row.value = Missing
    BY <2>1, StopsAlike
  <2> QED BY <2>1, <2>2, <2>3, StopHarmless
<1> QED BY <1>1, BuildInvariant, PTL

=============================================================================
