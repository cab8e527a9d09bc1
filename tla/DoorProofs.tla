----------------------------- MODULE DoorProofs -----------------------------
(***************************************************************************)
(* The door's safety, for every settle period, chord length and timeout,   *)
(* every table of shows and every clock that is behind.  The two sides     *)
(* are proved apart, as they run apart: World is what the calendar and the *)
(* Director keep, whatever the fingers do, and HInv what the polls keep,   *)
(* tied to the raw samples of the pins.                                    *)
(***************************************************************************)
EXTENDS MCDoor, TLAPS

World == CalendarTypeOK /\ ShowTypeOK /\ NothingToComeIsMissing

HistoryType ==
    /\ TypeOK /\ polls \in 0 .. PollsPerFrame
    /\ recent \in [Buttons -> Seq(Level)]
    /\ \A b \in Buttons : Len(recent[b]) <= SettleSamples
    /\ armed \in BOOLEAN /\ down \in 0 .. DownCap /\ owed \in 0 .. 1

(* What a button's counter stands for in the raw samples: that many of the *)
(* last ones are off its level, and the one before them is on it.          *)
CountsItsSamples(input, s) ==
    /\ input.differing <= Len(s)
    /\ \A i \in 1 .. Len(s) : i > Len(s) - input.differing => s[i] # input.level
    /\ Len(s) - input.differing > 0 => s[Len(s) - input.differing] = input.level

LevelIsSolid ==
    \A b \in Buttons :
        CountsItsSamples(button[b], recent[b]) /\ button[b].level = solid[b]

(* While both pins read down, each button is down or on its way there, and *)
(* once they did so for the settle period the chord's count runs.          *)
DownIsOnItsWay ==
    /\ \A b \in Buttons : button[b].level = "low" \/ down <= button[b].differing
    /\ down >= SettleSamples => down - SettleSamples < held

(* A chord just made is still held, or began again after its frame did.    *)
OwedIsRecent == owed = 1 => held >= ChordSamples \/ held < polls

(* A chord that was made is held until a button comes up.                  *)
SpentIsHeld == ~armed => held >= ChordSamples

HInv ==
    /\ HistoryType /\ LevelIsSolid /\ EveryPressOnce
    /\ DownIsOnItsWay /\ OwedIsRecent /\ SpentIsHeld

-----------------------------------------------------------------------------
(* The calendar and the Director.                                          *)

LEMMA InitWorld == DoorInit => World
<1> SUFFICES ASSUME DoorInit PROVE World
  OBVIOUS
<1>1. CalendarTypeOK
  BY DEF DoorInit, CalendarInit, CalendarTypeOK, Announcement, Remaining
<1>2. ShowTypeOK
  BY ShowAssumption DEF DoorInit, ShowInit, ShowTypeOK, Dark
<1>3. NothingToComeIsMissing
  BY CalendarAssumption
     DEF DoorInit, CalendarInit, NothingToComeIsMissing, Announcement, Remaining, Now
<1> QED BY <1>1, <1>2, <1>3 DEF World

(* A clock behind the time prints every show that is still to come.        *)
LEMMA AnnouncementIsWhole ==
    ASSUME CalendarTypeOK, NEW flag \in BOOLEAN
    PROVE  /\ Announcement(flag) \in [synchronised : BOOLEAN, shows : SUBSET Shows]
           /\ \A s \in Shows : truth < s.stop => s \in Announcement(flag).shows
<1>1. Now \in Nat /\ Now <= truth /\ truth \in Nat
  BY CalendarAssumption DEF CalendarTypeOK, Now
<1>2. \A s \in Shows : truth < s.stop => Now < s.stop
  BY <1>1, CalendarAssumption
<1> QED BY <1>2 DEF Announcement, Remaining

LEMMA SyncKeepsWorld ==
    ASSUME World, SyncTask, UNCHANGED showVars
    PROVE  World'
<1>1. CASE synchronised # announced.synchronised
  <2>1. UNCHANGED <<truth, behind, synchronised>> /\ announced' = Announcement(synchronised)
    BY <1>1 DEF SyncTask
  <2>2. CalendarTypeOK' /\ NothingToComeIsMissing'
    BY <2>1, AnnouncementIsWhole DEF World, CalendarTypeOK, NothingToComeIsMissing
  <2> QED BY <2>2 DEF World, ShowTypeOK, showVars
<1>2. CASE ~(synchronised # announced.synchronised)
  <2>1. UNCHANGED calendarVars
    BY <1>2 DEF SyncTask, calendarVars
  <2> QED BY <2>1 DEF World, CalendarTypeOK, NothingToComeIsMissing, ShowTypeOK,
                      calendarVars, showVars
<1> QED BY <1>1, <1>2

LEMMA ClockKeepsWorld ==
    ASSUME World, TimePasses \/ NtpSteps \/ NtpLapses \/ UNCHANGED calendarVars,
           UNCHANGED showVars
    PROVE  World'
<1>1. /\ CalendarTypeOK' /\ announced' = announced
      /\ truth \in Nat /\ truth' \in Nat /\ truth <= truth'
  <2>1. /\ truth \in 0 .. Horizon /\ behind \in 0 .. MaxBehind /\ synchronised \in BOOLEAN
        /\ announced \in [synchronised : BOOLEAN, shows : SUBSET Shows]
        /\ Horizon \in Nat /\ MaxBehind \in Nat
    BY CalendarAssumption DEF World, CalendarTypeOK
  <2>2. CASE TimePasses
    BY <2>1, <2>2 DEF TimePasses, CalendarTypeOK
  <2>3. CASE NtpSteps
    BY <2>1, <2>3 DEF NtpSteps, CalendarTypeOK
  <2>4. CASE NtpLapses \/ UNCHANGED calendarVars
    <3>1. UNCHANGED <<truth, behind, announced>> /\ synchronised' \in BOOLEAN
      BY <2>1, <2>4 DEF NtpLapses, calendarVars
    <3> QED BY <2>1, <3>1 DEF CalendarTypeOK
  <2> QED BY <2>2, <2>3, <2>4
<1>2. NothingToComeIsMissing'
  <2> SUFFICES ASSUME NEW s \in Shows, truth' < s.stop PROVE s \in announced.shows
    BY <1>1 DEF NothingToComeIsMissing
  <2>1. truth < s.stop
    BY <1>1, CalendarAssumption
  <2> QED BY <2>1 DEF World, NothingToComeIsMissing
<1>3. ShowTypeOK'
  BY DEF World, ShowTypeOK, showVars
<1> QED BY <1>1, <1>2, <1>3 DEF World

(* The breath stays on the lamp's scale.                                   *)
LEMMA BreathType ==
    ASSUME NEW n \in Nat
    PROVE  Breath(n) \in 0 .. PulseFrames
<1> DEFINE step == n % PulseFrames
<1>1. step \in 0 .. PulseFrames - 1 /\ PulseFrames \in Nat
  BY ShowAssumption
<1> HIDE DEF step
<1>2. (IF 2 * step <= PulseFrames THEN step ELSE PulseFrames - step) \in 0 .. PulseFrames
  BY <1>1
<1> QED BY <1>2 DEF Breath, step

LEMMA PlayKeepsWorld ==
    ASSUME World, PlayFrame, TypeOK
    PROVE  World'
<1>1. UNCHANGED calendarVars /\ Fill(chords, Current(Now))
  BY DEF PlayFrame
<1>2. CalendarTypeOK' /\ NothingToComeIsMissing'
  BY <1>1 DEF World, CalendarTypeOK, NothingToComeIsMissing, calendarVars
<1>3. /\ testingSince \in {Off} \cup 0 .. TestModeTimeout - 1
      /\ state \in {"blackout", "idle"} /\ frames \in 0 .. FramesCap
  BY DEF World, ShowTypeOK
<1>4. seenChords' \in Nat
  BY <1>1, ChordAssumption DEF Fill, TypeOK
<1>5. testingSince' \in {Off} \cup 0 .. TestModeTimeout - 1
  BY <1>1, <1>3, ShowAssumption DEF Fill, TestMode
<1>6. state' \in {"blackout", "idle"}
  BY <1>1, <1>3 DEF Fill, NextState
<1>7. Played \in 0 .. FramesCap
  BY <1>3, ShowAssumption DEF Played
<1>8. frames' \in 0 .. FramesCap
  BY <1>1, <1>7, ShowAssumption DEF Fill
<1>9. Testing' \in BOOLEAN
  BY DEF Testing
<1>10. lamps' \in [left : 0 .. PulseFrames, right : BOOLEAN]
  <2>1. Breath(Played) \in 0 .. PulseFrames /\ 0 \in 0 .. PulseFrames
    BY <1>7, BreathType, ShowAssumption
  <2> QED BY <1>1, <1>9, <2>1 DEF Fill
<1>11. told' \in [show : {"blackout", "idle"}, testmode : BOOLEAN]
  BY <1>1, <1>6, <1>9 DEF Fill
<1> QED BY <1>2, <1>4, <1>5, <1>6, <1>8, <1>10, <1>11 DEF World, ShowTypeOK

-----------------------------------------------------------------------------
(* The polls.                                                              *)

LEMMA PolledType ==
    ASSUME NEW input \in Input, NEW pin \in Level
    PROVE  Polled(input, pin) \in Input
BY SettleAssumption, SMT DEF Input, Polled, NewInput, Settles

(* A window w that a sample has moved on from s: as long as s or one       *)
(* longer, the new sample last, and before it what was last before.        *)
MovedOn(s, pin, w) ==
    /\ w \in Seq(Level)
    /\ Len(w) \in Nat /\ Len(w) > 0 /\ Len(w) <= SettleSamples
    /\ Len(w) = Len(s) + 1 \/ (Len(w) = Len(s) /\ Len(s) = SettleSamples)
    /\ w[Len(w)] = pin
    /\ \A i \in 1 .. Len(w) - 1 : w[i] = s[i + Len(s) + 1 - Len(w)]

LEMMA NewestMovesOn ==
    ASSUME NEW s \in Seq(Level), Len(s) <= SettleSamples, NEW pin \in Level
    PROVE  MovedOn(s, pin, Newest(Append(s, pin)))
<1> DEFINE a == Append(s, pin)
<1>1. /\ a \in Seq(Level) /\ Len(a) = Len(s) + 1 /\ Len(s) \in Nat
      /\ a[Len(s) + 1] = pin
      /\ \A i \in 1 .. Len(s) : a[i] = s[i]
  OBVIOUS
<1>2. CASE Len(a) > SettleSamples
  <2>1. Newest(a) = Tail(a)
    BY <1>2 DEF Newest
  <2>2. a # <<>>
    BY <1>1
  <2>3. /\ Tail(a) \in Seq(Level) /\ Len(Tail(a)) = Len(a) - 1
        /\ \A i \in 1 .. Len(a) - 1 : Tail(a)[i] = a[i + 1]
    BY <1>1, <2>2
  <2>4. Len(s) = SettleSamples /\ Len(s) > 0
    BY <1>1, <1>2, SettleAssumption
  <2> DEFINE w == Tail(a)
  <2>5. /\ w \in Seq(Level) /\ Len(w) = Len(s) /\ w[Len(w)] = pin
        /\ \A i \in 1 .. Len(w) - 1 : w[i] = s[i + 1]
    BY <1>1, <2>3, <2>4
  <2> HIDE DEF w, a
  <2>6. \A i \in 1 .. Len(w) - 1 : i + Len(s) + 1 - Len(w) = i + 1
    BY <1>1, <2>5
  <2>7. MovedOn(s, pin, w)
    BY <1>1, <2>4, <2>5, <2>6 DEF MovedOn
  <2> QED BY <2>1, <2>7 DEF w, a
<1>3. CASE ~(Len(a) > SettleSamples)
  <2>1. Newest(a) = a
    BY <1>3 DEF Newest
  <2> QED BY <1>1, <1>3, <2>1, SettleAssumption DEF MovedOn
<1> QED BY <1>2, <1>3

(* One sample of one pin: the counter counts the new window as it counted  *)
(* the old one.                                                            *)
LEMMA SampleIsCounted ==
    ASSUME NEW input \in Input, NEW pin \in Level, NEW s \in Seq(Level),
           Len(s) <= SettleSamples, CountsItsSamples(input, s),
           NEW w, MovedOn(s, pin, w)
    PROVE  CountsItsSamples(Polled(input, pin), w)
<1> DEFINE n == Len(s)
           m == Len(w)
           d == input.differing
           next == Polled(input, pin)
<1>1. /\ n \in Nat /\ m \in Nat /\ m > 0 /\ (m = n + 1 \/ (m = n /\ n = SettleSamples))
      /\ w[m] = pin /\ \A i \in 1 .. m - 1 : w[i] = s[i + n + 1 - m]
  BY DEF MovedOn
<1>2. d \in Nat /\ d <= SettleSamples - 1 /\ SettleSamples \in Nat
  BY SettleAssumption DEF Input
<1>3. CASE pin = input.level \/ Settles(input, pin)
  <2>1. next.level = pin /\ next.differing = 0
    BY <1>3 DEF Polled, NewInput
  <2> QED BY <1>1, <2>1 DEF CountsItsSamples
<1>4. CASE ~(pin = input.level \/ Settles(input, pin))
  <2>1. next.level = input.level /\ next.differing = d + 1 /\ pin # input.level
    BY <1>4 DEF Polled, Input
  <2>2. d <= n /\ d + 1 <= m
    BY <1>1, <1>2 DEF CountsItsSamples
  <2>3. ASSUME NEW i \in 1 .. m, i > m - (d + 1) PROVE w[i] # input.level
    <3>1. CASE i = m
      BY <1>1, <2>1, <3>1
    <3>2. CASE i # m
      <4>1. i \in 1 .. m - 1 /\ i + n + 1 - m \in 1 .. n /\ i + n + 1 - m > n - d
        <5> HIDE DEF n, m, d
        <5> QED BY <1>1, <1>2, <2>2, <2>3, <3>2
      <4>2. s[i + n + 1 - m] # input.level
        BY <4>1 DEF CountsItsSamples
      <4> QED BY <1>1, <4>1, <4>2
    <3> QED BY <3>1, <3>2
  <2>4. ASSUME m - (d + 1) > 0 PROVE w[m - (d + 1)] = input.level
    <3>1. m - (d + 1) \in 1 .. m - 1 /\ n - d > 0
      <4> HIDE DEF n, m, d
      <4> QED BY <1>1, <1>2, <2>4
    <3>2. (m - (d + 1)) + n + 1 - m = n - d
      <4> HIDE DEF n, m, d
      <4> QED BY <1>1, <1>2
    <3>3. w[m - (d + 1)] = s[n - d]
      BY <1>1, <3>1, <3>2
    <3> QED BY <3>1, <3>3 DEF CountsItsSamples
  <2> QED BY <2>1, <2>2, <2>3, <2>4 DEF CountsItsSamples
<1> QED BY <1>3, <1>4

(* The level a button settles is the one its window read throughout.       *)
LEMMA SettledIsSolid ==
    ASSUME NEW input \in Input, NEW pin \in Level, NEW s \in Seq(Level),
           Len(s) <= SettleSamples, CountsItsSamples(input, s),
           NEW w, MovedOn(s, pin, w)
    PROVE  SolidLevel(w, input.level) = Polled(input, pin).level
<1> DEFINE next == Polled(input, pin)
<1>1. CountsItsSamples(next, w) /\ next \in Input
  BY SampleIsCounted, PolledType
<1>2. /\ w \in Seq(Level) /\ Len(w) \in Nat /\ w[Len(w)] = pin /\ Len(w) <= SettleSamples
      /\ SettleSamples \in Nat \ {0}
  BY SettleAssumption DEF MovedOn
<1>3. CASE \E l \in Level : w = [i \in 1 .. SettleSamples |-> l]
  <2>1. PICK l \in Level : w = [i \in 1 .. SettleSamples |-> l]
    BY <1>3
  <2>2. Len(w) = SettleSamples /\ \A i \in 1 .. SettleSamples : w[i] = l
    BY <1>2, <2>1
  <2>3. SettleSamples - next.differing \in 1 .. SettleSamples
    BY <1>1, <1>2 DEF Input
  <2>4. next.level = l
    BY <1>1, <2>2, <2>3 DEF CountsItsSamples
  <2>5. w[1] = l
    BY <1>2, <2>2
  <2> QED BY <1>3, <2>4, <2>5 DEF SolidLevel
<1>4. CASE ~\E l \in Level : w = [i \in 1 .. SettleSamples |-> l]
  <2>1. SolidLevel(w, input.level) = input.level
    BY <1>4 DEF SolidLevel
  <2>2. ~Settles(input, pin)
    <3> SUFFICES ASSUME Settles(input, pin) PROVE FALSE
      OBVIOUS
    <3>1. pin # input.level /\ input.differing = SettleSamples - 1
      BY <1>2 DEF Settles, Input
    <3>2. /\ Len(s) \in Nat /\ SettleSamples - 1 <= Len(s)
          /\ \A i \in 1 .. Len(s) : i > Len(s) - (SettleSamples - 1) => s[i] # input.level
      BY <3>1 DEF CountsItsSamples
    <3>3. Len(w) = SettleSamples
      BY <1>2, <3>2 DEF MovedOn
    <3>4. ASSUME NEW i \in 1 .. SettleSamples PROVE w[i] # input.level
      <4>1. CASE i = SettleSamples
        BY <1>2, <3>1, <3>3, <4>1
      <4>2. CASE i # SettleSamples
        <5>1. /\ i \in 1 .. Len(w) - 1
              /\ i + Len(s) + 1 - Len(w) \in 1 .. Len(s)
              /\ i + Len(s) + 1 - Len(w) > Len(s) - (SettleSamples - 1)
          <6> DEFINE n == Len(s)
          <6>1. n \in Nat /\ SettleSamples - 1 <= n
            BY <3>2
          <6> HIDE DEF n
          <6>2. /\ i \in 1 .. SettleSamples - 1
                /\ i + n + 1 - SettleSamples \in 1 .. n
                /\ i + n + 1 - SettleSamples > n - (SettleSamples - 1)
            BY <1>2, <4>2, <6>1
          <6> QED BY <3>3, <6>2 DEF n
        <5>2. w[i] = s[i + Len(s) + 1 - Len(w)]
          BY <5>1 DEF MovedOn
        <5> QED BY <3>2, <5>1, <5>2
      <4> QED BY <4>1, <4>2
    <3>5. \A i \in 1 .. SettleSamples : w[i] = pin
      BY <1>2, <3>1, <3>3, <3>4 DEF Input, Level
    <3>6. w = [i \in 1 .. SettleSamples |-> pin]
      BY <1>2, <3>3, <3>5
    <3> QED BY <1>4, <3>6
  <2>3. next.level = input.level
    BY <2>2 DEF Polled, NewInput, Input
  <2> QED BY <2>1, <2>3
<1> QED BY <1>3, <1>4

LEMMA InitHInv == HistoryInit => HInv
<1> SUFFICES ASSUME HistoryInit PROVE HInv
  OBVIOUS
<1>1. \A b \in Buttons : button[b] \in Input /\ button[b].level = fingers[b]
                         /\ button[b].differing = 0
  BY SettleAssumption, SMT DEF HistoryInit, DoorInit, Init, NewInput, Input
<1>2. TypeOK
  BY <1>1, ChordAssumption DEF HistoryInit, DoorInit, Init, TypeOK
<1>3. HistoryType
  BY <1>2, SettleAssumption, ChordAssumption, PollsAssumption
     DEF HistoryInit, DoorInit, HistoryType, DownCap
<1>4. LevelIsSolid
  <2>1. \A b \in Buttons : recent[b] = <<>> /\ solid[b] = fingers[b]
    BY DEF HistoryInit, DoorInit, Init
  <2>2. \A b \in Buttons : CountsItsSamples(button[b], <<>>)
    BY <1>1 DEF CountsItsSamples
  <2> QED BY <1>1, <2>1, <2>2 DEF LevelIsSolid
<1>5. EveryPressOnce
  BY DEF HistoryInit, DoorInit, Init, EveryPressOnce
<1>6. DownIsOnItsWay
  BY <1>1, SettleAssumption DEF HistoryInit, DownIsOnItsWay
<1>7. OwedIsRecent /\ SpentIsHeld
  BY DEF HistoryInit, OwedIsRecent, SpentIsHeld
<1> QED BY <1>3, <1>4, <1>5, <1>6, <1>7 DEF HInv

(* One poll, button by button: the window takes the sample, and the level  *)
(* it leaves is the one read throughout.                                   *)
LEMMA PolledButton ==
    ASSUME HInv, HistoryPoll, NEW b \in Buttons
    PROVE  /\ button[b] \in Input /\ fingers[b] \in Level
           /\ button'[b] = Polled(button[b], fingers[b]) /\ button'[b] \in Input
           /\ recent'[b] \in Seq(Level) /\ Len(recent'[b]) <= SettleSamples
           /\ CountsItsSamples(button'[b], recent'[b])
           /\ solid'[b] = button'[b].level /\ solid[b] = button[b].level
<1>1. /\ button[b] \in Input /\ fingers[b] \in Level
      /\ recent[b] \in Seq(Level) /\ Len(recent[b]) <= SettleSamples
  BY DEF HInv, HistoryType, TypeOK
<1>2. button'[b] = Polled(button[b], fingers[b])
  BY DEF HistoryPoll, PollDoor, PollButtons, Poll
<1>3. CountsItsSamples(button[b], recent[b]) /\ solid[b] = button[b].level
  BY DEF HInv, LevelIsSolid
<1>4. /\ recent'[b] = Newest(Append(recent[b], fingers[b]))
      /\ solid'[b] = SolidLevel(recent'[b], solid[b])
  BY DEF HistoryPoll
<1>5. MovedOn(recent[b], fingers[b], recent'[b])
  BY <1>1, <1>4, NewestMovesOn
<1>6. CountsItsSamples(button'[b], recent'[b]) /\ button'[b] \in Input
  BY <1>1, <1>2, <1>3, <1>5, SampleIsCounted, PolledType
<1>7. solid'[b] = button'[b].level
  BY <1>1, <1>2, <1>3, <1>4, <1>5, SettledIsSolid
<1> QED BY <1>1, <1>2, <1>3, <1>5, <1>6, <1>7 DEF MovedOn

Both == \A b \in Buttons : button'[b].level = "low"

(* The chord's count, and what a chord that was just made says of it.      *)
LEMMA PolledChord ==
    ASSUME HInv, HistoryPoll
    PROVE  /\ held' = IF ~Both THEN 0 ELSE IF held < HeldCap THEN held + 1 ELSE held
           /\ chords' # chords => Both /\ held' = ChordSamples
           /\ held \in Nat /\ held <= HeldCap /\ held' \in 0 .. HeldCap
           /\ chords' \in 0 .. CounterMod - 1
           /\ Both => held < held' \/ held >= ChordSamples + 1
           /\ polls \in Nat /\ polls' = polls + 1 /\ polls' \in 0 .. PollsPerFrame
<1>1. Observe(\A b \in Buttons : Pressed(button'[b]))
  BY DEF HistoryPoll, PollDoor, PollButtons, Poll
<1>2. Both <=> \A b \in Buttons : Pressed(button'[b])
  BY DEF Both, Pressed
<1>3. /\ held' = IF ~Both THEN 0 ELSE IF held < HeldCap THEN held + 1 ELSE held
      /\ chords' = IF Both /\ held' = ChordSamples THEN (chords + 1) % CounterMod ELSE chords
  <2> DEFINE both == \A b \in Buttons : Pressed(button'[b])
  <2>1. Observe(both) /\ (Both <=> both)
    BY <1>1, <1>2
  <2> HIDE DEF both
  <2> QED BY <2>1 DEF Observe
<1>4. /\ held \in 0 .. HeldCap /\ HeldCap \in Nat /\ ChordSamples \in Nat
      /\ HeldCap > ChordSamples /\ chords \in 0 .. CounterMod - 1
      /\ CounterMod \in Nat \ {0}
  BY ChordAssumption DEF HInv, HistoryType, TypeOK
<1>5. (chords + 1) % CounterMod \in 0 .. CounterMod - 1
  BY <1>4
<1>6. polls \in Nat /\ polls' = polls + 1 /\ polls' \in 0 .. PollsPerFrame
  BY PollsAssumption DEF HInv, HistoryType, HistoryPoll, PollDoor
<1> HIDE DEF Both
<1>7. held' \in 0 .. HeldCap /\ (Both => held < held' \/ held >= ChordSamples + 1)
  BY <1>3, <1>4
<1>8. chords' \in 0 .. CounterMod - 1 /\ (chords' # chords => Both /\ held' = ChordSamples)
  BY <1>3, <1>4, <1>5
<1> QED BY <1>3, <1>4, <1>6, <1>7, <1>8

(* Every fall of a button's solid level is one press.                      *)
LEMMA PollCountsPresses ==
    ASSUME HInv, HistoryPoll
    PROVE  EveryPressOnce' /\ presses' \in [Buttons -> 0 .. CounterMod - 1]
<1>1. presses = falls /\ presses \in [Buttons -> 0 .. CounterMod - 1]
  BY DEF HInv, EveryPressOnce, HistoryType, TypeOK
<1>2. ASSUME NEW b \in Buttons
      PROVE  Settles(button[b], fingers[b]) /\ Pressed(button'[b])
               <=> solid[b] = "high" /\ solid'[b] = "low"
  <2>1. /\ button[b] \in Input /\ fingers[b] \in Level
        /\ button'[b] = Polled(button[b], fingers[b])
        /\ solid'[b] = button'[b].level /\ solid[b] = button[b].level
    BY PolledButton
  <2> QED BY <2>1 DEF Polled, NewInput, Settles, Pressed, Input, Level
<1>3. presses' = [b \in Buttons |->
                     IF Settles(button[b], fingers[b]) /\ Pressed(button'[b])
                       THEN (presses[b] + 1) % CounterMod
                       ELSE presses[b]]
  BY DEF HistoryPoll, PollDoor, PollButtons, Poll
<1>4. falls' = [b \in Buttons |->
                   IF solid[b] = "high" /\ solid'[b] = "low"
                     THEN (falls[b] + 1) % CounterMod
                     ELSE falls[b]]
  BY DEF HistoryPoll
<1>5. presses' = falls'
  BY <1>1, <1>2, <1>3, <1>4
<1>6. \A n \in 0 .. CounterMod - 1 : (n + 1) % CounterMod \in 0 .. CounterMod - 1
  BY ChordAssumption
<1>7. presses' \in [Buttons -> 0 .. CounterMod - 1]
  BY <1>1, <1>3, <1>6
<1> QED BY <1>5, <1>7 DEF EveryPressOnce

(* Both pins down: the buttons follow within the settle period, and the    *)
(* chord's count keeps up from there.                                      *)
LEMMA PollKeepsDown ==
    ASSUME HInv, HistoryPoll
    PROVE  DownIsOnItsWay' /\ down' \in 0 .. DownCap
<1>1. /\ down \in 0 .. DownCap /\ DownCap = SettleSamples + ChordSamples
      /\ SettleSamples \in Nat \ {0} /\ ChordSamples \in Nat \ {0}
      /\ HeldCap \in Nat /\ HeldCap > ChordSamples
  BY SettleAssumption, ChordAssumption DEF HInv, HistoryType, DownCap
<1>2. down' = IF \E b \in Buttons : fingers[b] = "high" THEN 0
              ELSE IF down < DownCap THEN down + 1 ELSE down
  BY DEF HistoryPoll
<1>3. down' \in 0 .. DownCap
  BY <1>1, <1>2
<1>4. CASE \E b \in Buttons : fingers[b] = "high"
  <2>1. down' = 0
    BY <1>2, <1>4
  <2>2. \A b \in Buttons : button'[b].differing \in Nat
    BY PolledButton, <1>1 DEF Input
  <2> QED BY <1>1, <1>3, <2>1, <2>2 DEF DownIsOnItsWay
<1>5. CASE \A b \in Buttons : fingers[b] # "high"
  <2>1. down' = IF down < DownCap THEN down + 1 ELSE down
    BY <1>2, <1>5
  <2>2. ASSUME NEW b \in Buttons
        PROVE  button'[b].level = "low" \/ down' <= button'[b].differing
    <3>1. /\ button[b] \in Input /\ fingers[b] = "low"
          /\ button'[b] = Polled(button[b], fingers[b])
      BY <1>5, PolledButton DEF Level
    <3>2. CASE button[b].level = "low"
      BY <3>1, <3>2 DEF Polled, NewInput
    <3>3. CASE button[b].level # "low" /\ Settles(button[b], fingers[b])
      BY <3>1, <3>3 DEF Polled, NewInput
    <3>4. CASE button[b].level # "low" /\ ~Settles(button[b], fingers[b])
      <4>1. button'[b].differing = button[b].differing + 1 /\ button[b].differing \in Nat
        BY <3>1, <3>4, <1>1 DEF Polled, Input
      <4>2. down <= button[b].differing
        BY <3>4 DEF HInv, DownIsOnItsWay
      <4> QED BY <1>1, <2>1, <4>1, <4>2
    <3> QED BY <3>2, <3>3, <3>4
  <2>3. ASSUME down' >= SettleSamples PROVE down' - SettleSamples < held'
    <3>1. Both
      <4> SUFFICES ASSUME NEW b \in Buttons PROVE button'[b].level = "low"
        BY DEF Both
      <4>1. button'[b].differing \in 0 .. SettleSamples - 1
        BY PolledButton DEF Input
      <4> QED BY <1>1, <1>3, <2>2, <2>3, <4>1
    <3>2. held' = (IF held < HeldCap THEN held + 1 ELSE held) /\ held \in 0 .. HeldCap
      BY <3>1, PolledChord
    <3>3. CASE down >= SettleSamples
      <4>1. down - SettleSamples < held
        BY <3>3 DEF HInv, DownIsOnItsWay
      <4> QED BY <1>1, <2>1, <3>2, <4>1
    <3>4. CASE ~(down >= SettleSamples)
      <4>1. down' = SettleSamples
        BY <1>1, <2>1, <2>3, <3>4
      <4>2. held' > 0
        BY <1>1, <3>2
      <4> QED BY <1>1, <3>2, <4>1, <4>2
    <3> QED BY <3>3, <3>4
  <2> QED BY <1>3, <2>2, <2>3 DEF DownIsOnItsWay
<1> QED BY <1>4, <1>5

LEMMA PollKeepsHInv ==
    ASSUME HInv, HistoryPoll
    PROVE  HInv' /\ (chords' # chords => armed)
<1>1. /\ held' = IF ~Both THEN 0 ELSE IF held < HeldCap THEN held + 1 ELSE held
      /\ chords' # chords => Both /\ held' = ChordSamples
      /\ held \in Nat /\ held <= HeldCap /\ held' \in 0 .. HeldCap
      /\ chords' \in 0 .. CounterMod - 1
      /\ Both => held < held' \/ held >= ChordSamples + 1
      /\ polls \in Nat /\ polls' = polls + 1 /\ polls' \in 0 .. PollsPerFrame
  BY PolledChord
<1>2. /\ ChordSamples \in Nat \ {0} /\ HeldCap \in Nat /\ HeldCap > ChordSamples
      /\ PollsPerFrame \in Nat /\ PollsPerFrame < ChordSamples
  BY ChordAssumption, PollsAssumption
<1>3. /\ owed \in 0 .. 1 /\ armed \in BOOLEAN
      /\ owed = 1 => held >= ChordSamples \/ held < polls
      /\ ~armed => held >= ChordSamples
  BY DEF HInv, HistoryType, OwedIsRecent, SpentIsHeld
<1>4. /\ owed' = IF chords' # chords THEN owed + 1 ELSE owed
      /\ armed' = (\/ \E b \in Buttons : solid'[b] = "high"
                   \/ armed /\ chords' = chords)
  BY DEF HistoryPoll
<1>5. ~armed' => Both
  <2> SUFFICES ASSUME ~armed', NEW b \in Buttons PROVE button'[b].level = "low"
    BY DEF Both
  <2>1. solid'[b] # "high" /\ solid'[b] = button'[b].level /\ button'[b] \in Input
    BY <1>4, PolledButton
  <2> QED BY <2>1 DEF Input, Level
<1> HIDE DEF Both
<1>6. chords' # chords => held = ChordSamples - 1
  BY <1>1, <1>2
<1>7. chords' # chords => armed /\ owed = 0
  BY <1>1, <1>2, <1>3, <1>6
<1>8. owed' \in 0 .. 1 /\ OwedIsRecent'
  <2>1. CASE chords' # chords
    BY <1>1, <1>2, <1>3, <1>4, <1>7, <2>1 DEF OwedIsRecent
  <2>2. CASE chords' = chords
    <3>1. owed' = owed
      BY <1>4, <2>2
    <3>2. owed = 1 => held' >= ChordSamples \/ held' < polls'
      BY <1>1, <1>2, <1>3
    <3> QED BY <1>3, <3>1, <3>2 DEF OwedIsRecent
  <2> QED BY <2>1, <2>2
<1>9. SpentIsHeld'
  <2> SUFFICES ASSUME ~armed' PROVE held' >= ChordSamples
    BY DEF SpentIsHeld
  <2>1. Both /\ (~armed \/ chords' # chords)
    BY <1>3, <1>4, <1>5
  <2>2. CASE ~armed
    BY <1>1, <1>2, <1>3, <2>1, <2>2
  <2>3. CASE chords' # chords
    BY <1>1, <1>2, <2>3
  <2> QED BY <2>1, <2>2, <2>3
<1>10. LevelIsSolid'
  BY PolledButton DEF LevelIsSolid
<1>11. /\ EveryPressOnce' /\ presses' \in [Buttons -> 0 .. CounterMod - 1]
       /\ DownIsOnItsWay' /\ down' \in 0 .. DownCap
  BY PollCountsPresses, PollKeepsDown
<1>12. TypeOK'
  <2>1. fingers' = fingers /\ fingers \in [Buttons -> Level]
    BY DEF HistoryPoll, PollDoor, PollButtons, HInv, HistoryType, TypeOK
  <2>2. button' \in [Buttons -> Input]
    <3>1. button' = [b \in Buttons |-> Polled(button[b], fingers[b])]
      BY DEF HistoryPoll, PollDoor, PollButtons, Poll
    <3>2. \A b \in Buttons : Polled(button[b], fingers[b]) \in Input
      BY PolledButton
    <3> QED BY <3>1, <3>2
  <2> QED BY <1>1, <1>11, <2>1, <2>2 DEF TypeOK
<1>13. HistoryType'
  <2>1. armed' \in BOOLEAN
    BY <1>4
  <2>2. /\ recent' = [b \in Buttons |-> Newest(Append(recent[b], fingers[b]))]
        /\ \A b \in Buttons : recent'[b] \in Seq(Level) /\ Len(recent'[b]) <= SettleSamples
    BY PolledButton DEF HistoryPoll
  <2> QED BY <1>1, <1>8, <1>11, <1>12, <2>1, <2>2 DEF HistoryType
<1> QED BY <1>7, <1>8, <1>9, <1>10, <1>11, <1>13 DEF HInv

-----------------------------------------------------------------------------

IInv == World /\ HInv

(* What is left of the door when no sample is taken.                       *)
LEMMA NoSampleKeepsHInv ==
    ASSUME HInv, UNCHANGED <<button, held, presses, chords, recent, solid, falls, armed, down>>,
           fingers' \in [Buttons -> Level],
           \/ UNCHANGED <<polls, owed>>
           \/ polls' = 0 /\ owed' = 0
    PROVE  HInv'
<1>1. polls' \in 0 .. PollsPerFrame /\ owed' \in 0 .. 1
  BY PollsAssumption DEF HInv, HistoryType
<1>2. HistoryType'
  BY <1>1 DEF HInv, HistoryType, TypeOK
<1>3. LevelIsSolid' /\ EveryPressOnce' /\ DownIsOnItsWay' /\ SpentIsHeld'
  BY DEF HInv, LevelIsSolid, EveryPressOnce, DownIsOnItsWay, SpentIsHeld
<1>4. OwedIsRecent'
  BY DEF HInv, OwedIsRecent
<1> QED BY <1>2, <1>3, <1>4 DEF HInv

LEMMA InitIInv == HistoryInit => IInv
BY InitHInv, InitWorld DEF HistoryInit, IInv

LEMMA StepKeepsIInv == IInv /\ [HistoryNext]_historyVars => IInv'
<1> SUFFICES ASSUME IInv, [HistoryNext]_historyVars PROVE IInv'
  OBVIOUS
<1>1. HInv /\ World /\ TypeOK /\ fingers \in [Buttons -> Level]
  BY DEF IInv, HInv, HistoryType, TypeOK
<1>2. CASE HistoryPoll
  <2>1. UNCHANGED <<calendarVars, showVars>>
    BY <1>2 DEF HistoryPoll, PollDoor
  <2> QED BY <1>1, <1>2, <2>1, ClockKeepsWorld, PollKeepsHInv DEF IInv
<1>3. CASE PlayFrame /\ owed' = 0 /\ UNCHANGED <<recent, solid, falls, armed, down>>
  <2>1. UNCHANGED vars /\ polls' = 0
    BY <1>3 DEF PlayFrame
  <2>2. HInv'
    BY <1>1, <1>3, <2>1, NoSampleKeepsHInv DEF vars
  <2>3. World'
    BY <1>1, <1>3, PlayKeepsWorld
  <2> QED BY <2>2, <2>3 DEF IInv
<1>4. CASE Outside /\ UNCHANGED history
  <2>1. /\ UNCHANGED <<button, held, presses, chords, showVars, polls>>
        /\ fingers' \in [Buttons -> Level]
        /\ TimePasses \/ NtpSteps \/ NtpLapses \/ UNCHANGED calendarVars
    BY <1>1, <1>4 DEF Outside, MoveFingers, buttonVars, vars
  <2>2. HInv'
    BY <1>1, <1>4, <2>1, NoSampleKeepsHInv DEF history
  <2>3. World'
    BY <1>1, <2>1, ClockKeepsWorld
  <2> QED BY <2>2, <2>3 DEF IInv
<1>5. CASE Sync /\ UNCHANGED history
  <2>1. UNCHANGED <<vars, showVars, polls>> /\ SyncTask
    BY <1>5 DEF Sync
  <2>2. HInv'
    BY <1>1, <1>5, <2>1, NoSampleKeepsHInv DEF history, vars
  <2>3. World'
    BY <1>1, <2>1, SyncKeepsWorld
  <2> QED BY <2>2, <2>3 DEF IInv
<1>6. CASE UNCHANGED historyVars
  <2>1. UNCHANGED <<vars, calendarVars, showVars, polls, history>>
    BY <1>6 DEF historyVars, doorVars
  <2>2. HInv'
    BY <1>1, <2>1, NoSampleKeepsHInv DEF history, vars
  <2>3. World'
    BY <1>1, <2>1, ClockKeepsWorld
  <2> QED BY <2>2, <2>3 DEF IInv
<1> QED BY <1>2, <1>3, <1>4, <1>5, <1>6 DEF HistoryNext

LEMMA AlwaysIInv == HistorySpec => []IInv
BY InitIInv, StepKeepsIInv, PTL DEF HistorySpec

(* Every variable of the door keeps its type, the saturating and the       *)
(* wrapping counters their range (face.rs:249-262).                        *)
THEOREM TypeOKDoorAlways == HistorySpec => []TypeOKDoor
<1>1. IInv => TypeOKDoor
  BY DEF IInv, World, HInv, HistoryType, TypeOKDoor
<1> QED BY <1>1, AlwaysIInv, PTL

(* Whatever the clock was when the table was last printed, no show that is *)
(* still to come or on is missing from it (calendar.rs:5-9).               *)
THEOREM NothingToComeIsMissingAlways == HistorySpec => []NothingToComeIsMissing
<1>1. IInv => NothingToComeIsMissing
  BY DEF IInv, World
<1> QED BY <1>1, AlwaysIInv, PTL

(* The press counters count the raw falls, a chord is made by the time     *)
(* both pins have read down for the settle and its length, and no frame    *)
(* sees two (face.rs:9-17, 249-262, show.rs:76).                           *)
THEOREM NoneLostNoneTwiceAlways == HistorySpec => []NoneLostNoneTwice
<1>1. ASSUME IInv PROVE NoneLostNoneTwice
  <2>1. EveryPressOnce /\ OneChordAFrame
    BY <1>1 DEF IInv, HInv, HistoryType, OneChordAFrame
  <2>2. ASSUME down = DownCap PROVE held >= ChordSamples
    <3>1. down - SettleSamples < held /\ held \in Nat
      BY <1>1, <2>2, SettleAssumption, ChordAssumption
         DEF IInv, HInv, DownIsOnItsWay, DownCap, HistoryType, TypeOK
    <3> QED BY <2>2, <3>1, SettleAssumption, ChordAssumption DEF DownCap
  <2> QED BY <2>1, <2>2 DEF NoneLostNoneTwice, HeldDownMakesAChord
<1>2. IInv => NoneLostNoneTwice
  BY <1>1
<1> QED BY <1>2, AlwaysIInv, PTL

(* One hold is one chord: the count that made it stays past the chord's    *)
(* length until a button has come up for a settle period (face.rs:         *)
(* 254-257).                                                               *)
THEOREM OneChordPerHoldAlways == HistorySpec => OneChordPerHold
<1>1. ASSUME IInv, [HistoryNext]_historyVars PROVE [chords' # chords => armed]_historyVars
  <2>1. CASE HistoryPoll
    BY <1>1, <2>1, PollKeepsHInv DEF IInv
  <2>2. CASE ~HistoryPoll
    <3>1. chords' = chords
      BY <1>1, <2>2 DEF HistoryNext, PlayFrame, Outside, MoveFingers, buttonVars, vars, Sync,
                        historyVars, doorVars
    <3> QED BY <3>1
  <2> QED BY <2>1, <2>2
<1>2. IInv /\ [HistoryNext]_historyVars => [chords' # chords => armed]_historyVars
  BY <1>1
<1> QED BY <1>2, AlwaysIInv, PTL DEF HistorySpec, OneChordPerHold

(* PlaysByTheClock's step.                                                 *)
PlayedByTheClock ==
    PlayFrame /\ behind = 0 => (state' = "idle" <=> Testing' \/ Current(truth))

(* On a clock that is right the rig plays exactly inside a show or in test *)
(* mode, from the first frame on (show.rs:4-6, calendar.rs:9-10).          *)
THEOREM PlaysByTheClockAlways == HistorySpec => PlaysByTheClock
<1>1. ASSUME IInv PROVE PlayedByTheClock
  <2> SUFFICES ASSUME PlayFrame, behind = 0
               PROVE  state' = "idle" <=> Testing' \/ Current(truth)
    BY DEF PlayedByTheClock
  <2>1. truth \in Nat /\ state \in {"blackout", "idle"}
    BY <1>1, CalendarAssumption DEF IInv, World, CalendarTypeOK, ShowTypeOK
  <2>2. Now = truth
    BY <2>1 DEF Now
  <2>3. state' = NextState(Current(truth))
    BY <2>2 DEF PlayFrame, Fill
  <2> QED BY <2>1, <2>3 DEF NextState
<1>2. IInv => [PlayedByTheClock]_doorVars
  BY <1>1
<1>3. PlayedByTheClock <=>
        (PlayFrame /\ behind = 0 => (state' = "idle" <=> Testing' \/ Current(truth)))
  BY DEF PlayedByTheClock
<1> QED BY <1>2, <1>3, AlwaysIInv, PTL DEF PlaysByTheClock

(* ChordsAndTimeoutsOnly's step.                                           *)
TurnedByChordOrTimeout ==
    PlayFrame =>
      (Testing' # Testing <=>
         \/ chords # seenChords
         \/ Testing /\ testingSince + 1 = TestModeTimeout)

(* Test mode turns over on a frame that sees a new chord, ends on the one  *)
(* its timeout falls on, and on no other (show.rs:8-10, 80-91).            *)
THEOREM ChordsAndTimeoutsOnlyAlways == HistorySpec => ChordsAndTimeoutsOnly
<1>1. ASSUME IInv PROVE TurnedByChordOrTimeout
  <2> SUFFICES ASSUME PlayFrame
               PROVE  Testing' # Testing <=>
                        \/ chords # seenChords
                        \/ Testing /\ testingSince + 1 = TestModeTimeout
    BY DEF TurnedByChordOrTimeout
  <2>1. testingSince \in {Off} \cup 0 .. TestModeTimeout - 1
    BY <1>1 DEF IInv, World, ShowTypeOK
  <2>2. Off \notin Nat /\ TestModeTimeout \in Nat \ {0}
    BY ShowAssumption
  <2>3. TestMode(chords # seenChords)
    BY DEF PlayFrame, Fill
  <2>4. CASE chords # seenChords
    <3>1. testingSince' = IF testingSince = Off THEN 0 ELSE Off
      BY <2>3, <2>4 DEF TestMode
    <3> QED BY <2>2, <2>4, <3>1 DEF Testing
  <2>5. CASE chords = seenChords /\ testingSince = Off
    <3>1. testingSince' = Off
      BY <2>3, <2>5 DEF TestMode
    <3> QED BY <2>5, <3>1 DEF Testing
  <2>6. CASE chords = seenChords /\ testingSince # Off
    <3>1. testingSince \in 0 .. TestModeTimeout - 1
      BY <2>1, <2>6
    <3>2. testingSince' = IF testingSince + 1 >= TestModeTimeout THEN Off ELSE testingSince + 1
      BY <2>3, <2>6 DEF TestMode
    <3>3. testingSince + 1 >= TestModeTimeout <=> testingSince + 1 = TestModeTimeout
      BY <2>2, <3>1
    <3>4. testingSince + 1 # Off
      BY <2>2, <3>1
    <3> QED BY <2>6, <3>2, <3>3, <3>4 DEF Testing
  <2> QED BY <2>4, <2>5, <2>6
<1>2. IInv => [TurnedByChordOrTimeout]_doorVars
  BY <1>1
<1>3. TurnedByChordOrTimeout <=>
        (PlayFrame =>
          (Testing' # Testing <=>
             \/ chords # seenChords
             \/ Testing /\ testingSince + 1 = TestModeTimeout))
  BY DEF TurnedByChordOrTimeout
<1> QED BY <1>2, <1>3, AlwaysIInv, PTL DEF ChordsAndTimeoutsOnly

=============================================================================
