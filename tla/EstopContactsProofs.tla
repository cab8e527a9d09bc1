------------------------ MODULE EstopContactsProofs -------------------------
(***************************************************************************)
(* The e-stop's safety, for every settle period and every cap on the quiet *)
(* count, proved from the inductive invariant                              *)
(*                                                                         *)
(*     IInv == TypeOK /\ NeverRunsUnlessReleased /\ DecidedAgrees          *)
(*                                                                         *)
(* which is inductive as it stands: the quiet count reaches the settle     *)
(* period only on the poll that decides (QuietCap > SettleSamples keeps a  *)
(* saturated count from deciding again), and a change, the only thing that *)
(* moves a level, restarts the count and stops the rig unless the new      *)
(* levels say released.  What is said of the raw samples is proved from    *)
(* HInv, which ties the counters to the history of the pins.               *)
(***************************************************************************)
EXTENDS MCEstopContacts, TLAPS

IInv == TypeOK /\ NeverRunsUnlessReleased /\ DecidedAgrees

(* An input polled is an input again: its counter stays below the settle   *)
(* period.                                                                 *)
LEMMA PolledType ==
    ASSUME NEW input \in Input, NEW pin \in Level
    PROVE  Polled(input, pin) \in Input
BY SettleAssumption, SMT DEF Input, Polled, NewInput, Settles

(* An input read at its own level, or off it without settling, keeps it.   *)
LEMMA PolledKeepsLevel ==
    ASSUME NEW input \in Input, NEW pin \in Level, ~Settles(input, pin)
    PROVE  Polled(input, pin).level = input.level
BY DEF Input, Polled, NewInput

(* Sampling keeps both contacts inputs, and the four readings words.       *)
LEMMA SampledType ==
    ASSUME TypeOK, SampleContacts
    PROVE  contact' \in [Contacts -> Input] /\ Settled(contact') \in Word
<1>1. contact' \in [Contacts -> Input]
  BY PolledType DEF TypeOK, SampleContacts
<1>2. \A c \in Contacts : contact'[c].level \in Level
  BY <1>1 DEF Input
<1>3. Settled(contact') \in Word
  BY <1>2 DEF Contacts, Level, Settled, Reads, Word
<1> QED BY <1>1, <1>3

(* When no contact settles, the two together say what they said.           *)
LEMMA NoChangeSaysTheSame ==
    ASSUME TypeOK, SampleContacts, ~Changed
    PROVE  Settled(contact') = Settled(contact)
<1>1. \A c \in Contacts : contact'[c].level = contact[c].level
  BY PolledKeepsLevel DEF TypeOK, SampleContacts, Changed
<1> QED BY <1>1 DEF Contacts, Settled

LEMMA InitIInv == Init => IInv
<1> SUFFICES ASSUME Init PROVE IInv
  OBVIOUS
<1>1. \A c \in Contacts : contact[c] \in Input
  BY SettleAssumption, SMT DEF Init, NewInput, Input
<1>2. Settled(contact) \in Word
  BY <1>1 DEF Init, Contacts, Level, Input, Settled, Reads, Word
<1>3. TypeOK
  BY <1>1, <1>2, SettleAssumption, QuietCapAssumption DEF Init, TypeOK
<1> QED BY <1>3 DEF Init, IInv, NeverRunsUnlessReleased, DecidedAgrees

LEMMA ChangeKeepsIInv == IInv /\ PollContacts /\ PollChange => IInv'
<1> SUFFICES ASSUME IInv, PollChange, UNCHANGED pins PROVE IInv'
  BY DEF PollContacts
<1>1. contact' \in [Contacts -> Input]
  BY SampledType DEF IInv, PollChange
<1>2. TypeOK'
  BY <1>1, QuietCapAssumption DEF IInv, TypeOK, PollChange
<1>3. NeverRunsUnlessReleased'
  BY DEF PollChange, NeverRunsUnlessReleased
<1>4. DecidedAgrees'
  BY SettleAssumption DEF PollChange, DecidedAgrees
<1> QED BY <1>2, <1>3, <1>4 DEF IInv

LEMMA QuietKeepsIInv == IInv /\ PollContacts /\ PollQuiet => IInv'
<1> SUFFICES ASSUME IInv, PollQuiet, UNCHANGED pins PROVE IInv'
  BY DEF PollContacts
<1>1. ~Changed
  BY DEF PollQuiet, AllAtLevel, Changed, Settles
<1>2. /\ contact' \in [Contacts -> Input]
      /\ Settled(contact') \in Word
      /\ Settled(contact') = Settled(contact)
  BY <1>1, SampledType, NoChangeSaysTheSame DEF IInv, PollQuiet
<1>3. quiet' \in 0 .. QuietCap
  BY QuietCapAssumption DEF IInv, TypeOK, PollQuiet
<1>4. CASE quiet' = SettleSamples
  <2>1. word' = Settled(contact') /\ estop' = (word' # "released")
    BY <1>4 DEF PollQuiet
  <2> QED BY <1>2, <1>3, <2>1 DEF IInv, TypeOK, NeverRunsUnlessReleased, DecidedAgrees
<1>5. CASE quiet' # SettleSamples
  <2>1. UNCHANGED <<estop, word>>
    BY <1>5 DEF PollQuiet
  <2>2. quiet' >= SettleSamples => quiet >= SettleSamples
    BY <1>5, SettleAssumption, QuietCapAssumption DEF IInv, TypeOK, PollQuiet
  <2> QED BY <1>2, <1>3, <2>1, <2>2
          DEF IInv, TypeOK, NeverRunsUnlessReleased, DecidedAgrees
<1> QED BY <1>4, <1>5

LEMMA BounceKeepsIInv == IInv /\ PollContacts /\ PollBounce => IInv'
<1> SUFFICES ASSUME IInv, PollBounce, UNCHANGED pins PROVE IInv'
  BY DEF PollContacts
<1>1. /\ contact' \in [Contacts -> Input]
      /\ Settled(contact') = Settled(contact)
  BY SampledType, NoChangeSaysTheSame DEF IInv, PollBounce
<1>2. quiet' \in 0 .. QuietCap /\ (quiet' >= SettleSamples => quiet >= SettleSamples)
  BY SettleAssumption, QuietCapAssumption DEF IInv, TypeOK, PollBounce
<1> QED BY <1>1, <1>2
        DEF IInv, TypeOK, PollBounce, NeverRunsUnlessReleased, DecidedAgrees

LEMMA StepKeepsIInv == IInv /\ [Next]_vars => IInv'
<1> SUFFICES ASSUME IInv, [Next]_vars PROVE IInv'
  OBVIOUS
<1>1. CASE PollContacts
  BY <1>1, ChangeKeepsIInv, QuietKeepsIInv, BounceKeepsIInv DEF PollContacts, Poll
<1>2. CASE MovePins
  BY <1>2 DEF MovePins, contactVars, IInv, TypeOK, NeverRunsUnlessReleased, DecidedAgrees
<1>3. CASE UNCHANGED vars
  BY <1>3 DEF vars, IInv, TypeOK, NeverRunsUnlessReleased, DecidedAgrees
<1> QED BY <1>1, <1>2, <1>3 DEF Next

(* The contacts' state has its type in every reachable state, whatever the *)
(* pins do (brain/src/face.rs, input_task).                                *)
THEOREM TypeCorrect == Spec => []TypeOK
<1>1. IInv => TypeOK
  BY DEF IInv
<1> QED BY InitIInv, StepKeepsIInv, <1>1, PTL DEF Spec

(* The rig is only let run while the settled contacts say released, for    *)
(* every settle period (brain/src/face.rs:212-216).                        *)
THEOREM RunsOnlyReleased == Spec => []NeverRunsUnlessReleased
<1>1. IInv => NeverRunsUnlessReleased
  BY DEF IInv
<1> QED BY InitIInv, StepKeepsIInv, <1>1, PTL DEF Spec

(* Once the contacts have been quiet for a settle period, the frame loop   *)
(* and the broker are both told what the contacts say                      *)
(* (brain/src/face.rs:198-222).                                            *)
THEOREM QuietIsDecided == Spec => []DecidedAgrees
<1>1. IInv => DecidedAgrees
  BY DEF IInv
<1> QED BY InitIInv, StepKeepsIInv, <1>1, PTL DEF Spec

-----------------------------------------------------------------------------
(* The history.  What a contact's counter stands for in the raw samples:   *)
(* before the differing ones comes the level it has settled (LevelWasRead),*)
(* and a wait that has lasted some polls has read nothing but the settled  *)
(* levels on them (WaitIsQuiet).                                           *)

HistoryType ==
    /\ recent \in [Contacts -> Seq(Level)]
    /\ \A c \in Contacts : Len(recent[c]) <= SettleSamples

LevelWasRead ==
    \A c \in Contacts :
        LET before == Len(recent[c]) - contact[c].differing
        IN  before > 0 => recent[c][before] = contact[c].level

WaitIsQuiet ==
    quiet < SettleSamples =>
        \A c \in Contacts :
            /\ quiet <= Len(recent[c])
            /\ \A i \in 1 .. Len(recent[c]) :
                   i > Len(recent[c]) - quiet => recent[c][i] = contact[c].level

HInv == IInv /\ HistoryType /\ LevelWasRead /\ WaitIsQuiet

(* A window w that a sample has moved on from s: as long as s or one       *)
(* longer, the new sample last, and before it what was last before.        *)
MovedOn(s, pin, w) ==
    /\ w \in Seq(Level)
    /\ Len(w) \in Nat /\ Len(w) > 0 /\ Len(w) <= SettleSamples
    /\ Len(w) = Len(s) + 1 \/ (Len(w) = Len(s) /\ Len(s) = SettleSamples)
    /\ w[Len(w)] = pin
    /\ \A i \in 1 .. Len(w) - 1 : w[i] = s[i + Len(s) + 1 - Len(w)]

LEMMA NewestMovesOn ==
    ASSUME NEW s \in Seq(Level), Len(s) <= SettleSamples, NEW pin \in Level
    PROVE  MovedOn(s, pin, Newest(Append(s, pin)))
<1> DEFINE a == Append(s, pin)
<1>1. /\ a \in Seq(Level) /\ Len(a) = Len(s) + 1 /\ Len(s) \in Nat
      /\ a[Len(s) + 1] = pin
      /\ \A i \in 1 .. Len(s) : a[i] = s[i]
  OBVIOUS
<1>2. CASE Len(a) > SettleSamples
  <2>1. Newest(a) = Tail(a)
    BY <1>2 DEF Newest
  <2>2. a # <<>>
    BY <1>1
  <2>3. /\ Tail(a) \in Seq(Level) /\ Len(Tail(a)) = Len(a) - 1
        /\ \A i \in 1 .. Len(a) - 1 : Tail(a)[i] = a[i + 1]
    BY <1>1, <2>2
  <2>4. Len(s) = SettleSamples /\ Len(s) > 0
    BY <1>1, <1>2, SettleAssumption
  <2> QED BY <1>1, <2>1, <2>3, <2>4 DEF MovedOn
<1>3. CASE ~(Len(a) > SettleSamples)
  <2>1. Newest(a) = a
    BY <1>3 DEF Newest
  <2> QED BY <1>1, <1>3, <2>1, SettleAssumption DEF MovedOn
<1> QED BY <1>2, <1>3

LEMMA InitHInv == HistoryInit => HInv
<1> SUFFICES ASSUME HistoryInit PROVE HInv
  OBVIOUS
<1>1. IInv
  BY InitIInv DEF HistoryInit
<1>2. HistoryType
  BY SettleAssumption DEF HistoryInit, HistoryType
<1>3. LevelWasRead
  BY DEF HistoryInit, Init, NewInput, LevelWasRead
<1>4. WaitIsQuiet
  BY SettleAssumption DEF HistoryInit, Init, WaitIsQuiet
<1> QED BY <1>1, <1>2, <1>3, <1>4 DEF HInv

(* A poll adds one sample to each window.                                  *)
Samples == recent' = [c \in Contacts |-> Newest(Append(recent[c], pins[c]))]

LEMMA SampledWindow ==
    ASSUME HInv, Samples, NEW c \in Contacts
    PROVE  /\ MovedOn(recent[c], pins[c], recent'[c])
           /\ Len(recent[c]) \in Nat /\ Len(recent[c]) <= SettleSamples
<1>1. /\ recent[c] \in Seq(Level) /\ Len(recent[c]) <= SettleSamples
      /\ pins[c] \in Level
  BY DEF HInv, HistoryType, IInv, TypeOK
<1>2. MovedOn(recent[c], pins[c], Newest(Append(recent[c], pins[c])))
  BY <1>1, NewestMovesOn
<1>3. recent'[c] = Newest(Append(recent[c], pins[c]))
  BY DEF Samples
<1> QED BY <1>1, <1>2, <1>3

(* A sample at the settled level, or one that settles, is the new level;   *)
(* any other counts as differing.                                          *)
LEMMA PollKeepsLevelWasRead ==
    ASSUME HInv, Samples, SampleContacts
    PROVE  LevelWasRead'
<1> SUFFICES ASSUME NEW c \in Contacts, Len(recent'[c]) - contact'[c].differing > 0
             PROVE  recent'[c][Len(recent'[c]) - contact'[c].differing] = contact'[c].level
  BY DEF LevelWasRead
<1> DEFINE n == Len(recent[c])
           m == Len(recent'[c])
           d == contact[c].differing
<1>1. /\ n \in Nat /\ m \in Nat /\ m > 0 /\ (m = n + 1 \/ (m = n /\ n = SettleSamples))
      /\ recent'[c][m] = pins[c]
      /\ \A i \in 1 .. m - 1 : recent'[c][i] = recent[c][i + n + 1 - m]
  BY SampledWindow DEF MovedOn
<1>2. /\ contact[c] \in Input /\ d \in 0 .. SettleSamples - 1
      /\ contact'[c] = Polled(contact[c], pins[c])
  BY DEF HInv, IInv, TypeOK, SampleContacts, Input
<1>3. CASE pins[c] = contact[c].level \/ Settles(contact[c], pins[c])
  <2>1. contact'[c].level = pins[c] /\ contact'[c].differing = 0
    BY <1>2, <1>3 DEF Polled, NewInput
  <2> QED BY <1>1, <2>1
<1>4. CASE ~(pins[c] = contact[c].level \/ Settles(contact[c], pins[c]))
  <2>1. contact'[c].level = contact[c].level /\ contact'[c].differing = d + 1
    BY <1>2, <1>4 DEF Polled, Input
  <2>2. m - (d + 1) \in 1 .. m - 1
    BY <1>1, <1>2, <2>1
  <2>3. recent'[c][m - (d + 1)] = recent[c][n - d] /\ n - d > 0
    <3>1. recent'[c][m - (d + 1)] = recent[c][(m - (d + 1)) + n + 1 - m]
      BY <1>1, <2>2
    <3>2. n \in Nat /\ m \in Nat /\ d \in Nat
      BY <1>1, <1>2, SettleAssumption
    <3> HIDE DEF n, m, d
    <3>3. (m - (d + 1)) + n + 1 - m = n - d
      BY <3>2
    <3>4. n - d > 0
      BY <1>1, <2>2, <3>2
    <3> QED BY <3>1, <3>3, <3>4
  <2>4. recent[c][n - d] = contact[c].level
    BY <2>3 DEF HInv, LevelWasRead
  <2> QED BY <2>1, <2>3, <2>4
<1> QED BY <1>3, <1>4

(* A quiet poll lengthens the run of settled levels by one.                *)
LEMMA QuietPollLengthens ==
    ASSUME HInv, Samples, PollQuiet, quiet < SettleSamples, NEW c \in Contacts
    PROVE  /\ quiet' = quiet + 1
           /\ contact'[c].level = contact[c].level
           /\ quiet' <= Len(recent'[c])
           /\ \A i \in 1 .. Len(recent'[c]) :
                  i > Len(recent'[c]) - quiet' => recent'[c][i] = contact'[c].level
<1> DEFINE n == Len(recent[c])
           m == Len(recent'[c])
<1>1. /\ n \in Nat /\ m \in Nat /\ m > 0 /\ m <= SettleSamples
      /\ (m = n + 1 \/ (m = n /\ n = SettleSamples))
      /\ recent'[c][m] = pins[c]
      /\ \A i \in 1 .. m - 1 : recent'[c][i] = recent[c][i + n + 1 - m]
  BY SampledWindow DEF MovedOn
<1>2. quiet \in Nat /\ quiet' = quiet + 1
  BY QuietCapAssumption, SettleAssumption DEF HInv, IInv, TypeOK, PollQuiet
<1>3. pins[c] = contact[c].level /\ contact'[c] = Polled(contact[c], pins[c])
  BY DEF PollQuiet, AllAtLevel, SampleContacts
<1>4. contact'[c].level = contact[c].level
  BY <1>3 DEF Polled, NewInput
<1>5. /\ quiet <= n
      /\ \A i \in 1 .. n : i > n - quiet => recent[c][i] = contact[c].level
  BY DEF HInv, WaitIsQuiet
<1>6. quiet + 1 <= m
  BY <1>1, <1>2, <1>5
<1>7. ASSUME NEW i \in 1 .. m, i > m - (quiet + 1)
      PROVE  recent'[c][i] = contact[c].level
  <2>1. CASE i = m
    BY <1>1, <1>3, <2>1
  <2>2. CASE i # m
    <3>1. /\ n \in Nat /\ m \in Nat /\ quiet \in Nat
          /\ m = n + 1 \/ m = n
      BY <1>1, <1>2
    <3>2. i \in 1 .. m - 1 /\ i + n + 1 - m \in 1 .. n /\ i + n + 1 - m > n - quiet
      <4> HIDE DEF n, m
      <4> QED BY <1>7, <2>2, <3>1
    <3> QED BY <1>1, <1>5, <3>2
  <2> QED BY <2>1, <2>2
<1> QED BY <1>2, <1>4, <1>6, <1>7

LEMMA PollKeepsHInv ==
    ASSUME HInv, PollContacts, Samples
    PROVE  HInv'
<1>1. SampleContacts
  BY DEF PollContacts, Poll, PollChange, PollQuiet, PollBounce
<1>2. IInv'
  BY StepKeepsIInv DEF HInv, Next
<1>3. HistoryType'
  <2>1. \A c \in Contacts :
            recent'[c] \in Seq(Level) /\ Len(recent'[c]) <= SettleSamples
    BY SampledWindow DEF MovedOn
  <2> QED BY <2>1 DEF HistoryType, Samples
<1>4. LevelWasRead'
  BY <1>1, PollKeepsLevelWasRead
<1>5. WaitIsQuiet'
  <2>1. ASSUME quiet' = 0
        PROVE  WaitIsQuiet'
    <3>1. \A c \in Contacts : Len(recent'[c]) \in Nat
      BY SampledWindow DEF MovedOn
    <3> QED BY <2>1, <3>1 DEF WaitIsQuiet
  <2>2. CASE PollChange
    BY <2>1, <2>2 DEF PollChange
  <2>3. CASE PollBounce
    <3>1. CASE quiet < SettleSamples
      BY <2>1, <2>3, <3>1 DEF PollBounce
    <3>2. CASE ~(quiet < SettleSamples)
      BY <2>3, <3>2 DEF PollBounce, WaitIsQuiet
    <3> QED BY <3>1, <3>2
  <2>4. CASE PollQuiet
    <3>1. CASE quiet < SettleSamples
      BY <2>4, <3>1, QuietPollLengthens DEF WaitIsQuiet
    <3>2. CASE ~(quiet < SettleSamples)
      <4>1. ~(quiet' < SettleSamples)
        BY <2>4, <3>2, QuietCapAssumption, SettleAssumption DEF PollQuiet, HInv, IInv, TypeOK
      <4> QED BY <4>1 DEF WaitIsQuiet
    <3> QED BY <3>1, <3>2
  <2> QED BY <2>2, <2>3, <2>4 DEF PollContacts, Poll
<1> QED BY <1>2, <1>3, <1>4, <1>5 DEF HInv

LEMMA StepKeepsHInv == HInv /\ [HistoryNext]_historyVars => HInv'
<1> SUFFICES ASSUME HInv, [HistoryNext]_historyVars PROVE HInv'
  OBVIOUS
<1>1. CASE PollContacts /\ Samples
  BY <1>1, PollKeepsHInv
<1>2. CASE (MovePins \/ UNCHANGED vars) /\ UNCHANGED recent
  <2>1. IInv'
    BY <1>2, StepKeepsIInv DEF HInv, Next
  <2>2. UNCHANGED <<contact, quiet, recent>>
    BY <1>2 DEF MovePins, contactVars, vars
  <2> QED BY <2>1, <2>2 DEF HInv, HistoryType, LevelWasRead, WaitIsQuiet
<1> QED BY <1>1, <1>2 DEF HistoryNext, historyVars, Samples

(* A contact off its released level for a settle period has stopped the    *)
(* rig, whatever the other one does meanwhile: the settled level is among  *)
(* the samples, so it is off too (brain/src/face.rs:198-216).              *)
THEOREM StopsInTimeAlways == HistorySpec => []StopsInTime
<1>1. HInv => StopsInTime
  <2> SUFFICES ASSUME HInv, NEW c \in Contacts, Len(recent[c]) = SettleSamples,
                      \A i \in 1 .. SettleSamples : recent[c][i] # ReleasedLevel[c]
               PROVE  estop
    BY DEF StopsInTime
  <2>1. contact[c].differing \in 0 .. SettleSamples - 1
    BY DEF HInv, IInv, TypeOK, Input
  <2>2. SettleSamples - contact[c].differing \in 1 .. SettleSamples
    BY <2>1, SettleAssumption
  <2>3. recent[c][SettleSamples - contact[c].differing] = contact[c].level
    BY <2>2 DEF HInv, LevelWasRead
  <2>4. contact[c].level # ReleasedLevel[c]
    BY <2>2, <2>3
  <2>5. contact["nc"].level # "low" \/ contact["no"].level # "high"
    BY <2>4 DEF Contacts, ReleasedLevel
  <2>6. contact["nc"].level \in Level /\ contact["no"].level \in Level
    BY DEF HInv, IInv, TypeOK, Input, Contacts
  <2>7. Settled(contact) # "released"
    BY <2>5, <2>6 DEF Level, Settled, Reads
  <2> QED BY <2>7 DEF HInv, IInv, TypeOK, NeverRunsUnlessReleased
<1> QED BY <1>1, InitHInv, StepKeepsHInv, PTL DEF HistorySpec

QuietStep ==
    word' # word \/ (estop /\ ~estop')
        => \A c \in Contacts : ReadOnly(c, contact[c].level)'

LEMMA StepIsQuiet == HInv /\ [HistoryNext]_historyVars => QuietStep
<1> SUFFICES ASSUME HInv, [HistoryNext]_historyVars,
                    word' # word \/ (estop /\ ~estop'), NEW c \in Contacts
             PROVE  ReadOnly(c, contact[c].level)'
  BY DEF QuietStep
<1>1. PollContacts /\ Samples
  BY DEF HistoryNext, historyVars, vars, MovePins, contactVars, Samples
<1>2. ~PollChange /\ ~PollBounce
  BY DEF PollChange, PollBounce
<1>3. PollQuiet /\ quiet' = SettleSamples
  BY <1>1, <1>2 DEF PollContacts, Poll, PollQuiet
<1>4. quiet < SettleSamples
  BY <1>3, QuietCapAssumption, SettleAssumption DEF PollQuiet, HInv, IInv, TypeOK
<1>5. /\ SettleSamples <= Len(recent'[c]) /\ Len(recent'[c]) \in Nat
      /\ Len(recent'[c]) <= SettleSamples
  BY <1>1, <1>3, <1>4, QuietPollLengthens, SampledWindow DEF MovedOn
<1>6. Len(recent'[c]) = SettleSamples
  BY <1>5, SettleAssumption
<1>7. \A i \in 1 .. SettleSamples : recent'[c][i] = contact'[c].level
  BY <1>1, <1>3, <1>4, <1>6, QuietPollLengthens, SettleAssumption
<1> QED BY <1>6, <1>7 DEF ReadOnly

(* What is published, and above all a release, was read steadily on both   *)
(* contacts for a settle period (brain/src/face.rs:198-203).               *)
THEOREM DecidedOnQuietSamplesAlways == HistorySpec => DecidedOnQuietSamples
<1>1. QuietStep <=>
        (word' # word \/ (estop /\ ~estop')
          => \A c \in Contacts : ReadOnly(c, contact[c].level)')
  BY DEF QuietStep
<1> QED BY <1>1, InitHInv, StepKeepsHInv, StepIsQuiet, PTL
        DEF HistorySpec, DecidedOnQuietSamples

=============================================================================
