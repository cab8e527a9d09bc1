-------------------------- MODULE MCEstopContacts ---------------------------
(***************************************************************************)
(* EstopContacts with a history variable: what each contact's pin read on  *)
(* the last SettleSamples polls, the newest last.  The debouncing is       *)
(* judged against these raw samples, not against its own counters.         *)
(***************************************************************************)
EXTENDS EstopContacts, Sequences

VARIABLE recent

historyVars == <<vars, recent>>

HistoryInit == Init /\ recent = [c \in Contacts |-> <<>>]

Newest(s) == IF Len(s) > SettleSamples THEN Tail(s) ELSE s

HistoryNext ==
    \/ /\ PollContacts
       /\ recent' = [c \in Contacts |-> Newest(Append(recent[c], pins[c]))]
    \/ MovePins /\ UNCHANGED recent

HistorySpec ==
    HistoryInit /\ [][HistoryNext]_historyVars /\ WF_vars(PollContacts)

(* The contact read this level, and nothing else, for the settle period.   *)
ReadOnly(c, level) ==
    /\ Len(recent[c]) = SettleSamples
    /\ \A i \in 1 .. SettleSamples : recent[c][i] = level

(* What each contact reads while the button is out.                        *)
ReleasedLevel == [c \in Contacts |-> IF c = "nc" THEN "low" ELSE "high"]

(* A contact that has read off its released level for a whole settle       *)
(* period has stopped the rig, however the other contact bounces.          *)
StopsInTime ==
    \A c \in Contacts :
        Len(recent[c]) = SettleSamples
          /\ (\A i \in 1 .. SettleSamples : recent[c][i] # ReleasedLevel[c])
        => estop

(* What is published, and above all a release, was read steadily on both   *)
(* contacts for a settle period: the moment on every press and release     *)
(* where both contacts are open is no cable fault (face.rs:198-203).       *)
DecidedOnQuietSamples ==
    [][word' # word \/ (estop /\ ~estop')
         => \A c \in Contacts : ReadOnly(c, contact[c].level)']_historyVars

=============================================================================
