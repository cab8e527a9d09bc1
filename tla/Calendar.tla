------------------------------ MODULE Calendar ------------------------------
(***************************************************************************)
(* The running brain's calendar (cortex/src/calendar.rs): a table of shows *)
(* resolved at build time, compared with the wall clock.  The Pi has no    *)
(* clock of its own: after a restart it carries on from a time it saved,   *)
(* which is behind, until NTP steps it.                                    *)
(***************************************************************************)
EXTENDS Naturals, FiniteSets

CONSTANTS
    Shows,      \* the table: records [start, stop] of instants
    Horizon,    \* bound: instants are 0 .. Horizon
    MaxBehind   \* bound: how far behind a restored clock is

ASSUME CalendarAssumption ==
    /\ Horizon \in Nat /\ MaxBehind \in Nat
    /\ IsFiniteSet(Shows)
    /\ \A s \in Shows : s.start \in Nat /\ s.stop \in Nat /\ s.start < s.stop

VARIABLES
    truth,         \* the time it is
    behind,        \* how far the wall clock is behind it
    synchronised,  \* what the kernel holds of its clock
    announced      \* the table as last printed: the flag and the shows to come

calendarVars == <<truth, behind, synchronised, announced>>

(* calendar::now: the wall clock as the brain reads it.                    *)
Now == IF behind > truth THEN 0 ELSE truth - behind

(* From start, up to but not including stop.                               *)
Contains(span, t) == span.start <= t /\ t < span.stop

(* Calendar::current: whether a show plays at t.                           *)
Current(t) == \E s \in Shows : Contains(s, t)

(* Mutant of Remaining: the shows that have not begun.                     *)
RemainingUnbegun(t) == {s \in Shows : t < s.start}

(* The shows that have not yet ended at t.                                 *)
Remaining(t) == {s \in Shows : t < s.stop}

(* Calendar::announce, with the flag it prints.                            *)
Announcement(flag) == [synchronised |-> flag, shows |-> Remaining(Now)]

(* The Pi starts, at any time, on the clock it saved.                      *)
CalendarInit ==
    /\ truth \in 0 .. Horizon
    /\ behind \in 0 .. MaxBehind
    /\ synchronised = FALSE
    /\ announced = Announcement(FALSE)

(* One tick of sync_task: print again when the flag has changed.           *)
SyncTask ==
    /\ announced' = IF synchronised # announced.synchronised
                      THEN Announcement(synchronised)
                      ELSE announced
    /\ UNCHANGED <<truth, behind, synchronised>>

TimePasses ==
    /\ truth < Horizon
    /\ truth' = truth + 1
    /\ UNCHANGED <<behind, synchronised, announced>>

(* timesyncd reaches a server, and the wall clock jumps.                   *)
NtpSteps ==
    /\ behind' = 0
    /\ synchronised' = TRUE
    /\ UNCHANGED <<truth, announced>>

(* It loses its server for long enough.                                    *)
NtpLapses ==
    /\ synchronised' = FALSE
    /\ UNCHANGED <<truth, behind, announced>>

CalendarTypeOK ==
    /\ truth \in 0 .. Horizon
    /\ behind \in 0 .. MaxBehind
    /\ synchronised \in BOOLEAN
    /\ announced \in [synchronised : BOOLEAN, shows : SUBSET Shows]

(* Behind is the safe direction (calendar.rs:5-9): whatever the clock was  *)
(* when the table was printed, it lists every show still to come or on.    *)
NothingToComeIsMissing ==
    \A s \in Shows : truth < s.stop => s \in announced.shows

=============================================================================
