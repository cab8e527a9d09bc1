--------------------------- MODULE EstopContacts ----------------------------
(***************************************************************************)
(* The e-stop side of the face (brain/src/face.rs): two contacts, normally *)
(* closed (nc) and normally open (no), that must always disagree, debounced*)
(* one by one and decided together.                                        *)
(*                                                                         *)
(* One Poll is one pass of input_task's loop over the contacts.  It takes  *)
(* one of three branches, an action each.  The pins are the world's and    *)
(* move at any moment between two polls; a bounce, a slow contact, an      *)
(* unplugged cable are all pin movements.                                  *)
(***************************************************************************)
EXTENDS Debounce

CONSTANT QuietCap   \* where the u8 estop_quiet saturates, 255 in the code

ASSUME QuietCapAssumption == QuietCap \in Nat /\ QuietCap > SettleSamples

VARIABLES
    pins,      \* what each contact's pin reads right now
    contact,   \* each contact's debounced Input
    quiet,     \* estop_quiet: polls since neither contact read off its level
    estop,     \* FaceState.estop: whether the rig must be stopped
    word       \* the last value published on face/estop

contactVars == <<contact, quiet, estop, word>>
vars == <<pins, contact, quiet, estop, word>>

Contacts == {"nc", "no"}

Word == {"released", "pressed", "cable_fault", "contact_fault"}

(* EstopContacts::read: what the two levels say together.                  *)
Reads(nc, no) ==
    CASE nc = "low"  /\ no = "high" -> "released"
      [] nc = "high" /\ no = "low"  -> "pressed"
      [] nc = "high" /\ no = "high" -> "cable_fault"
      [] nc = "low"  /\ no = "low"  -> "contact_fault"

Settled(inputs) == Reads(inputs["nc"].level, inputs["no"].level)

(* claim: both contacts read once, undebounced, and decided.               *)
Init ==
    /\ pins \in [Contacts -> Level]
    /\ contact = [c \in Contacts |-> NewInput(pins[c])]
    /\ quiet = SettleSamples
    /\ word = Settled(contact)
    /\ estop = (word # "released")

-----------------------------------------------------------------------------

(* Both contacts are sampled on every poll.                                *)
SampleContacts == contact' = [c \in Contacts |-> Polled(contact[c], pins[c])]

Changed == \E c \in Contacts : Settles(contact[c], pins[c])

AllAtLevel == \A c \in Contacts : pins[c] = contact[c].level

(* Mutants of PollChange: only the decision stops; a change releases too;  *)
(* the wait for the decision is not started.                               *)
PollChangeWaits ==
    /\ Changed
    /\ SampleContacts
    /\ quiet' = 0
    /\ UNCHANGED <<estop, word>>

PollChangeReleases ==
    /\ Changed
    /\ SampleContacts
    /\ estop' = (Settled(contact') # "released")
    /\ quiet' = 0
    /\ UNCHANGED word

PollChangeStaysQuiet ==
    /\ Changed
    /\ SampleContacts
    /\ estop' = (estop \/ Settled(contact') # "released")
    /\ UNCHANGED <<quiet, word>>

(* A contact settles a new level: towards stop at once, never out of it.   *)
PollChange ==
    /\ Changed
    /\ SampleContacts
    /\ estop' = (estop \/ Settled(contact') # "released")
    /\ quiet' = 0
    /\ UNCHANGED word

(* Mutant of PollQuiet: the count does not saturate.                       *)
PollQuietOverflows ==
    /\ AllAtLevel
    /\ SampleContacts
    /\ quiet' = quiet + 1
    /\ IF quiet' = SettleSamples
         THEN /\ word' = Settled(contact')
              /\ estop' = (word' # "released")
         ELSE UNCHANGED <<estop, word>>

(* Both contacts read their settled levels: one more quiet poll, and the   *)
(* decision on the one that completes the settle period.                   *)
PollQuiet ==
    /\ AllAtLevel
    /\ SampleContacts
    /\ quiet' = IF quiet < QuietCap THEN quiet + 1 ELSE quiet
    /\ IF quiet' = SettleSamples
         THEN /\ word' = Settled(contact')
              /\ estop' = (word' # "released")
         ELSE UNCHANGED <<estop, word>>

(* Mutants of PollBounce: a bounce counts as quiet; it leaves the wait be. *)
PollBounceCounts ==
    /\ ~Changed
    /\ ~AllAtLevel
    /\ SampleContacts
    /\ quiet' = IF quiet < QuietCap THEN quiet + 1 ELSE quiet
    /\ UNCHANGED <<estop, word>>

PollBounceIgnored ==
    /\ ~Changed
    /\ ~AllAtLevel
    /\ SampleContacts
    /\ UNCHANGED <<quiet, estop, word>>

(* A contact reads off its level without settling: a wait still running    *)
(* starts over.                                                            *)
PollBounce ==
    /\ ~Changed
    /\ ~AllAtLevel
    /\ SampleContacts
    /\ quiet' = IF quiet < SettleSamples THEN 0 ELSE quiet
    /\ UNCHANGED <<estop, word>>

Poll == PollChange \/ PollQuiet \/ PollBounce

PollContacts == Poll /\ UNCHANGED pins

MovePins ==
    /\ pins' \in [Contacts -> Level]
    /\ UNCHANGED contactVars

Next == PollContacts \/ MovePins

(* The face polls on a ticker of the frame loop's own executor, so polls   *)
(* keep coming; nothing is assumed of the pins.                            *)
Spec == Init /\ [][Next]_vars /\ WF_vars(PollContacts)

-----------------------------------------------------------------------------

TypeOK ==
    /\ pins \in [Contacts -> Level]
    /\ contact \in [Contacts -> Input]
    /\ quiet \in 0 .. QuietCap
    /\ estop \in BOOLEAN
    /\ word \in Word

(* The rig is only let run while the settled contacts say released: a      *)
(* press, a cut cable or a welded contact is never read as run             *)
(* (face.rs:212-216, "only the decision can release").                     *)
NeverRunsUnlessReleased == ~estop => Settled(contact) = "released"

(* Between changes the three tellings of the e-stop agree: what the        *)
(* contacts say, what the frame loop is told, and what the broker is told. *)
DecidedAgrees ==
    quiet >= SettleSamples =>
        /\ word = Settled(contact)
        /\ estop = (word # "released")

(* Contacts left alone are decided for what they are, whatever went before *)
(* (no bounce leaves the wait for the decision stuck): the rig runs again  *)
(* after a release, and the broker is told the truth.                      *)
StillContactsAreDecided ==
    \A p \in [Contacts -> Level] :
        <>[](pins = p) =>
            <>[](/\ word = Reads(p["nc"], p["no"])
                 /\ estop = (word # "released"))

=============================================================================
