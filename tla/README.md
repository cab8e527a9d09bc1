# The claw rig in TLA+

A model of the software of the Tensegrity Open Claw rig: the *brain*, a Rust
process on a Raspberry Pi that plays a light show to DMX fixtures and lets a
lighting console take them over; the *stem* and the memory Pi beside it, which
report on themselves and record what everyone reports; and the scripts that keep
the 4G uplink up and put new software on the boards. Paths below are relative to
the repository's `src/` directory here; line numbers are those of the commit
modelled.

Contents: the [inventory](#inventory) of the system, [what could go
wrong](#what-is-hard) in it, the [modules](#modules), the [runs](#runs), their
[bounds](#bounds) and [fairness](#fairness-and-scheduling), the
[proofs](#proofs), the [disagreements found](#where-code-and-comments-disagree),
[what is left out](#what-is-left-out) and the [plan](#plan).

## Inventory

### The brain

One process (`brain/src/main.rs`, `cortex/src/lib.rs`), started and restarted by
systemd (`brain/brain.service`, `Restart=always`). A panic in any thread aborts
it (`panic = "abort"`). Threads: the executor, which runs the frame loop, the
face and the calendar as cooperative tasks; the sACN receiver; the telemetry
client; the signal thread. They meet in *latest-value* slots (one mutex, the value
copied in and out whole), one atomic flag, and one bounded queue.

| component | state | operations | what makes it correct |
|---|---|---|---|
| Frame loop and rig state machine (`cortex/src/orchestrator.rs`) | the rig state (boot hold, running, e-stop with or without a frame, shutdown), the last frame sent, the stream's CID and sequence number | a frame every 25 ms: fill, arbitrate, decide, publish, multicast, HAT; the terminate burst and the exit | one buffer on every output; silent until it has a frame of its own; a stop beats show and console and holds the frame that went out; a shutdown always hands back and nothing follows it |
| E-stop mask (`cortex/src/estop.rs`) | none; the table comes from the patch | `held` | overridden channels at their stop value, all others where they were |
| Face: e-stop contacts (`brain/src/face.rs`) | two debounced contacts, a quiet counter, the published decision and word | poll every 10 ms: sample, then change, quiet or bounce | a contact off its level stops the rig in time; only a settled pair releases it; a moving pair is never taken for a cable fault; a pair at rest is decided |
| Face: buttons (`brain/src/face.rs`) | two debounced buttons, two press counters, the chord's hold counter and its count | same poll | each press counted once, one chord per hold |
| Face: lamps (`brain/src/face.rs`) | PWM channels | follow two slots of the last frame | output only |
| Show director (`brain/src/show.rs`, `face_show.rs`) | test mode and its deadline, the counters last seen, the current show | `fill` once per frame, `next`, `enter`, `set_testing` | no chord missed or counted twice; test mode always ends; the show follows the calendar |
| Calendar (`cortex/src/calendar.rs`) | whether the clock is synchronised | `current`, `announce`, `sync_task` | before the clock is synchronised nothing of the calendar is believed |
| sACN receive stage (`cortex/src/sacn_in.rs`) | a table of up to four consoles (priority, last heard, last sequence), the published takeover snapshot | a wake per packet or read timeout: sweep, filter, release or observe, publish; rebind with backoff | the highest priority drives and ties are stable; stale frames are never shown; a dead, deaf or quiet source lets go of the rig |
| sACN send stage (`cortex/src/sacn_out.rs`) | none beyond the frame loop's | `encode`, `encode_release`, `send_multicast` | sequence and terminate flag as receivers expect |
| Telemetry client (`cortex/src/telemetry.rs`) | a queue of 64 messages, the retained values, one broker session | `publish` (drops the newest when full), session, replay on connect, pings, farewell | retained topics end up right after an outage; the show never waits for it; the goodbye is said or given up in time |
| MQTT packets (`stem/src/lib.rs`) | a packet buffer | connect, publish, CONNACK | what does not fit is refused whole |
| Clocks, placement, frames (`clock.rs`, `sched.rs`, `dmx.rs`, `latest.rs`) | none | | |
| Patch ingest, at build time (`cortex-build/src/lib.rs`, `cortex/src/qlc_plus.rs`) | none | XML to fixtures, slots, fine channels, the stop table | blocks do not overlap; the stop table names exactly the dangerous channels |
| Calendar build (`cortex-build/src/calendar.rs`) | none | shows to dark stretches | stretches in order, none lost |

How they interact: the face publishes its e-stop and counters, the frame loop
reads them at its own rate; the receiver publishes a takeover, which the frame
loop judges (priority, age) on every frame; the frame loop publishes its frame,
which the lamps follow; all of them hand words to telemetry and never wait for
it; the signal thread sets the shutdown flag, which the frame loop obeys.

### Beside the brain

| component | state | operations | what makes it correct |
|---|---|---|---|
| Python telemetry client (`stem/rig_mqtt.py`) | the replay table, the connection, a stopping flag | publish, subscribe, on_connect on the network thread, goodbye in a signal handler | as telemetry above, over two threads and a signal handler |
| System stats daemons (`stem/stem.py`, `stem/rig_board.py`, `etc-memory-pi/memory.py`) | the last readings | read the board, publish | mostly I/O |
| Recorder (`etc-memory-pi/recorder.py`) | a backlog of lines | subscribe, batch, write, retry, drop a refused batch | nothing is lost below the bound but what the database refuses |
| 4G watchdog (`etc/4g-watchdog.sh`) | failure counters in files, across one-shot runs | check link and tunnel, climb a ladder of repairs | the cheapest repair first; a repair cut short is mended by a later one |
| Deploy (`etc/deploy-lib.sh`, `etc/remote-deploy.sh`) | files on the board | install what changed, restart what depends on it | nothing installed and left unstarted |

## What is hard

`PROJECT.json` lists every hazard at its line, with the properties that cover it.
In short:

* **two tasks at two rates.** The e-stop is a level polled at 100 Hz and read at
  40 Hz. Could a press fall between two frames?
* **contacts that never move together.** Every press passes through a
  combination that reads as a cable fault, and contacts bounce.
* **restarts.** The fixtures keep the last frame when the brain dies. The new
  process knows nothing of it, and may come up with the button pressed.
* **half a frame.** The network has the frame, then the HAT fails and the
  process aborts.
* **a takeover judged from two places.** The receiver's table names a winner, the
  published snapshot names the console in force; the frame loop judges the
  snapshot's age itself. The two can come apart.
* **datagrams** are lost, duplicated and reordered, sequence numbers wrap, and
  consoles restart theirs.
* **saturating and wrapping counters**: the quiet count, the chord's, presses.
* **a reader that compares counters.** The Director tells a chord by a count that
  differs from the one it saw last; two between two frames would cancel out. On
  one frame a chord and test mode's timeout can coincide.
* **a clock that jumps.** The Pi starts on the time it saved, and NTP steps it, in
  the middle of a show if it happens so.
* **retained topics over connections that die.** Packets written into a dead
  connection are gone; the replay on the next one races what is queued; the last
  connection's packets may still be on their way; the broker may forget.
* **the goodbye against the will.** A stop has to be told from a crash by one
  message, which a full queue, a dead connection or a second's backoff can hold up.
* **two Python threads and a signal handler** over one dict and one connection.
* **one workspace, two builds, four views of a channel's address**: the patch
  table, an instance's paths, the stop table and a firmware's offsets.
* **clock changes** between a show's local times, its dusk and its dawn.

## Modules

| module | models | lines of it |
|---|---|---|
| `Debounce` | one debounced input: `Input::new`, `Input::poll` | `face.rs` 101-110, 324-351 |
| `EstopContacts` | the e-stop half of `input_task` and `claim` | `face.rs` 113-128, 143-228, 297-304 |
| `FaceButtons` | its button half, `Chord::observe` | `face.rs` 79-98, 229-262, 354-356 |
| `Show` | the Director: `Show::fill`, `next`, `enter`, `set_testing`; the face's two lamps | `show.rs` 58-130, `face_show.rs` 9-13 |
| `Calendar` | the brain's calendar: `current`, `remaining`, `announce`, `sync_task`, and the Pi's clock | `cortex/src/calendar.rs` 56-136 |
| `Door` | composes `FaceButtons`, `Show` and `Calendar` at their rates | `main.rs` 28-45 |
| `Frames` | a frame, blackout, `estop::held` | `dmx.rs`, `estop.rs` |
| `StopContract` | abstract: what the fixtures are promised | `orchestrator.rs` 14-30 |
| `FrameLoop` | `frame_task`, `RigState::next`, the send stage's sequence, the signal thread, restarts | `orchestrator.rs` 46-222, `sacn_out.rs`, `lib.rs` 190-209 |
| `Brain` | face and frame loop on one executor, over the lives of the process | `main.rs`, `lib.rs` 211-221 |
| `SacnSequence` | `in_sequence`: a u8 difference read as an i8 | `sacn_in.rs` 68-73, 216-224 |
| `SacnPacket` | what `encode` writes, and what `parse_header` and `slots_of` make of a datagram | `sacn_out.rs` 8-116, `sacn_in.rs` 60-67, 233-313 |
| `SacnIn` | the receive stage, consoles, network and time | `sacn_in.rs` 79-231, 322-456 |
| `LastValue` | abstract: what retained topics promise | `telemetry.rs` 195-199 |
| `Telemetry` | publishers, queue, the thread's sessions, the farewell; a broker | `telemetry.rs` 40-356, `orchestrator.rs` 178-203 |
| `MqttPacket` | CONNECT, PUBLISH and the remaining length | `stem/src/lib.rs` 90-218 |
| `RigMqtt` | the Python client: three threads of control; paho and a broker | `rig_mqtt.py` 115-243 |
| `Definitions` | channels, groups, bands, fine pairs, fields, stop values | `cortex-build/src/lib.rs` 523-978 |
| `Patch` | the rows and types a build refuses, and what it generates | `cortex-build/src/lib.rs` 263-522, 829-1608, `cortex/src/lib.rs` 79-92 |
| `ShowTable` | the city, local times, the order of shows, dark stretches | `cortex-build/src/calendar.rs` 60-177 |
| `Build` | `ingest`, `calendar` and `addressing` as build scripts that stop at the first fault | `cortex-build/src/lib.rs` 13-262, 1205, `calendar.rs` 39-88 |
| `EstopContactsProofs`, `FrameLoopProofs`, `BrainProofs`, `SacnInProofs`, `DoorProofs`, `TelemetryProofs`, `RigMqttProofs`, `BuildProofs` | theorems | |
| `MCEstopContacts`, `MCDoor`, `MCBrain`, `MCSacnIn`, `MCTelemetry`, `MCRigMqtt` | the same with history variables for TLC, and their properties | |
| `MCFrameLoop`, `MCBuild` | values for the constants | |

A definition whose name extends another's, under a comment that calls it a mutant
(`PollChangeWaits` beside `PollChange`), is that definition with a plausible
mistake in it. No specification uses it; putting it in the original's place must
break the property `PROJECT.json` pairs it with.

### How state and actions correspond to the code

**EstopContacts.** `contact` holds the two `Input`s (`level`, `count`), `quiet`
the local counter of `input_task`, `estop` and `word` the fields of `FaceState`
the frame loop and the broker see. A poll is one action in three disjuncts, the
three branches of the `if`: `PollChange` (a contact settled at a new level: the
rig stops now, the wait starts over), `PollQuiet` (both read their levels; on the
poll that completes the settle period the pair is decided), `PollBounce` (one
reads off its level without settling). Every disjunct samples both contacts, as
the code does before it branches. `MovePins` lets the two pins do anything at
any time, so every bounce, weld, cut and press is a behaviour.

**FaceButtons.** `Poll` samples, counts the presses that settle, then observes
the chord with the settled levels, in that order. `held` saturates like the
`u16`, the counters wrap like the `u32`s.

**FrameLoop.** A frame is one action since the loop has no `await` between its
tick and the next. Its disjuncts are the ways out of the `match`: `FrameOut`
(with a HAT that works, or one whose error panics after the multicast), and
`FrameSilent` (a stop before any frame), and `FrameShutdown`. `Decided` is
`RigState::next` together with the match arm that keeps the frame. The terminate
burst is one action per packet, so that a death can fall between two of them.
`rig.frame` is the frame the state carries (`Estop(Some(..))`) or, running, the
loop's `last`. `Die` is any death anywhere, and `Restart` systemd's answer, with
a new CID; `network` and `wire`, which belong to the world, survive it.

**Brain** instantiates `EstopContacts` and `FrameLoop` with its own variables and
adds `polls`, how often the face has polled since the last frame.

**SacnIn.** `sources` is the `SourceTable` as a function from console to entry,
`takeover` the published snapshot, and a timestamp is its age in ticks, capped at
the timeout, which is all `expire` and `in_force` ask of it. Each handler sweeps
first (`Expired`), then: `HearTerminate`, `HearStraggler`, `HearLevels`, and
`WakeForNothing` for a read timeout or a packet one of the filters drops. `Fail`
is any error that ends `receive`: the table goes, `Takeover::idle` is published.
The consoles (`desk`) and the network (`net`) are external: a console sends,
changes its priority, is switched on (where it left off or afresh) and unplugged;
the network loses, duplicates, and lets up to `ReorderDepth` later packets
overtake. Which datagrams are packets to `SacnIn` at all is `SacnPacket`'s
`ParseHeader`.

**Door.** `PlayFrame` is the frame's `fill`: it hands the count the last poll
published, and whether a show is on at the wall clock, to `Show`'s `Fill`, which is
`fill` whole: the chord or the timeout (`TestMode`), the state this frame is in
(`NextState`), its frame count, the lamps' levels and what is told. Test mode is
held as the frames since it began, since the monotonic clock moves one frame a
frame; the lamp's sine is a triangle of the same ends and middle. `Calendar` keeps
the true time and how far the wall clock is behind it. Time, NTP and fingers move
between any two steps. The executor lets several polls pass between two frames
(`PollsPerFrame`). A restart is another initial state: it keeps nothing.

**Telemetry.** Values of a topic are numbered as they are published. `Publish` is
`Publisher::send` with its `try_send`; `Stop`, `Ask` and `Exit` are
`Farewell::say`, with its wait for room and its wait for the thread. The thread:
`Connect` is a session up to its first command (CONNACK, `connected`, the replay),
`ConnectFails` every way it does not get there, `PumpPublish`, `PumpFarewell` and
`Tick` the three arms of its loop, a read timeout being what lets it ping. Any
write may go into a connection whose other end is gone (`path`): it succeeds
until the socket is full or the end is known. `Fall` is the error that ends a
session, with its backoff. `FarewellLost` keeps a thread that took the farewell and
failed from trying again: the process has exited half a second after asking, the
thread sleeps a second first. The broker (external) reads in order, holds the
will, takes a connection of the same client over, restarts empty.

**RigMqtt.** The daemon's thread and paho's interleave at every access to what
they share: the table and the publish of `_publish` are two steps (`Keep`, `Send`),
the list and the request of `subscribe` two (`AddSubscription`, `AskSubscription`),
`on_connect` is one step for each entry taken and each one sent, then the
subscriptions. `Signal` runs on top of whatever the daemon's thread was doing and
drops it, since the handler never returns; it marks the client closed, `SayGoodbye`
publishes, `Hangup` ends the wait with the DISCONNECT, `Exit` ends the process. A
second signal (`SignalAgain`) runs the handler on top of itself: `close` finds the
mark and returns, and the process leaves at once with any part of what paho had yet
to write. paho's own calls are atomic here, so a handler that re-enters its locks is
not seen. A table that changed size under the
walk raises (`ReplayRaises`), and an exception in a callback ends paho's thread.

**Build.** A workspace is a record: the E1.31 output, rows of the patch, definition
files, a place and shows. Each action is one turn of a loop of the build script, or
one function that checks the whole; it either goes on or ends the build with one of
the complaints that apply, since a panic is how a build refuses. Both builds run over the
same input, the rig's first. A name that becomes an identifier is the sequence of
its words, handed in as a constant (`IdentOf`, `TypeNameOf`, `FieldOf`), so that two
spellings of one identifier are an input like any other. A preset is its attribute and
the rest of its name, and `Irises` lists the rests with which it "starts with
ShutterIris". The code's two stable sorts by
key, a mode's channels by Number and rows by address, are `Sorted`: the n-th is the one
with n - 1 before it. Three assumptions say what parsing has made of the files, by the
types of the code's structs: `InputsAssumption` (rows, bands in a `u8`, channels),
`DefinitionsAssumption` (an absent attribute is no number and no string) and
`VerdictAssumption` (nor is it one of the complaints). Numbers do not wrap: that is the
code's own arithmetic as long as a row's address and channel count add up to less than
2^32, and QLC+ numbers 512 slots.

## Runs

Each line is a question put to TLC; the counts are distinct states.

| run | question | answer |
|---|---|---|
| `estop_contacts` | Whatever the contacts do: is the rig only let run on settled, released contacts (`NeverRunsUnlessReleased`), do the tellings of the e-stop agree between changes (`DecidedAgrees`), has a contact that was off its level for a settle period stopped the rig (`StopsInTime`), does every decision and every release rest on a settle period of steady samples of both (`DecidedOnQuietSamples`), and are contacts left alone decided (`StillContactsAreDecided`)? | yes, 6 032 states |
| `door` | Buttons, Director and calendar together: is every press counted once and every chord made, and does no frame see two (`NoneLostNoneTwice`), does a hold make one chord however long it lasts (`OneChordPerHold`), does test mode change on chords and its timeout alone, each taking effect once (`ChordsAndTimeoutsOnly`), is what plays right from the frame after the clock jumped (`PlaysByTheClock`), and does the table as announced never miss a show still to come (`NothingToComeIsMissing`)? | yes, 2 256 904 |
| `frame_loop` | Over two lives with every frame, stop, signal, HAT failure and death: one buffer on all outputs (`OneBuffer`), silence before the first frame (`SilentUntilAFrame`), a stream that moves on by one packet at a time and ends in a whole terminate burst before an orderly exit (`StreamIsWhole`), a shutdown that is obeyed (`AskedEnds`), and is it an implementation of `StopContract` (`KeepsTheContract`)? | yes, 1 573 |
| `brain` | Face and frame loop together, over two lives: no live frame but on released contacts (`LiveOnlyReleased`), contacts left alone are obeyed (`LoopFollowsTheContacts`), no press too short for a frame to see (`EveryStopIsSeen`)? | yes, 403 920 |
| `sacn_table` | Two consoles, ties and different priorities, losses, duplicates, restarts of either side: does no listed console outrank the one in force (`NobodyOutranksTheDriver`), and does a receiver that does not listen let go (`DeafReceiverHandsBack`)? | yes, 746 752 |
| `sacn_full_table` | With room for one source and two consoles: does the table keep to its bound (in `TypeOK`), and does the console that stays on air get the rig (`TheConsoleOnAirDrives`)? | yes, 100 480 |
| `sacn_reorder` | One console over a network that reorders by two, across the wrap and restarts: are a listed console's packets acted on in order, each once (`NoOlderFrame`)? Its module's `RestartIsHeard` is an assumption TLC evaluates at the code's own 256 and 20: a console that starts over at any number is heard within 20 packets. So is `PacketReadsBack`: what the send stage encodes the receive stage reads back, on its own universe only. | yes, 98 702 |
| `sacn_clean_stop` | Does a clean stop from the console in force hand the rig back at once, as the comment says (`CleanStopHandsBack`)? | no, see below |
| `telemetry` | With a queue of two, dead connections, failed connects, broker restarts, kills and stops at any point: does no topic ever go back to an older value (`NeverOlder`, the refinement of `LastValue`), is the tree right in the end (`TreeCatchesUp`), does a goodbye come after everything queued before it (`GoodbyeComesLast`) and stand against the will (`GoodbyeHolds`), is a death told (`DeathIsTold`), is a good connection never given up (`NoFalseAlarm`)? Its `ASSUME`s put bounded inputs to `MqttPacket`: the remaining length reads back (`RemainingReadsBack`), a PUBLISH is whole or refused (`PublishIsWhole`), and so is a CONNECT (`ConnectIsWhole`). | yes, 356 964 |
| `rig_mqtt` | The Python client with one lost connection, refusal or broker restart: does a connection have every subscription however `subscribe` raced it (`NoSubscriptionMissed`), does a stop end (`SignalEnds`), is a calm one told, and how much of it when a second signal cuts it short (`CalmStopIsTold`), does the tree keep catching up though a replay can overtake a newer value (`TreeCatchesUp`)? | yes, 632 396 |
| `rig_always_usable` | Does the network thread outlive every connect, as the docstring says (`AlwaysUsable`)? | no, see below |
| `build` | Over 4 797 small inputs: does each build refuse exactly what is wrong with the whole of its input (`VerdictIsRight`), do all views of a channel's address agree, fine halves and names that stand twice included (`OneAddressing`), does the stop table leave nothing lit, strobing or turning, and nothing else moved (`StopIsHarmless`), are dark stretches the dark (`DarkIsDark`)? | yes, 71 312 |

The face's runs are judged against the raw samples kept by the history variables
of `MCEstopContacts` and `MCDoor`, not against the debouncers' own counters;
`NoOlderFrame` against the order in which the packets were sent; `build` against
the whole input, where the code checks rows and shows one after the other. What a
stop should hold (`AtRest`) and which channels lack a band for it (`NoBand`) are said
of a channel's bands alone, apart from `StopOverride`; the defects in groups, fields
and type names are put in the operators the builds themselves use.

Deadlock is not checked where the system really stops: `frame_loop` and `brain`,
whose last life ends and is not followed by another (`MaxLives`), `telemetry` and
`rig_mqtt`, whose process exits, `build`, which ends. In `door` time ends at
`Horizon`; fingers keep moving, so it does not stop, and nothing is lost by leaving
the check out there.

### Bounds

* `SettleSamples` is the code's 3. `QuietCap` stands for the `u8`'s 255, and
  `HeldCap` for the `u16`'s 65535: the code compares the counters only with 3 and
  200, so what matters is that the cap is beyond the comparison and that
  saturation is reached, and in every run it is. `ChordSamples` is 4 for 200,
  `CounterMod` 3 for 2^32: every counter wraps within a run.
* `PollsPerFrame` is 5. The periods, 10 and 25 ms, give 3. Five is the largest
  value for which `EveryStopIsSeen` holds: a stop takes a settle period for the
  contact to settle back and one for the decision, so one the brain starts up
  with can end on the sixth poll, and with six polls between two frames it goes
  unseen. The code's margin is two polls, a frame at nearly twice its period.
* `frame_loop`: two channels, one of them overridden by the stop, and two values
  each, so that a masked frame differs from the one it masks. Two lives show
  every step from one process to the next. `ReleaseFrames` is the code's 3,
  `SequenceMod` 4 so that it wraps inside one life.
* `sacn_table`: two consoles are enough for every pair the arbitration compares;
  with two priorities, one at the brain's own, a console can be above, level with
  and below the other, and above the brain or not. `Timeout` 2 ticks: an entry can be fresh,
  old and gone. Sequence numbers are reduced to 0 and 1 there, a packet and its
  duplicate, since `sacn_reorder` is about them: modulo 8 with a window of 3,
  reordering by 2, first number 7 so that the wrap is crossed at once.
* A console sends at most once in a tick, and at most `NetCap` packets are in
  flight: what the code sees is one packet after another, and a packet older
  than the reorder depth is the same as a lost one. That a straggler lags less
  than the window (2 < 3 here, 20 in the code) is what the code's own constant
  assumes. A console does not start afresh while packets of its former stream are
  in flight: with 20 numbers between them no receiver could tell them apart.
* `door`: `SettleSamples` 2, `ChordSamples` 3 and `HeldCap` 4 keep the code's order
  (a chord is longer than a settle period, the cap beyond the chord), `CounterMod`
  2 makes the counters wrap at once and would hide two chords on one frame, which is
  what `NoneLostNoneTwice` excludes. Two polls at most pass between frames, fewer
  than a chord takes (`PollsAssumption`). Test mode lasts 3 frames, so a chord can
  fall on its last one. One show in a horizon of 2, a clock up to 1 behind: before,
  during and after the show on either clock.
* `telemetry`: one topic that fits and one that does not, two values, a queue of two
  (it fills, and the goodbye waits), three faults (two connections in a row die, and
  a broker restart between), a socket of four packets (a replay and a goodbye fit,
  and it fills), a backoff of up to 2.
* `rig_mqtt`: a statistic with two values and a fact, so a replay can overtake a
  newer value and the table can grow under a walk. `MaxFaults` 1 gives two
  connections. `QueueRoom` 1 keeps a new statistic waiting while packets are
  queued, which bounds the wire and slows the daemon to what the link carries.
* `build`: a universe of 6 slots, patches of up to three rows in every order of their
  IDs, modes of the channels defined, two of them a second coarse and fine pair of the
  same preset and two of them irises, and of one not defined: every mode of
  one or two channels, most of three, and the orders of two coarse channels among
  their fine ones; broken rows, files, outputs and places each on an otherwise good input,
  shows on four days of six hours with summer time from hour 9 to 20, one dawn late
  and one day without dusk. `Irises` are QLC+'s three iris presets. 512 slots and 24 hours change no comparison.

### Fairness and scheduling

* The face polls and the frame loop ticks on embassy tickers of one executor;
  neither task blocks between its awaits but for the HAT's write, which is bounded
  by the wire. So both have weak fairness, and between two frames the face polls
  a bounded number of times. A ticker that is late catches up, which is why the
  bound on polls is taken above the nominal ratio.
* The terminate burst and the exit are straight-line code: weak fairness.
* Signals, deaths, restarts, pins and fingers have no fairness. `AskedEnds` and
  `LoopFollowsTheContacts` hold whether or not they ever happen.
* In `SacnIn` time passes and the receiver's read timeout fires (weak fairness of
  `Tick` and of a wake for nothing). A console on air keeps sending and the
  network delivers one of its packets now and then (strong fairness of `Send` and
  `Deliver`), which only `TheConsoleOnAirDrives` uses, and only for a console that
  stays on air. Rebinding has none: the property asks only about a
  receiver that listens in the end.
* In `Telemetry` the thread connects, takes what is queued and pings (weak fairness
  of `Connect`, `Pump`, `Tick`): it is a thread of its own that blocks only with
  timeouts. A broker that can be reached reads what arrives and counts keepalives
  (weak fairness of `Deliver`, `Will`). Faults, stops and kills have none, and
  nothing makes a path that died heal: the pings have to notice.
* In `RigMqtt` each thread has weak fairness as a whole, one step after another.
  `Keep` of every topic has strong fairness: a daemon publishes its statistics
  every round, so each one gets its turn though `QueueRoom` now and then keeps it
  waiting. The daemon's waits have timeouts. Broker as above.
* `door` and `build` state no fairness, and only safety.

## Proofs

TLAPS checks these for every value of the constants that meets the modules'
assumptions: any settle period above zero, any patch and stop mask, any number of
lives, any finite set of consoles with any priorities, any table size, timeout,
reorder depth, any topics, queue and number of faults, any workspace, fixture
definitions and table of shows. `Spec`
and `HistorySpec` are those the runs check.

| module | theorem | says |
|---|---|---|
| `EstopContactsProofs` | `TypeCorrect` | `TypeOK` |
| | `RunsOnlyReleased` | `NeverRunsUnlessReleased` |
| | `QuietIsDecided` | `DecidedAgrees` |
| | `StopsInTimeAlways` | `StopsInTime`, against the raw samples |
| | `DecidedOnQuietSamplesAlways` | `DecidedOnQuietSamples`, against the raw samples |
| `FrameLoopProofs` | `TypeCorrect` | `TypeOK` |
| | `OneBufferAlways` | `OneBuffer` |
| | `SilentAlways` | `SilentUntilAFrame` |
| | `ContractKept` | `KeepsTheContract`: every step is one of `StopContract`'s or a stutter |
| | `StreamIsWholeAlways` | `StreamIsWhole` |
| `BrainProofs` | `LoopRunsHere` | the frame loop on the executor is `FrameLoop`'s: what is proved of it alone holds there |
| | `LiveOnlyReleasedAlways` | `LiveOnlyReleased` |
| | `EveryStopIsSeenAlways` | `EveryStopIsSeen`, if `PollsPerFrame < 2 * SettleSamples` |
| `SacnInProofs` | `TypeCorrect` | `TypeOK`, the bound on the table included |
| | `DriverIsOnTop` | `NobodyOutranksTheDriver` |
| | `DeafReceiverLetsGo` | `DeafReceiverHandsBack` |
| | `RestartIsHeardAlways` | the module's `RestartIsHeard`, for every modulus above 2 and every window |
| | `NoOlderFrameAlways` | `NoOlderFrame`, if the network overtakes by less than the window and by no more than half a round |
| `DoorProofs` | `TypeOKDoorAlways` | `TypeOKDoor` |
| | `NoneLostNoneTwiceAlways` | `NoneLostNoneTwice` |
| | `OneChordPerHoldAlways` | `OneChordPerHold` |
| | `NothingToComeIsMissingAlways` | `NothingToComeIsMissing` |
| | `PlaysByTheClockAlways` | `PlaysByTheClock` |
| | `ChordsAndTimeoutsOnlyAlways` | `ChordsAndTimeoutsOnly` |
| `TelemetryProofs` | `GoodbyeComesLastAlways` | `GoodbyeComesLast` |
| | `NeverOlderAlways` | `NeverOlder`: every step is one of `LastValue`'s or a stutter |
| | `GoodbyeHoldsAlways` | `GoodbyeHolds` |
| | `NoFalseAlarmAlways` | `NoFalseAlarm` |
| `RigMqttProofs` | `NoSubscriptionMissedAlways` | `NoSubscriptionMissed` |
| | `CalmStopIsToldAlways` | `CalmStopIsTold` |
| `BuildProofs` | `DarkIsDarkAlways` | `DarkIsDark` |
| | `BuildInvariant` | `BuildInv`, the inductive invariant of both builds |
| | `VerdictIsRightAlways` | `VerdictIsRight` |
| | `OneAddressingAlways` | `OneAddressing` |
| | `StopIsHarmlessAlways` | `StopIsHarmless` |

The arguments. Every invariant named below was checked by TLC on the module's run
before it was proved.

* *Contacts.* `TypeOK`, `NeverRunsUnlessReleased` and `DecidedAgrees` are
  inductive together: the quiet count reaches the settle period only on the poll
  that decides (the cap beyond it keeps a saturated count from deciding again),
  and a change, the only thing that moves a level, restarts the count and stops
  the rig. A poll that is no change leaves `Settled` as it was. What is said of the
  raw samples needs `HInv`: the settled level is among the last samples
  (`LevelWasRead`), and as many of the newest as the quiet count says were read at
  it (`WaitIsQuiet`).
* *Frame loop.* The inductive invariant adds to `OneBuffer` and
  `SilentUntilAFrame` which rig states carry a frame (`RigShape`: running does;
  boot hold and shutdown do not) and that no packet is from a life still to come
  (`PastPackets`), without which a restarted process could find itself already
  sent. `ContractKept` maps the process to the fixtures' view (`Mode`, `wire`);
  `OneBuffer` is what makes a stop's frame the mask over what the wire was sent.
  `StreamIsWhole` rests on where a live process is: its number is one past its last
  packet's (`NumberedOn`), and a burst begun is what was last heard (`BurstIsLast`).
* *Executor.* `Brain`'s face is an instance of `EstopContacts`, so the invariant
  proved of the contacts alone is used, with the samples' history left out, and
  a restart re-establishes it. `LiveOnlyReleased` adds what the loop's own state
  says of the e-stop it was handed. For `EveryStopIsSeen` the invariant counts: a
  stop not yet seen began at most as many polls ago as have passed since the
  last frame, and takes a settle period for a contact to come back and another to
  be decided. `FrameLoop`'s theorems carry over by `LoopRunsHere`.
* *Receive stage.* That no listed console outranks the one in force is not
  inductive as it stands: a console in force that raises its priority must be
  known to win. The invariant (`OnTop`) adds that the table never holds the
  console in force above the priority it drives at. Below is possible, and is
  what the first disagreement below is about. `NoOlderFrame` rests on `InOrder`: a
  packet's number lies as far behind its console's next one as the packet lags,
  and a listed number as far as its console has sent since. A packet no newer than
  the listed one then differs by less than the window, the other way round the
  circle by more than half of it, and is left (`StragglerIsLeft`).
* *Door.* Two halves that do not meddle. The calendar's and the Director's
  (`World`) are inductive as they stand. The buttons' (`HInv`) says of every counter
  what it stands for in the raw samples (`CountsItsSamples`), that while both pins
  read down each button is down or as far on its way as the pins have been
  (`DownIsOnItsWay`), that a chord owed is a recent one, and that a count past the
  chord's length belongs to a hold that has had its chord (`SpentIsHeld`).
* *Telemetry.* A topic's values pass the queue, what is retained, the wire and the
  broker. `Stages` says that each stage holds values no older than the next one's,
  in the order of publishing; `NothingLost` that what a stage lacks of a topic is in the
  sequence that leads to it, for the broker as long as a session lasts. A goodbye is
  the last thing queued, so nothing is missing behind it. The refinement of
  `LastValue` follows, action by action. `NoFalseAlarm` is about the ping in flight
  (`PingIsOnWire`): while the path carries packets an unanswered ping is on the wire
  or its answer waits.
* *Python client.* `NoSubscriptionMissed` is inductive with the types: whichever of
  the two threads comes second, list or request, asks. For `CalmStopIsTold` the
  invariant (`Calm`) says what lies on the wire: from the signal on, this connection
  and no other; once the goodbye is said, no other word of the daemon's health behind
  it; once the daemon has hung up, the DISCONNECT last. What a second signal leaves is a
  prefix of that (`Cut`): it holds the DISCONNECT only if it is whole, and without one
  the will speaks.
* *Calendar build.* Every show resolved spans two instants of the table with a
  twilight on each of its evenings (`SoundShows`). An instant's dark belongs to its
  own date's evening or the one before, which is why `dark_stretches` starts a day
  early. `SkyAssumption` is what the argument asks of the zone and the sun: no clock
  change turns a date back, no dusk before its date begins, no dawn after it ends.
* *Patch build.* Nothing is said of the generated tables until it is known what they
  were made of, so the argument has two halves.
  One is about data alone. A workspace without defects in rows, files and fixtures
  (`Flawless`) ends as one patch, `Final`, whose rows are sound (`FinalIsSound`): they
  lie in the universe, do not overlap, and have each channel in one field, as a head or
  as a fine half (`FieldsCover`, from `FinePartners`: a coarse channel is folded into
  nothing). From that follow the paths and the instance (`PathsReach`), that a
  firmware's fields are the heads and the fine halves of the rig's, at its offsets
  (`FirmwareAgrees`), hence `OneAddressing`, and that the
  stop asks one value of a slot (`SlotsApart`, `AskedOnce`), at which the channel rests
  and which is missing only where the definition has no band for it
  (`OverrideOf`), hence `StopIsHarmless`.
  The other is about the loops. `BuildInv` says what has been read so far: rows that
  are sound one by one and apart in ID and name (`RowsRead`), files (`FilesRead`), rows
  resolved or still waiting (`RowsResolved`), shows in order (`ShowsRead`). A complaint
  about a row, file or show among those before it is then a defect of the whole input,
  and at the end of each loop nothing is left to complain of. Here the code compares
  neighbours only: of rows in address order (`PatchJudged`, over `SortedOf`: `Sorted` is
  an order, each number once) and of shows in the table's (`ShowJudged`), and in either
  order one that reaches past its next is what any overlap comes to. A firmware's build
  starts over, so the invariant keeps what the rig's has made apart from what is being
  read (`Made`).
  One part of the model was wrong and the proof found it: `FixtureComplaints` let a row
  of no channels be refused as past the end of the universe, which is no defect of an
  empty span, where the code asks for channels first (`lib.rs` 1119-1135). The guard is there
  now, and such a row is among the run's inputs.
* The refinements and the invariants need no fairness.

Only model-checked: every liveness property (`StillContactsAreDecided`,
`AskedEnds`, `LoopFollowsTheContacts`, `TheConsoleOnAirDrives`, `DeathIsTold`,
`SignalEnds`, both `TreeCatchesUp`), which is outside the prover's reach, and
the `ASSUME`s on packets, which are about operators over bounded inputs. Every
invariant and action property the passing runs check is a theorem.

## Where code and comments disagree

* **A clean stop that hands nothing back** (`sacn_clean_stop`). The comment
  at `cortex/src/sacn_in.rs:415-416`: "A clean stop from the source being obeyed
  hands the rig back at once instead of waiting out the timeout". The code asks
  whether the source is the *table's winner*. A console in force that lowers its
  priority below another listed one stops being the winner on that very packet, so
  nothing is published and the snapshot keeps its last frame at the old
  priority; lines 441-445 say of this case that it hands back "on the next
  frame". Its terminate frame is then not the winner's either. The frame stays in
  force until the other console's next packet or the data-loss timeout.
* **A table that grows under the walk** (`rig_always_usable`). The docstring at
  `stem/rig_mqtt.py:109-110`: "Always usable, even with no broker: publishing then
  does nothing until it connects, and the retained topics are replayed then."
  `on_connect` iterates over `self.retained.items()` on paho's thread (line 169)
  while `_publish` inserts into it on the daemon's (line 225). A topic published
  for the first time during the walk, which is what a daemon does right after
  `connect()`, changes the dict's size, the iteration raises `RuntimeError`, and
  the network thread ends. The daemon runs on and is not heard again.

Read in the source while modelling, and without a run of their own:

* *A stop undone by a straggler.* `sacn_in.rs:69-71` says a packet behind the last
  by less than the window is discarded. A terminate frame drops the entry with
  its last number (line 421), so a frame sent before it that arrives after it is
  an unknown source's first, and takes the rig until the timeout.
* *A goodbye dropped while reconnecting.* `rig_mqtt.py:229-241` publishes the
  goodbye into paho; without a socket it is dropped, and when the broker has not
  yet noticed that the old connection is gone it says `connected` until it does.
  `CalmStopIsTold` is therefore about a stop while connected.
* *A second signal.* `rig_mqtt.py:196-197`: "Nothing is lost by leaving abruptly: the
  goodbye above has already been published and waited for". A second SIGTERM or SIGINT
  during the wait runs the handler again, `close` returns at 230-231 since the first
  has set `closed`, and `os._exit` leaves with no DISCONNECT and perhaps with the
  goodbye unwritten: an orderly stop that the will calls a crash. `CalmStopIsTold` says
  of it what is left: the goodbye or the will stands.
* *The newest is what a full queue drops.* `telemetry.rs:72-74` holds that "the
  newest reading is worth more than the backlog behind it", and `try_send` drops the
  newest; a retained one is not sent again until its next change.
  `TreeCatchesUp` and `GoodbyeComesLast` are about what the queue accepted.
* *Builds that do not refuse alike.* `cortex-build/src/lib.rs:244-254` says both
  builds refuse the same workspaces. `addressing` names no types and looks for no
  stop bands, so it accepts a workspace the rig's build refuses for those; in
  `Defects` they are the rig's alone.
* *Two fine channels of one preset.* In a mode that repeats a coarse channel with
  its fine one, `pair_fine_channels` (774-785) pairs the first coarse channel with
  the last fine one; the other two become fields of their own. Where the two fine
  channels are Pan's and Pan 2's, `addressing` then gives a firmware two fields called
  `pan_fine`, though `lib.rs:75` has them "named as the rig's generated struct names
  it", and the struct has one. `Agree` says that only a fine half's name can stand twice.
* *One type, two makers.* A type is named for model and mode (829-872); two
  manufacturers with one model name and one mode name share it, where line 1417
  takes "every instance of a type" to come "from the same model and mode".

## What is left out

* Of modelled components: byte offsets of datagrams (their fields are modelled,
  and what a reader makes of each), PINGREQ and DISCONNECT, which are constant,
  logging, the reading of XML and the layout of the generated source, the constants
  for bands and speeds and the colour traits among it, keywords and leading digits
  in field names. The gazetteer, the zone, the sun, paho and brokers are libraries
  and programs of others: constants, or external actions as the code uses
  them. The levels in a console's packets are not followed through `SacnIn`;
  `FrameLoop` takes any frame from a console or the show, `Show` has the lamps'.
* *Face: lamps*, *thread placement*: one read and one system call each, with no
  state of their own.
* *System stats daemons*: loops that read the board and publish; what they ask of
  telemetry is `RigMqtt`'s daemon thread.
* *Recorder*, *4G watchdog*, *deploy*: a Python daemon and two shell scripts beside
  the brain, each sequential. Their hazards are listed without a property; they come
  after the proofs about the brain.

## Plan

In order of what matters most to the rig; items 1 to 7 are done.

1. *Done.* `Debounce`, `EstopContacts`, `FaceButtons`: the face.
2. *Done.* `Frames`, `StopContract`, `FrameLoop`, `Brain`: the rig state machine,
   its contract, the composition with the face.
3. *Done.* `SacnSequence`, `SacnPacket`, `SacnIn`: taking the rig over.
4. *Done.* `Show`, `Calendar`, `Door`: the Director over buttons and calendar.
5. *Done.* `LastValue`, `Telemetry`, `MqttPacket`, `RigMqtt`: what the rig tells.
6. *Done.* `Definitions`, `Patch`, `ShowTable`, `Build`: what it is built from.
7. *Done.* Proofs of every invariant and action property, and of the refinements of
   `StopContract` and `LastValue`.
8. `Recorder` (backlog, refused batches, unanswered writes), `Watchdog` (the ladder
   across one-shot runs), `Deploy`.
9. The takeover composed into `Brain`: a stop beats a console end to end.
