# A verification development for the IPIMB IOC

This directory holds TLA+ modules that model the IOC for IPIMB boards
(`src/ipimbLib`), TLC configurations that check them on small instances, and
proofs checked by TLAPS. An IPIMB is an intensity and position monitor board
with four diode channels. It sits on a serial line, is programmed through
registers, and sends one data frame per beam event.

File names below are relative to `src/ipimbLib/src` unless they start with
`Db/`, which means `src/ipimbLib/Db`.

## 1. The system

### Threads

| thread | code | runs |
|---|---|---|
| reader, one per board | `ipimbSyncObject` (`ipimbsync.cc`) under the poll loop of the timesync module | reads frames byte by byte, decodes them into a ring, publishes events and register answers |
| configurer, one per board | `IpimBoard::do_configure` (`IpimBoard.cc:401`) | waits for a setting, then programs the board register by register |
| callback threads of EPICS | `ipimbConfigCallback` (`devIpimb.cpp:235`) | looks once a second whether the configuration is over |
| scan threads of EPICS | `read_ai`, the record chains in `Db/` | take events out of the ring and compute with them |
| clients (channel access, PINI, operators) | writes to records | start configurations, switch triggers, process records by hand |

### Components, state, operations, and what makes them correct

1. **Configuration handshake.** State: the setting and its generation
   (`newconfig`, `config_gen`, `conf_in_progress`), the locals of the
   configurer, `config_ok`, the record WaitConfig with its timer, and the table
   of triggers with `use_cnt` and the saved enable values, shared by the boards.
   Operations: `ipimbConfigureByName`, `SetTrigger`, `configure`, the loop of
   `do_configure`, `read_bi`, `ipimbConfigCallback`, `RestoreTrigger`.
   Correct when no request is lost, `config_ok` is about the newest setting,
   WaitConfig finishes, and the trigger gets the operator's value back. Hard
   because three threads meet on `mutex`, `trigger_mutex` and the lock sets of
   EPICS, in different orders.
2. **Event pipeline.** State: the rings `_data` and `ts` with the counters
   `dwr` and `drd`, the queue of scan requests, the records CHn_RAW to YPOS.
   Operations: `Acquire`, `sendData`, `getData`, `nextData`, and the chains of
   records. Correct when every event is delivered once, in order, as a sample
   of one event with its own time. Hard because the ring has no lock and no
   check for overflow, and the end of an event is a count kept in records.
3. **Configuration sequence.** State: the registers and `config_ok`.
   Operations: the setters that `do_configure` calls. Correct when `config_ok`
   means a completely programmed board and is cleared for a cause only. Hard
   because of limits, rounding, types of links, writes that nobody acknowledges
   and reads that give up.
4. **Register protocol.** State: the ring of answers `_cmd` with `cwr` and
   `crd`, the locals of `ReadRegister`, what is on the line in both directions,
   the registers of the board. Operations: `ReadRegister` with its flush, five
   tries of a second and repeats, `WriteRegister`, `SendCommandResponse`.
   Correct when the value returned is one the register had during the read, and
   every read returns. Hard because late and repeated answers are told apart by
   address only, because the reader decodes into the ring without the mutex, and
   because a signal that comes while nobody waits is lost.
5. **Serial framing.** State: the bytes on the line, `rdbuf`, the slot decoded
   into. Operation: `Acquire`, which looks for a start of frame, reads a frame
   of known length, decodes it, and starts over when a flag or the CRC is wrong.
   Correct when it hands on whole frames only, and finds them again after
   trouble. Hard because a lost byte makes it swallow part of the next frame.
6. **Codec.** Packing of words, commands, answers, the CRC, and `adjustdata`
   with its saturation and polarity. Sequential and pure, and full of edges.
7. **bigsel record.** `bigselRecord.c`, a select record of which two per channel
   pick base and scale by the gain. State: the fields of the record, what
   autosave keeps. Operations: initialisation, processing, operator writes,
   save and restart. Correct when a record that is not INVALID shows what its
   links select, alarms and monitors follow it, and base and scale are of one
   gain. Hard because of links that break, hysteresis and deadbands kept in
   fields, and restarts.
8. **Device list and startup.** State: the list of devices, how far each board
   is constructed, `start_mutex`, the records. Operations: `ipimbAdd`,
   `ipimbTprAdd`, `iocInit`, `ipimbStart`, lookup by name and tty. Correct when
   a board found in the list is complete and no event is lost. Hard because
   the constructor starts threads, and the shell takes commands in any order.
9. **Data message.** `ipimbSetPv` copies the event remembered by channel 0 and
   the setting into the beam line data message, at a fixed point of the record
   chain.
10. **Not built here:** the position fex (`LusiDiagFex.cc`) and the DAQ event
    builder (`DAQ/`). **No behaviour:** screens, archiver and autosave lists.

### How they interact

A client writes a setting record. Its forward links end in the aSub Configure,
which calls `ipimbConfigureByName` (1), and then in WaitConfig, which stays
active until the callback finds the configuration over. `configure()` wakes the
configurer, which runs the sequence (3). Every setter uses the register protocol
(4), whose answers come from the reader (5, 6). The first board on a trigger
turns the trigger's enable PV off, and the callback of the last one restores
it, so the pipeline (2) has no events in between. The pipeline's reader is the
same thread. Its events go through the records to SUM, XPOS, YPOS and the
message (9), which also carries the setting that (1) stored in `ipmConfig`.
Between RAW and SUM every channel is computed with the base and scale that (7)
selected for its gain, the gain being one of the settings. Startup (8) makes the
boards with their two threads, and holds the readers back until `ipimbStart`.

Where two components meet, one side's abstract promise is the other's
assumption: `RegisterIO` takes the line as `FrameLine` promises it, losing
frames but not damaging them, and `SerialFraming` is shown to implement
`FrameLine`. `ConfigSequence` takes a read as `RegisterPort` promises it, a
value or `BAD_VALUE`, and `RegisterIO` implements `RegisterPort`.

## 2. The modules

| module | what it is |
|---|---|
| `ConfigMailbox` | abstract: what `configure` and `do_configure` promise, a mailbox of depth one |
| `ConfigHandshake` | component 1 |
| `MCConfigHandshake` | its instances: boards that share a trigger or have one each on one EVR, clients that wait for WaitConfig and one that does not |
| `ConfigHandshakeProofs` | its theorems |
| `EventStream` | abstract: what the data path promises, a stream of samples |
| `EventPipeline` | component 2 |
| `EventPipelineProofs` | its theorems |
| `ConfigSequence` | component 3 |
| `MCConfigSequence` | its settings: each field at each of its limits |
| `ConfigSequenceProofs` | its theorems |
| `Codec` | component 6, pure operators on words and bytes as sets of bits |
| `FrameLine` | abstract: what the line under `Acquire` promises |
| `SerialFraming` | component 5 |
| `MCSerialFraming` | its line: an event, five answers, an event |
| `SerialFramingProofs` | the theorems of `Codec` and of `SerialFraming` |
| `RegisterPort` | abstract: what `ReadRegister` and `WriteRegister` promise |
| `RegisterIO` | component 4 |
| `RegisterIOProofs` | its theorems |
| `Bigsel` | component 7: record support as functions from record to record |
| `BigselRecord`, `MCBigselRecord` | one record amid links and a client; its limits |
| `BigselRecordProofs` | the theorems of the record and of `Bigsel` |
| `ChannelGain`, `MCChannelGain` | base and scale of a channel, with autosave and restart; its values |
| `ChannelGainProofs` | its theorems |
| `Startup` | component 8 |
| `StartupProofs` | its theorems |

`PROJECT.json` gives the source lines of every definition, the runs, for every
property a plausible bug that the run catches (the operators commented "Mutant"),
the findings, the hazards and the theorems.

### ConfigHandshake

The variables carry the names of the code. `put[b]` says where the client of
board b is between taking the lock set of Configure and leaving WaitConfig, and
`cfg[b]` and `callback` do the same for the configurer and the callback thread.
Who holds a mutex follows from these positions: `MutexHeld(b)` is
`IpimBoard::mutex`, `TrigMutexHeld` is `trigger_mutex`, and `ScanLocked(t)` is
the lock set of the EVR that t is a field of. One lock set covers an EVR, with
all its triggers, and all the boards on any of them: Configure links to the
trigger's enable PV, and the enable PVs of an EVR are the fields DG0E, DG1E, ...
of one record (`Db/ipimb.substitutions:13`). A critical section that cannot block is one action. One that takes another lock
inside is cut there: `Configure`/`BorrowTrigger` and
`CallbackCheck`/`RestoreTrigger`/`PutBack`.

The register traffic is one action with three outcomes: all written, board not
answering, setting rejected. That is sound for the handshake, because the
configurer reads nothing the others write while it is at it, and
`ConfigSequence` opens that step.

`read_bi` delivers no result. It takes the WaitConfig record, a bi, for an ai
record, so that `config_ok` is stored where an ai record has RVAL, and returns
2, which means that nothing is converted (`devIpimb.cpp:287`,
`devIpimbReg.c:34`). What WaitConfig tells a client is that it has finished, and
that is what `FinishedIsApplied` is about.

History: `written` is the setting whose register writes all went out, `wanted`
what the operator last wrote to a trigger, and `missed` the triggers of boards
whose configuration was over before WaitConfig looked. In that case the record
finishes at once and nobody restores the trigger. `TriggerLent` speaks of the
other triggers, `TriggerRestored` of all.

`scenario` says how the clients of a behaviour behave and how many requests each
board gets. With `Polite`, clients start no configuration while WaitConfig is
active, and operators leave a trigger alone while a board on it configures,
which is what WaitConfig is there for. Without, they do as they like. One run
checks both; `LatestApplied`, `NoLostWakeup`, `Watched` and
`ImplementsMailbox` hold for either, the other properties name `Polite`.

### EventPipeline

An event is its number, and data, times and messages are the number of the
event they come from, so a mixture is visible. `reader` is where the reader
thread is. Decoding into the ring (`GetBuffer(0)`) happens in place before the
event is published, and the two stores of `ts[dwr++] = t` may take effect in
either order (`SendStampFirst`, `SendAdvance`). The scan thread processes the
RAW records one after the other. Each chain runs under its lock set (`holder`)
in two steps: read, then count and pass on. The reader is not kept out by that
lock. DONE_CNT is the set `done`, and the chain that completes it advances
`drd` and makes the sample. An operator may process a RAW record by hand. From
then on samples may mix events, which is what `disturbed` of `EventStream`
admits; still no event comes out that was not published.

The code does not limit how far the reader is ahead. `MaxPending` and `MaxLost`
state the assumption the ring needs: fewer than eight scan requests are
outstanding or dropped (`PipelineAssumption`). At 120 events a second that is
65 ms of delay of the scan thread.

### ConfigSequence

One action per setter in the order of `do_configure`, `ReadCalibration` and
`WriteCalibration` being the two halves of `SetCalibrationMode`. `board` is the
registers: a nibble per channel, a number, or the pair of times of `reset`.
`Start` takes the setting records through the links of Configure, whose types
cut values off. Any register write may be lost and any read may give up,
`MaxTrouble` times in all, and the board starts out with its registers
all zero or all ones.
Voltages are in tenths of a volt and computed exactly. The code uses floats,
which over all those values differ by one step at a single one (195.7 V).
Registers that only count or report are left out.

### Codec and SerialFraming

Words and bytes are sets of bits, so that the XOR terms of `CRC()` and the
shifts of the packing are sets, and numbers appear in `adjustdata` only. The
bytes of a behaviour are chosen at the start: all frames of the instance, with
one fault at any place (a bit flipped, bytes of a frame lost, noise read as a
byte). `Hunt`, `ReadRest`, `Decode` and `Deliver` are the stages of one round of
`Acquire`. `ReadRest` is one `read()`, which returns what it likes up to what was
asked for. `Decode` writes into the slot before the CRC is known, as the code
does. `delivered` lists the frames handed on by their number in what was sent,
with 0 for what is none of them.

### RegisterIO

`caller` is where the configurer is in `ReadRegister`. It holds the mutex in
"try", and the timed wait lets go of it. The reader decodes an answer into the
slot of `cwr` without the mutex (`DecodeAnswer`), and publishes it with the mutex
(`SendCommandResponse`), waking a caller only if it waits. A timeout is early
when something is still on its way. Early timeouts and spurious wakeups are
bounded together by `MaxTrouble`. Frames may be lost without bound, and `lost`
counts them up to `MaxLost` for `GivesUpForCause`. Both counts, `trouble` and
`lost`, start over when a read begins with nothing on its way and nothing unread
(`Quiet`), so they are about what can still matter and not about the lifetime of
the IOC. Nothing keeps the reader from overrunning the ring: it does so in the
run, once `trouble` has reached the size of the ring, and goes on then.
`UnreadForCause` says that it takes as much. `RingFits`, the time before, is the
condition of `ImplementsPort` and `GivesUpForCause`. A damaged answer may leave
garbage in its slot. `may` and `doubtful` are history: the values this read may
return, and those that answers to repeated requests may still carry.

### Bigsel, BigselRecord and ChannelGain

The functions of `bigselRecord.c` keep their names and order. A value is a whole
number or NaN, and the limits, in the order they are tested, and the severity
`UDFS` are a constant. `init_record` gives SELN the constant of NVL, if there is
one.
`BigselRecord` processes one record in any of the four mechanisms, lets links
give a value, NaN or nothing, and keeps what a watching client was told.
`ChannelGain` puts two records in a chain under the gain. They share a lock set,
so a chain is one step. Autosave keeps A to O, SELN, VAL and the gain.

### Startup

The shell is one thread. It may give the commands in any order, or several
boards of one name or on one port. `ipimbAdd` is cut where a reader thread may
run in between: construction of `IpimBoard`, `scanIoInit`, and the list. `Taken`
says which typed argument becomes which parameter, which is by position and
differs between the two commands. `orderly`, `early` and `late` are history: the
commands came in the order the code is made for, the readers were started before
iocInit, and boards added after `ipimbStart`.

## 3. What is checked

Every run ends with the state space exhausted. `CHECK_DEADLOCK FALSE` stands where
the bounds stop the clients or the events, and then the system rests. The two
runs of the select record never rest and are checked for deadlock.

| run | instance | shows |
|---|---|---|
| `handshake` | 2 boards on 1 trigger, polite, 2 and 1 requests; and 1 board, 3 requests, impolite; 2 settings, fair (315,000 states) | `LatestApplied`: `config_ok` with nothing in progress means the newest setting was sent. `NoLostWakeup`, `Watched`: no request waits with nobody about to look at it. `ImplementsMailbox`: refinement. `UseCountExact`: `use_cnt` is the number of boards counted in. `TriggerLent`: a trigger is off while a board on it is being configured, and has the operator's value again afterwards, unless WaitConfig had nothing to wait for. `FinishedIsApplied`: when WaitConfig has finished, the board is at rest, and holds the setting the message carries or has `config_ok` cleared. `WaitConfigCompletes`: WaitConfig finishes, but for the deadlock of `finish_deadlock` |
| `event_pipeline` | 2 channels, 9 events, 6 requests outstanding, 1 dropped, 2 records by hand, fair (506,000) | `NoOverrun`: the records never pass the reader, nor the reader the records. `ImplementsStream`: the data path implements `EventStream`. `BacklogExact`: one event in the ring per unfinished or dropped request. `Drained`: the records get to the last event, but for at most as many as requests were dropped |
| `config_sequence` | 2 passes, settings at the limits, 2 lost writes or failed reads (897,000) | `OkMeansProgrammed`: a pass that ends with `config_ok`, without lost writes, programmed every register as the setting says. `RejectedForCause`: no setting out of its limits and no old or silent board ends with `config_ok`, and below gain 14 nothing else is rejected |
| `serial_framing` | 7 frames, all single faults, reads of up to 5 or 48 bytes, 3 polarities (295,000) | `ImplementsFrameLine`: whole frames, in order, once, with the documented samples. `FoundAgain`: one fault costs at most four frames, not counting an event that it is in. `CrcIsPolynomial`: the XOR terms are x16 + x12 + x5 + 1 (see section 4) |
| `register_io` | 2 registers, 2 values, 2 reads, 1 write, ring of 3, 3 early timeouts or wakeups, fair (1,017,000) | `UnreadForCause`: when the reader decodes, every unread answer has an early timeout or wakeup to blame. `ImplementsPort`: a read returns a value of its register. `GivesUpForCause`: a cause for each try before giving up. `EveryReadReturns` |
| `bigsel_record` | 3 inputs, values 1 to 4, 4 mechanisms (35,000) | `OnlyTheTruthIsValid`: a record that is not INVALID shows the selection of what its links give. `NoFlapping`: hysteresis. `ClientIsCurrent`: deadbands and posts |
| `channel_gain` | 3 gains of which the records know 2, 4 values entered (71,000) | `CalibratedForGain`: base and scale are those of the gain, or INVALID. `OfOneGain`: never of two gains. `SurvivesRestart` |
| `startup` | 2 boards, 2 ports, both commands (11,000) | `ListedIsComplete`, `OrderlyBoot`, `LostForCause`, and with fair threads `ReadersRun` |

The bounds are small, and enough for the following reasons.

- *Handshake:* three requests on one board are one being applied, one waiting,
  and one that replaces it. Two boards on a trigger are the first in and the last
  out, and the second request of one of them borrows the trigger again. Boards
  on two triggers of an EVR meet in its lock set, in `finish_deadlock`. The
  proofs are for any boards, triggers and EVRs.
- *Pipeline:* nine events are more than a turn of the ring of eight, with up to
  six outstanding and one more lost. Two records by hand are a full set of two
  channels, which delivers an event of its own. Two channels tell "all" from
  "some", and the proofs are for any number.
- *Sequence:* two passes show what a register of an earlier setting does to a
  later one. The settings put each field at both sides of each limit of the
  setters, and at the ends of its record's range.
- *Framing:* an event is as long as four answers, so five answers between two
  events are more than one false start of an event can swallow. The four
  channels are above, below, equal to, and at the two ends of their presamples.
  A run of four lost bytes is more than a word.
- *Registers:* the second read sees the answers that the first one left behind,
  of its own register and of the other. Three early timeouts fill a ring of three,
  so that the run goes beyond the last slot that is safe. The code has a ring of
  eight, and the proofs are for any.
- *Select record:* three inputs are the least with a middle one and with an
  input before the last to break; an index of 3 is out of range. The alarm
  limits lie so that the values are on both sides, with hysteresis of one.
- *Channel:* two gains tell right from wrong, the third is unknown to the
  records, as 12 to 14 are in the IOC.
- *Startup:* two boards and ports are enough for every clash, and the proofs
  are for any number.

**Fairness.** `FairSpec` of the handshake has weak fairness of each thread and
of the timers. A thread that can run does run; a mutex here is held for a
bounded time, or for ever only in the deadlock of section 4. Nobody has to
start a configuration. Weak fairness of a thread that waits for a mutex or a
lock set is enough because the clients stop at the bound on their requests, so
that others cannot take it before this thread for ever. In `EventPipeline` the publishing of an event and the scan
thread are weakly fair, while frames need not come or come out right, and
operators need not act. In `RegisterIO` the threads run, timers expire, and what
is on the line arrives or is lost; the board need not answer, so that
`EveryReadReturns` holds for a board that is switched off. In `Startup` the shell
finishes what it has begun and each reader takes `start_mutex` when it is free
for it. Weak fairness is enough because readers pass it once each, and nobody
locks it again.

**Assumptions about what is not here.** Autosave restores after `init_record`
and saves all values at one time. A client of a select record watches from its
first processing (PINI). CHn reads base and scale with NMS links, so that an
INVALID base is seen in its own record only. Scan requests before iocInit is
done are ignored, as EPICS does. The serial line has one fault at a time in
`SerialFraming`. `RegisterIO` has any number of losses, but no damaged frame
with a right CRC.

## 4. Where the code does not do what its comments say

Each has a run that TLC must find violated, and a finding in `PROJECT.json`.

| run | property | what happens |
|---|---|---|
| `finish_deadlock` | `WaitConfigFinishes` | `RestoreTrigger` calls `dbPutField` with both mutexes held; the client of another board, whose trigger is on the same EVR, holds the lock set and waits for `trigger_mutex` |
| `trigger_left_off` | `TriggerRestored` | the configurer is done before the forward link reaches `read_bi`; WaitConfig finishes at once, without the callback that restores the trigger, which stays off though `Db/ipimbALL.tpl-db:280` says that WaitConfig restores it |
| `gain_refused` | `GainAccepted` | gain 14, the last choice of its record, is mapped to 0 and refused, though the message says 0-14 (`IpimBoard.cc:443` and `449`) |
| `delay_truncated` | `DelayAsShown` | a ResetDelay above 65535 ns loses its high word in the link and is then accepted |

The models also contain the following, which the properties above name as
exceptions or which need no run to see.

- `ipimbConfigCallback` unlocks before it processes WaitConfig
  (`devIpimb.cpp:251`). A setting written in between lets the record finish with
  a configuration outstanding, although `Db/ipimbALL.tpl-db:279` says it does
  not. It takes a client that does not wait. `Watched` covers what remains: that
  configuration still has a timer.
- `read_bi` is written for an ai record and registered for a bi
  (`devIpimb.cpp:287`, `devIpimbReg.c:34`): `config_ok` does not reach the
  record.
- The comment in `CRC()` says "CRC 0x0421 (x16 + x12 + x5 + 1)"
  (`IpimBoard.cc:60`). These are two polynomials: 0x0421 is x16 + x10 + x5 + 1,
  and x16 + x12 + x5 + 1 is 0x1021. The code does the latter, for every word and
  every CRC, which is `CrcIsPolynomial` and `TableIsPolynomial`; the number in
  the comment is wrong.
- The ring of answers is overrun after as many early timeouts or spurious
  wakeups as it has slots, without a read that begins with nothing on its way in
  between: the reader then decodes over an answer that `ReadRegister` has yet to
  read. `ImplementsPort` is about the time before.
- After two restores for one borrow, `use_cnt` is negative and the next board
  does not turn its trigger off (`IpimBoard.cc:386` and `724`). `UseCountExact`
  holds with clients that wait for WaitConfig.
- Gains 12 to 14 are above `SEL_MAX`: base and scale stay those of the gain
  before, and go INVALID (`bigselRecord.c:354`). `CalibratedForGain` names them.
- `ipimbAdd` declares nine arguments but takes `args[6]` to `args[9]`
  (`drvIpimbRegister.cpp:75`), which shifts the trigger and all after it.
  `ipimbTprAdd` is right, and `OrderlyBoot` is about it.
- `ipimbStart` before the first board, and iocInit with a board of the database
  missing, crash the IOC. `OrderlyBoot` excludes both.
- LALM starts at 0. A limit of exactly 0 has its hysteresis from the start.

## 5. What is proved

All theorems are for any values of the constants that satisfy the named
assumptions of the modules (`BoardsAssumption`, `PipelineAssumption`,
`SequenceAssumption`, `FramingAssumption`, `RegisterAssumption`,
`BigselAssumption` with `LimitsAssumption` and `RecordAssumption`,
`GainAssumption`, `StartupAssumption`). A theorem that needs more says so in its
statement:

- `IsFiniteSet(Boards)` for `UseCountCorrect`, `TriggerGivenBack` and
  `FinishedMeansApplied`: there are finitely many boards. The three properties
  are about `Polite` clients (see section 2).
- `Tries <= MaxLost` for `GivesUpOnlyForCause`: otherwise the model stops
  counting lost frames before a read may give up for them.
- `Limits.mdel \in Nat` for `ClientKeepsUp`: with a negative MDEL every value is
  posted, and MLST is within no deadband of anything.
- `NumbersEntered`, `NoLimitIsInvalid` for the gain: operators enter numbers, and
  no limit of CHn_BASE or CHn_SCALE is given the severity INVALID, as in
  `Db/ipimbCH.tpl-db`.
- `FramesDiffer` for `FramesInOrder` and `BackInStep`: no two frames of a kind are the same, the
  adjusted channels of an event apart. Of frames that are alike nobody can say
  which one was handed on. Events carry a trigger counter, and TLC evaluates the
  hypothesis for the frames of `serial_framing`. `OnlyFramesSent` does without.

Proofs are hierarchical: one step per action, and one lemma per part of an
invariant.

| theorem | says | rests on |
|---|---|---|
| `ConfigHandshakeProofs!TypeCorrect` | `TypeOK` | itself inductive |
| `NewestApplied`, `WakeUpDelivered` | `LatestApplied`, `NoLostWakeup` | `HandshakeInv`: per board, the generations, what the configurer holds at each step, and when `conf_in_progress` may be FALSE. `LatestApplied` alone does not say that a taken setting is the newest when generations agree, so a step of the configurer could break it |
| `RefinesMailbox` | the handshake implements `ConfigMailbox` | `HandshakeInv` is not needed, `TypeOK` is: each action maps to one step of the mailbox or a stutter |
| `NobodyForgotten` | `Watched` | `WatchInv`: every active record, and every busy board whose client has gone past WaitConfig, has a timer, a queued callback or the callback thread at work on it. `Watched` alone says nothing while the client is still there, which is when the timer is set |
| `UseCountCorrect` | `UseCountExact` for finitely many boards | `PoliteInv`: at most one callback per active record (timer, queue and thread exclude each other), the board is counted in while active, and the saved value is the operator's while the trigger is off |
| `FinishedMeansApplied` | `FinishedIsApplied`, likewise | `FinishedInv`: from `configure` on, the newest request is the setting in the message, and an inactive record whose client is away has a board that is not busy. The rest is `HandshakeInv` |
| `TriggerGivenBack` | `TriggerLent`, likewise | `PoliteInv` and `FinishedInv`: a board at rest whose WaitConfig did look has counted itself out, so `use_cnt` of a trigger that is not in `missed` is 0 when all its boards are at rest |
| `EventPipelineProofs!TypeCorrect` | `TypeOK` | with `ChainInv`, which says who holds the lock set |
| `NeverOverrun` | `NoOverrun`, also with records by hand | `LagBounded`: the lag is at most the requests pending, dropped, about to be made (`Ahead`) and being served (`Owed`) |
| `EventPipelineProofs!BacklogAlwaysExact`, `RefinesStream` | `BacklogExact` and the refinement, with records processed by hand | `LagBounded`, and, until a record is processed by hand, `OrderInv`: the lag is exact, the slots between the counters hold their events and times, and the channels read in this pass show the event of `drd` |
| `ConfigSequenceProofs!TypeCorrect` | registers keep their width | with `SettingInv`, the types of the setting and of the registers |
| `OkBoardIsProgrammed` | `OkMeansProgrammed` | `DoneInv`: each setter that is done did its part of `Programmed`, while the pass may still end well; `OkMeansProgrammed` speaks of the end only |
| `RejectedOnlyForCause` | `RejectedForCause` | `CauseInv`: `config_ok` equals the conjunction of what the setters so far demand, gain 14 being refused among it |
| `SerialFramingProofs!AdjustedAsDocumented` | `adjustdata` is the formula of its comment, for all 16 bit samples, without wrapping | arithmetic, case by case |
| `WordsComeBack` | a word packed into three bytes has the flags `Acquire` looks for and decodes to itself | the bytes spelt out bit by bit |
| `TableIsPolynomial` | the XOR terms of `CRC()` are x16 + x12 + x5 + 1, for every CRC and every word | `RegisterHolds`: a bit of the shift register after n steps is the bit n places below, or one of the steps that fed back 0, 5 or 12 places above it; `FedBack`: a step feeds back what the word and the CRC differ in and what was fed back 4 and 11 steps before. Sixteen such equations, put together, are the sixteen rows of the table |
| `SerialFramingProofs!TypeCorrect`, `TableOnTheLine` | `TypeOK` of the framing, `CrcIsPolynomial` | `FramingInv`: `TypeOK`, one slot for each kind of frame, and a frame being read has its first byte, which fixes its length |
| `CrcFindsDamage` | two frames that pass the CRC check and differ in one word at most are the same | `CrcInjective`: a step of the CRC loses nothing, so two words in one place that differ make two CRCs that stay different (`OneWordTells`) |
| `OnlyFramesSent` | everything handed on was sent, with the documented samples, also when frames are alike | `ReaderInv`, below |
| `FramesInOrder` | `ImplementsFrameLine`, for frames that differ | `ReaderInv`: what is still on the line and what is in `rdbuf` are pieces of one line with one fault, the checks passed so far hold of `rdbuf`, and the newest frame handed on came from before it. `FL!Init` and `FL!Next` speak of `delivered` alone, which says nothing of the bytes a step works on |
| `BackInStep` | `FoundAgain`, for frames that differ | `FoundInv`: `ReaderInv`, and every frame that the fault is not in and that is not in `Doomed` has been handed on once the reader is past its start, and the reader comes to the fault in step (`InStep`). `FoundAgain` alone speaks of the end of the line only |
| `RegisterIOProofs!TypeCorrect` | `TypeOK` | with `TryInv`, what the caller's place says of its locals |
| `RingFillsForCause` | `UnreadForCause`, for a ring of any size | `OwedInv`: of the answers in the ring, on the line or asked for, all but the one of this try are accounted for by an early timeout or wakeup since a read began with nothing on its way |
| `GivesUpOnlyForCause` | `GivesUpForCause` | `CauseInv`: every try of this read, and every answer owed to an earlier read, has a lost frame, a late answer or a spurious wakeup to blame, and none twice, until the ring can be overrun |
| `ReadsImplementPort` | `RegisterIO` implements `RegisterPort` | `PortInv`: what is on the line or in the ring for a register carries a value of `may` or of `doubtful`, and when nothing is doubtful at most one answer is about, until the ring can be overrun |
| `BigselRecordProofs!TypeCorrect`, `ValidIsTrue` | `TypeOK`, `OnlyTheTruthIsValid`, for any number of inputs | `RecordInv`; lemmas that the scan yields the largest or smallest number and its index, and that insertion keeps the order sorted and complete, so that its middle is the documented median |
| `AlarmsDoNotFlap` | `NoFlapping` | `AlarmInv`: LALM holds the level of the limit alarm shown, which is what the hysteresis is measured from |
| `ClientKeepsUp` | `ClientIsCurrent` | `ClientInv`: what the client was told is within a deadband of MLST, and MLST within one of the value |
| `ChannelGainProofs!GainIsCalibrated`, `NeverOfTwoGains`, `CalibrationComesBack` | `CalibratedForGain`, `OfOneGain`, `SurvivesRestart` | `GainInv`: both records hold the input that the gain selects or are INVALID, hold what was entered for each gain, and agree with each other on the gain they were last valid for; the same of what is saved |
| `StartupProofs!TypeCorrect`, `ListComplete`, `LostOnlyForCause`, `OrderlyBootWorks` | `TypeOK`, `ListedIsComplete`, `LostForCause`, `OrderlyBoot` | `StartupInv`: the board being added is new and complete up to where `ipimbAdd` is, a constructed board is in the list or being added, no reader is past `start_mutex` before `ipimbStart`, and what an orderly start has brought about so far. Each property alone says nothing about the board under construction, which is where it could break |

The argument of the framing, which is the longest. Lemma `Accepted` says that a
window of the damaged line which passes the checks of `ReadRest` and `Decode`
starts at a byte that was sent as the start of a frame, and is that frame but
for one word. Beside the fault (`AcceptedBeside`) the window is a piece of what
was sent, and the flags of first, second and third bytes and of the last word
leave only frames. With the fault inside the window, it starts with a frame
(`InsideFrame`); then a flipped bit is in one word (`InsideFlip`), behind a byte
too many only the last byte of the frame may be displaced (`InsideNoise`), and
a frame that has lost bytes does not pass (`InsideCut`). `CrcFindsDamage` then rejects the one word that may be wrong, and
`BitsOfNum` and `HandedOn` say that the samples handed on are the documented
ones. The order follows as a later window starts at a later byte (`OrgGrows`,
`BeforeGrows`), and `OneFrame` tells frames apart.

That the reader is back in step soon is the converse: what lemma `Accepted` says
of windows that pass, `PlaceKept` and `KeptPasses` say of frames. A frame that
the fault is not in lies whole on the line, moved by the bytes lost or added,
and passes every check with the words that were sent. So it is lost only when
the reader is elsewhere while its bytes go by, reading on from what it took for
a start before them. In the bytes sent the flag of the start is found on the
first byte of a frame only, so there is one place where the reader can go wrong:
the damaged byte, the byte nobody sent, or the frame that has lost bytes
(`WrongStart`). `NothingInside` says that a start anywhere else reaches
into no frame but its own. Until the fault the reader is in step (`InStep`), so
a fault behind the first byte of a frame is never taken for a start, and a frame
that has lost bytes takes in as many as it should have had (`Reach`). Any other
wrong start takes in at most the 48 bytes of an event. At most four frames begin
within those, and only three when they begin with an answer (`Spread`,
`DoomedFew`), which with the answer itself makes four.
The other frames are safe: `NothingSkipped` says that no step passes one by, and
at the end of the line none is waiting for more bytes (`AllBehind`).

Functions defined by recursion (the CRC, the shift register, the number of a
word, the flattened bytes, the scan and the sort of the select record) are reasoned about without
induction theorems over operators, which the provers cannot instantiate: lemma
`Induction` says that a set with 0 and every successor contains the naturals,
by its least counterexample (`WFMin`), and lemma `Recursion` that a function with
a given start and step exists. Each recursive definition has an unfolding lemma
resting on these.

**Only model-checked.** Liveness (`WaitConfigCompletes`, `Drained`,
`EveryReadReturns`, `ReadersRun`), which needs fairness and ENABLED; every
invariant, action property and refinement of the passing runs is proved. The violations of section 4 are counterexamples of TLC.

## 6. What is not modelled

- The poll loop of the timesync module and EPICS base are not in this
  repository. Timers, callback queues, lock sets and I/O Intr scans are
  modelled from how this code uses them and are marked external.
- Setters that nothing calls (calibration divider, polarity, voltage and
  strobe, the old gain).
- A board whose link INPR names no trigger indexes `triggers[-1]`, which is
  undefined at once; the templates give every board a trigger.
- Display limits, units and precision of the select record, which nothing here
  depends on. Its CALC_ALARM branch for a mechanism that does not exist.
- The debug commands and the report of the driver, and a serial port that cannot
  be opened, which ends the IOC.
- The layout of the beam line data message, and printing.
- The fex and DAQ files, which are not built, and screens and archiver lists.

## 7. Plan

The order follows what matters most for the experiment: a board programmed as
asked, then events that are whole, then the layers below.

| step | modules | state |
|---|---|---|
| 1 | `ConfigMailbox`, `ConfigHandshake` | done, with proofs |
| 2 | `EventStream`, `EventPipeline` | done, with proofs |
| 3 | `ConfigSequence` | done, with proofs |
| 4 | `RegisterPort`, `RegisterIO` | done, with proofs |
| 5 | `FrameLine`, `SerialFraming` | done, with proofs |
| 6 | `Codec` | done, with proofs |
| 7 | `Bigsel`, `BigselRecord`, `ChannelGain` | done, with proofs |
| 8 | `Startup` | done, with proofs |
| 9 | proofs of `Watched` and `FinishedIsApplied` | done |
| 10 | `ConfigSequence` over `RegisterIO` | open |
| 11, optional | the DAQ event builder | open |
