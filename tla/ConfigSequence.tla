----------------------------- MODULE ConfigSequence -----------------------------
(***************************************************************************)
(* What one pass of do_configure does to the registers of a board: from    *)
(* the setting records, through the links of the Configure aSub and the    *)
(* setters of IpimBoard, to the values written.  Register writes are not   *)
(* acknowledged and may be lost; reads may give up (BAD_VALUE).  A setter  *)
(* that rejects its argument clears config_ok and leaves its register.     *)
(*                                                                         *)
(* Times are in ns, voltages in tenths of a volt.  The registers that only *)
(* count or report (errors, timestamps, serial number, status) are left    *)
(* out: what is read back goes to a copy of the setting that is dropped.   *)
(***************************************************************************)
EXTENDS Integers

CONSTANTS
    Records,        \* what the setting records may hold
    MaxConfigs,     \* bound: passes of do_configure
    MaxTrouble      \* bound: register reads that give up and writes lost

NChannels == 4
Channels == 0 .. (NChannels - 1)
Ranges == 0 .. 14   \* the raw values of ChargeAmpRangeCHn

ASSUME SequenceAssumption ==
    /\ Records \subseteq [range : [Channels -> Ranges], refVoltage : Nat, diodeBias : Nat,
                          acqWindow : Nat, resetDelay : Nat, trigDelay : Nat]
    /\ MaxConfigs \in Nat /\ MaxTrouble \in Nat

CHARGEAMP_REF_MAX == 100
INPUT_BIAS_MAX == 2000
STEPS == 65536
CLOCK_PERIOD == 8
HardCodedPresampleDelay == 150000
HardCodedAdcDelay == 4000
HardCodedTotalPresampleTime == (8 + 2) * HardCodedAdcDelay

UINT16 == 65536

\* Registers of a nibble per channel, of one 16 bit number, and the two times
\* of the acquisition window.
ChannelRegisters == {"rg_config", "cal_rg_config"}
NumberRegisters == {"bias_data", "biasdac_data_config", "trig_delay", "trig_ps_delay",
                    "adc_delay"}
Registers == ChannelRegisters \cup NumberRegisters \cup {"reset"}
Nibbles == [Channels -> 0 .. 15]

BAD_VALUE == "0xfadefade"   \* what a register read returns when it gives up,
BadNibbles == [c \in Channels |-> <<14, 13, 10, 15>>[c + 1]]   \* 0xfade of it
Versions == {"new", "old"}  \* of the firmware; NewVhdlVersion is the one supported

VARIABLES
    step,       \* where do_configure is; "wait" between two passes
    records,    \* the setting records when Configure was processed
    config,     \* the ConfigV2 made of them
    config_ok,
    board,      \* the registers
    version,    \* vhdlVersion, BAD_VALUE before it was read
    firmware,   \* the version of this board
    val,        \* local of SetCalibrationMode
    lost,       \* history: a write of this pass was lost
    configs, trouble    \* counters of the bounds

vars == <<step, records, config, config_ok, board, version, firmware, val, lost, configs, trouble>>
settings == <<records, config, configs, firmware>>

NoSettings ==
    [range |-> [c \in Channels |-> 0], refVoltage |-> 0, diodeBias |-> 0,
     acqWindow |-> 0, resetDelay |-> 0, trigDelay |-> 0]

\* A board of which no register was written, or every bit is set.
Reset(number, nibble) ==
    [r \in Registers |-> IF r \in ChannelRegisters THEN [c \in Channels |-> nibble]
                         ELSE IF r = "reset" THEN <<number, number>> ELSE number]

Init ==
    /\ step = "wait"
    /\ records = NoSettings /\ config = NoSettings
    /\ config_ok = FALSE
    /\ board = Reset(0, 0) \/ board = Reset(STEPS - 1, 15)
    /\ version = BAD_VALUE /\ firmware \in Versions
    /\ val = BadNibbles
    /\ lost = FALSE
    /\ configs = 0 /\ trouble = 0

-----------------------------------------------------------------------------
(* Conversions.                                                            *)

\* The links of Configure: input H is a USHORT, a longer delay loses its high
\* word.
ReadLinks(rec) == [rec EXCEPT !.resetDelay = @ % UINT16]

\* Mutant: the clocks are not rounded up.
ClocksDown(ns) == ns \div CLOCK_PERIOD

\* Mutant: one more clock.
ClocksAbove(ns) == ns \div CLOCK_PERIOD + 1

Clocks(ns) == (ns + CLOCK_PERIOD - 1) \div CLOCK_PERIOD

\* Exact, where the code computes in float: over all tenths of a volt the two
\* differ once, 195.7 V gives one step more.
VoltageSteps(v, max) == (v * (STEPS - 1)) \div max

\* The capacitor of a channel; the board takes 0 for none.
Multiplier(range) == (range + 1) % 15

\* val & 0x7777.
CalibrationCleared(nibbles) == [c \in Channels |-> nibbles[c] % 8]

-----------------------------------------------------------------------------
(* Register traffic.                                                       *)

Go(from, to) == step = from /\ step' = to

Trouble == trouble < MaxTrouble /\ trouble' = trouble + 1

WriteRegister(r, v) ==
    \/ board' = [board EXCEPT ![r] = v] /\ UNCHANGED <<lost, trouble>>
    \/ Trouble /\ lost' = TRUE /\ UNCHANGED board

\* A setter writes its register, or rejects what it is given.
Set(r, v, valid) ==
    \/ valid /\ WriteRegister(r, v) /\ UNCHANGED config_ok
    \/ ~valid /\ config_ok' = FALSE /\ UNCHANGED <<board, lost, trouble>>

-----------------------------------------------------------------------------
(* One pass of do_configure, setter by setter.                             *)

Start(rec) ==
    /\ Go("wait", "version")
    /\ configs < MaxConfigs
    /\ configs' = configs + 1
    /\ records' = rec
    /\ config' = ReadLinks(rec)
    /\ config_ok' = TRUE
    /\ version' = BAD_VALUE
    /\ lost' = FALSE
    /\ UNCHANGED <<board, firmware, val, trouble>>

\* Without an answer the pass ends here.
ReadVersion ==
    /\ \/ Go("version", "calibration") /\ version' = firmware /\ UNCHANGED <<config_ok, trouble>>
       \/ Go("version", "wait") /\ Trouble /\ config_ok' = FALSE /\ UNCHANGED version
    /\ UNCHANGED <<settings, board, val, lost>>

\* SetCalibrationMode reads the register without looking for BAD_VALUE ...
ReadCalibration ==
    /\ Go("calibration", "calibrate")
    /\ \/ val' = board["cal_rg_config"] /\ UNCHANGED trouble
       \/ val' = BadNibbles /\ Trouble
    /\ UNCHANGED <<settings, config_ok, board, version, lost>>

\* ... and writes it back without the calibration bits.
WriteCalibration ==
    /\ Go("calibrate", "ampref")
    /\ WriteRegister("cal_rg_config", CalibrationCleared(val))
    /\ UNCHANGED <<settings, config_ok, version, val>>

\* Mutant: the setter goes on after it rejected its argument.
SetChargeAmplifierRefAnyway ==
    /\ Go("ampref", "gain")
    /\ WriteRegister("bias_data", VoltageSteps(config.refVoltage, CHARGEAMP_REF_MAX))
    /\ config_ok' = (config_ok /\ VoltageSteps(config.refVoltage, CHARGEAMP_REF_MAX) < STEPS)
    /\ UNCHANGED <<settings, version, val>>

SetChargeAmplifierRef ==
    /\ Go("ampref", "gain")
    /\ LET i == VoltageSteps(config.refVoltage, CHARGEAMP_REF_MAX)
       IN  Set("bias_data", i, i < STEPS)
    /\ UNCHANGED <<settings, version, val>>

\* The version and the gain are checked, the gain is written in any case.
SetChargeAmplifierMultiplier ==
    /\ Go("gain", "bias")
    /\ LET mult == [c \in Channels |-> Multiplier(config.range[c])]
       IN  /\ WriteRegister("rg_config", mult)
           /\ config_ok' = (config_ok /\ version = "new" /\ \A c \in Channels : mult[c] # 0)
    /\ UNCHANGED <<settings, version, val>>

\* The old value is read only to decide on a pause.
SetInputBias ==
    /\ Go("bias", "window")
    /\ LET i == VoltageSteps(config.diodeBias, INPUT_BIAS_MAX)
       IN  Set("biasdac_data_config", i, i < STEPS)
    /\ UNCHANGED <<settings, version, val>>

SetChannelAcquisitionWindow ==
    /\ Go("window", "delay")
    /\ LET length == Clocks(config.acqWindow)
           delay  == Clocks(config.resetDelay)
       IN  Set("reset", <<length, delay>>, length < 1048576 /\ delay < 4096)
    /\ UNCHANGED <<settings, version, val>>

SetTriggerDelay ==
    /\ Go("delay", "presample")
    /\ LET delay == Clocks(config.trigDelay)
       IN  Set("trig_delay", delay, delay < STEPS)
    /\ UNCHANGED <<settings, version, val>>

\* The presamples have to be over when the trigger delay is.
SetTriggerPreSampleDelay ==
    /\ Go("presample", "adc")
    /\ WriteRegister("trig_ps_delay", Clocks(HardCodedPresampleDelay))
    /\ config_ok' = (config_ok /\ HardCodedPresampleDelay + HardCodedTotalPresampleTime
                                    <= config.trigDelay)
    /\ UNCHANGED <<settings, version, val>>

SetAdcDelay ==
    /\ Go("adc", "wait")
    /\ WriteRegister("adc_delay", Clocks(HardCodedAdcDelay))
    /\ UNCHANGED <<settings, config_ok, version, val>>

Next ==
    \/ \E rec \in Records : Start(rec)
    \/ ReadVersion \/ ReadCalibration \/ WriteCalibration
    \/ SetChargeAmplifierRef \/ SetChargeAmplifierMultiplier \/ SetInputBias
    \/ SetChannelAcquisitionWindow \/ SetTriggerDelay \/ SetTriggerPreSampleDelay
    \/ SetAdcDelay

Spec == Init /\ [][Next]_vars

-----------------------------------------------------------------------------
(* Properties.                                                             *)

\* Every register but reset has 16 bits, and never more is written to it.
TypeOK ==
    /\ step \in {"wait", "version", "calibration", "calibrate", "ampref", "gain", "bias",
                 "window", "delay", "presample", "adc"}
    /\ config_ok \in BOOLEAN /\ lost \in BOOLEAN
    /\ \A r \in ChannelRegisters : board[r] \in Nibbles
    /\ \A r \in NumberRegisters : board[r] \in 0 .. (STEPS - 1)
    /\ version \in Versions \cup {BAD_VALUE} /\ firmware \in Versions
    /\ val \in Nibbles
    /\ configs \in 0 .. MaxConfigs /\ trouble \in 0 .. MaxTrouble

Over == step = "wait" /\ configs > 0

\* A register of clocks spans a time, with less than a clock to spare.
Spans(clocks, ns) == clocks * CLOCK_PERIOD \in ns .. (ns + CLOCK_PERIOD - 1)

\* A register of voltage steps is the nearest step below a voltage.
Holds(steps, v, max) == steps * max <= v * (STEPS - 1) /\ v * (STEPS - 1) < (steps + 1) * max

\* The board does what a setting says: its gains, voltages and times, all the
\* presamples before the sample, and no channel calibrating.
Programmed(c) ==
    /\ \A ch \in Channels : board["rg_config"][ch] = c.range[ch] + 1
    /\ Holds(board["bias_data"], c.refVoltage, CHARGEAMP_REF_MAX)
    /\ Holds(board["biasdac_data_config"], c.diodeBias, INPUT_BIAS_MAX)
    /\ Spans(board["reset"][1], c.acqWindow) /\ Spans(board["reset"][2], c.resetDelay)
    /\ Spans(board["trig_delay"], c.trigDelay)
    /\ board["trig_delay"] >= board["trig_ps_delay"] + 10 * board["adc_delay"]
    /\ \A ch \in Channels : board["cal_rg_config"][ch] < 8

\* A pass that ends with config_ok programmed the board completely, also when
\* it read nothing but the version: no setter skipped its register, whatever
\* the registers held before.  Only lost writes go unnoticed.
OkMeansProgrammed == Over /\ config_ok /\ ~lost => Programmed(config)

\* The limits the messages name; the gain of a record is always in 0 .. 14.
InLimits(c) ==
    /\ c.refVoltage <= CHARGEAMP_REF_MAX /\ c.diodeBias <= INPUT_BIAS_MAX
    /\ c.acqWindow <= 1048575 * CLOCK_PERIOD /\ c.resetDelay <= 4095 * CLOCK_PERIOD
    /\ 190000 <= c.trigDelay /\ c.trigDelay <= 65535 * CLOCK_PERIOD

\* A setting is rejected if it is out of its limits, the firmware is old or the
\* board does not answer, and, below gain 14, for nothing else.
RejectedForCause ==
    Over => LET acceptable == version = "new" /\ InLimits(config)
            IN  /\ config_ok => acceptable
                /\ acceptable /\ (\A c \in Channels : config.range[c] < 14) => config_ok

-----------------------------------------------------------------------------
(* What a message or a record of the code says and the code does not do.   *)

\* do_configure says that gains are "restricted to 0-14", and the records offer
\* these: a setting is accepted with any of them.
GainAccepted == Over /\ version = "new" /\ InLimits(config) => config_ok

\* An accepted ResetDelay is the one the record shows.
DelayAsShown ==
    Over /\ config_ok /\ ~lost => Spans(board["reset"][2], records.resetDelay)

=============================================================================
