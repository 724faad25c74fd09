-------------------------- MODULE ConfigSequenceProofs --------------------------
(***************************************************************************)
(* Theorems of ConfigSequence for any values of the setting records: the   *)
(* registers keep their width, a pass that ends with config_ok programmed  *)
(* the board, and a setting is rejected for a cause only.                  *)
(***************************************************************************)
EXTENDS ConfigSequence, TLAPS

-----------------------------------------------------------------------------
(* Arithmetic of the conversions.                                          *)

Settings == [range : [Channels -> Ranges], refVoltage : Nat, diodeBias : Nat,
             acqWindow : Nat, resetDelay : Nat, trigDelay : Nat]

\* Clearing the calibration bits leaves three bits of each nibble.
LEMMA ClearedNibbles ==
    ASSUME NEW nibbles \in Nibbles
    PROVE  /\ CalibrationCleared(nibbles) \in Nibbles
           /\ \A c \in Channels : CalibrationCleared(nibbles)[c] < 8
BY DEF CalibrationCleared, Nibbles

LEMMA BadNibblesType == BadNibbles \in Nibbles
<1>1. \A c \in {0, 1, 2, 3} : <<14, 13, 10, 15>>[c + 1] \in 0 .. 15
  OBVIOUS
<1> QED
  BY <1>1 DEF BadNibbles, Nibbles, Channels, NChannels

\* The board is never given 0 for a range below 14, and the range above it.
LEMMA MultiplierRange ==
    ASSUME NEW range \in Ranges
    PROVE  /\ Multiplier(range) \in 0 .. 15
           /\ Multiplier(range) # 0 <=> range < 14
           /\ range < 14 => Multiplier(range) = range + 1
BY DEF Multiplier, Ranges

\* Rounding up spans the time, and fits 2^k clocks if the time does.
LEMMA ClocksSpan ==
    ASSUME NEW ns \in Nat
    PROVE  /\ Clocks(ns) \in Nat /\ Spans(Clocks(ns), ns)
           /\ Clocks(ns) < 4096 <=> ns <= 4095 * CLOCK_PERIOD
           /\ Clocks(ns) < STEPS <=> ns <= 65535 * CLOCK_PERIOD
           /\ Clocks(ns) < 1048576 <=> ns <= 1048575 * CLOCK_PERIOD
BY DEF Clocks, Spans, CLOCK_PERIOD, STEPS

\* The steps of a voltage fit a word exactly when it is in range.
LEMMA ReferenceSteps ==
    ASSUME NEW v \in Nat
    PROVE  LET i == VoltageSteps(v, CHARGEAMP_REF_MAX)
           IN  i \in Nat /\ Holds(i, v, CHARGEAMP_REF_MAX) /\ (i < STEPS <=> v <= CHARGEAMP_REF_MAX)
BY DEF VoltageSteps, Holds, CHARGEAMP_REF_MAX, STEPS

LEMMA BiasSteps ==
    ASSUME NEW v \in Nat
    PROVE  LET i == VoltageSteps(v, INPUT_BIAS_MAX)
           IN  i \in Nat /\ Holds(i, v, INPUT_BIAS_MAX) /\ (i < STEPS <=> v <= INPUT_BIAS_MAX)
BY DEF VoltageSteps, Holds, INPUT_BIAS_MAX, STEPS

LEMMA LinkedSettings == ASSUME NEW rec \in Records PROVE ReadLinks(rec) \in Settings
<1>1. rec \in Settings
  BY SequenceAssumption DEF Settings
<1>2. rec.resetDelay % UINT16 \in Nat
  BY <1>1 DEF Settings, UINT16
<1> QED
  BY <1>1, <1>2 DEF ReadLinks, Settings

-----------------------------------------------------------------------------
(* The invariant.                                                          *)

Steps == {"wait", "version", "calibration", "calibrate", "ampref", "gain", "bias",
          "window", "delay", "presample", "adc"}

\* The steps from which on a setter is done with its register.
AfterAdc == {"wait"}
AfterPresample == {"adc"} \cup AfterAdc
AfterDelay == {"presample"} \cup AfterPresample
AfterWindow == {"delay"} \cup AfterDelay
AfterBias == {"window"} \cup AfterWindow
AfterGain == {"bias"} \cup AfterBias
AfterRef == {"gain"} \cup AfterGain
AfterCalibrate == {"ampref"} \cup AfterRef
AfterVersion == {"calibration", "calibrate"} \cup AfterCalibrate

Values == (0 .. (STEPS - 1)) \cup Nibbles \cup (Nat \X Nat)

\* What each setter demands of its arguments.
RefIn == config.refVoltage <= CHARGEAMP_REF_MAX
GainIn == version = "new" /\ \A c \in Channels : config.range[c] < 14
BiasIn == config.diodeBias <= INPUT_BIAS_MAX
WindowIn == config.acqWindow <= 1048575 * CLOCK_PERIOD /\ config.resetDelay <= 4095 * CLOCK_PERIOD
DelayIn == config.trigDelay <= 65535 * CLOCK_PERIOD
PresampleIn == 190000 <= config.trigDelay

\* The parts of Programmed, each about one register.
Silent == \A c \in Channels : board["cal_rg_config"][c] < 8
Referenced == Holds(board["bias_data"], config.refVoltage, CHARGEAMP_REF_MAX)
Amplified == \A c \in Channels : board["rg_config"][c] = config.range[c] + 1
Biased == Holds(board["biasdac_data_config"], config.diodeBias, INPUT_BIAS_MAX)
Windowed == /\ Spans(board["reset"][1], config.acqWindow)
            /\ Spans(board["reset"][2], config.resetDelay)
Delayed == Spans(board["trig_delay"], config.trigDelay)
Presampled == board["trig_ps_delay"] = 18750 /\ PresampleIn
Sampled == board["adc_delay"] = 500

\* While the pass may still end well, each setter that is done did its part.
Done ==
    /\ step \in AfterCalibrate => Silent
    /\ step \in AfterRef => Referenced
    /\ step \in AfterGain => Amplified
    /\ step \in AfterBias => Biased
    /\ step \in AfterWindow => Windowed
    /\ step \in AfterDelay => Delayed
    /\ step \in AfterPresample => Presampled
    /\ step \in AfterAdc => Sampled

DoneInv == configs > 0 /\ config_ok /\ ~lost => Done

\* The setters that are done did not reject their arguments.
Accepted ==
    /\ step \in AfterRef => RefIn
    /\ step \in AfterGain => GainIn
    /\ step \in AfterBias => BiasIn
    /\ step \in AfterWindow => WindowIn
    /\ step \in AfterDelay => DelayIn
    /\ step \in AfterPresample => PresampleIn

CauseInv ==
    configs > 0 =>
       /\ step = "version" => config_ok /\ version = BAD_VALUE
       /\ step \in AfterVersion =>
             IF version = BAD_VALUE THEN step = "wait" /\ ~config_ok
                                    ELSE config_ok <=> Accepted

\* Types of what the registers are set from, and of the registers.
SettingInv == config \in Settings /\ board \in [Registers -> Values]

-----------------------------------------------------------------------------
(* One register write.                                                     *)

LEMMA Written ==
    ASSUME SettingInv, NEW r \in Registers, NEW v \in Values, WriteRegister(r, v)
    PROVE  /\ board' \in [Registers -> Values]
           /\ \A q \in Registers : q # r => board'[q] = board[q]
           /\ ~lost' => ~lost /\ board'[r] = v
BY DEF WriteRegister, SettingInv

-----------------------------------------------------------------------------
(* Type correctness.                                                       *)

\* What a register write can disturb.
BoardType ==
    /\ board \in [Registers -> Values]
    /\ \A q \in ChannelRegisters : board[q] \in Nibbles
    /\ \A q \in NumberRegisters : board[q] \in 0 .. (STEPS - 1)
    /\ lost \in BOOLEAN /\ trouble \in 0 .. MaxTrouble

\* A value of its kind keeps the types of the registers.
LEMMA WrittenType ==
    ASSUME TypeOK, SettingInv, NEW r \in Registers, NEW v, WriteRegister(r, v),
           r \in ChannelRegisters => v \in Nibbles,
           r \in NumberRegisters => v \in 0 .. (STEPS - 1),
           r = "reset" => v \in Nat \X Nat
    PROVE  BoardType'
<1>1. v \in Values
  BY DEF Registers, Values
<1>2. board' \in [Registers -> Values]
  BY <1>1, Written
<1>3. ChannelRegisters \subseteq Registers /\ NumberRegisters \subseteq Registers
  BY DEF Registers
<1>4. lost' \in BOOLEAN /\ trouble' \in 0 .. MaxTrouble
  <2>1. lost' = lost \/ lost' = TRUE
    BY DEF WriteRegister
  <2>2. trouble' = trouble \/ (trouble < MaxTrouble /\ trouble' = trouble + 1)
    BY DEF WriteRegister, Trouble
  <2>3. lost' \in BOOLEAN
    BY <2>1, Zenon DEF TypeOK
  <2>4. trouble' \in 0 .. MaxTrouble
    BY <2>2, SequenceAssumption DEF TypeOK
  <2> QED
    BY <2>3, <2>4
<1>5. \A q \in Registers : board'[q] = board[q] \/ (q = r /\ board'[q] = v)
  BY DEF WriteRegister, SettingInv
<1> QED
  BY <1>2, <1>3, <1>4, <1>5 DEF TypeOK, BoardType

\* A setter that rejects its argument disturbs nothing.
LEMMA RejectedType ==
    ASSUME TypeOK, SettingInv, board' = board, lost' = lost, trouble' = trouble
    PROVE  BoardType'
BY DEF TypeOK, SettingInv, BoardType

\* What is left of TypeOK and SettingInv: no step but Start changes the setting.
LEMMA KeptType ==
    ASSUME TypeOK, SettingInv, UNCHANGED settings, BoardType', step' \in Steps,
           config_ok' \in BOOLEAN, version' \in Versions \cup {BAD_VALUE}, val' \in Nibbles
    PROVE  TypeOK' /\ SettingInv'
<1>1. SettingInv'
  BY DEF SettingInv, BoardType, settings
<1>2. configs' \in 0 .. MaxConfigs /\ firmware' \in Versions
  BY DEF TypeOK, settings
<1> QED
  BY <1>1, <1>2 DEF TypeOK, BoardType, Steps

LEMMA SettingsRanges ==
    ASSUME SettingInv
    PROVE  /\ config.refVoltage \in Nat /\ config.diodeBias \in Nat /\ config.acqWindow \in Nat
           /\ config.resetDelay \in Nat /\ config.trigDelay \in Nat
           /\ \A c \in Channels : config.range[c] \in Ranges
BY DEF SettingInv, Settings

\* The multipliers of a setting.
LEMMA MultiplierNibbles ==
    ASSUME SettingInv
    PROVE  [c \in Channels |-> Multiplier(config.range[c])] \in Nibbles
BY SettingsRanges, MultiplierRange DEF Nibbles

LEMMA InitType == Init => TypeOK /\ SettingInv
<1> SUFFICES ASSUME Init
             PROVE  TypeOK /\ SettingInv
  OBVIOUS
<1>1. NoSettings \in Settings
  BY DEF NoSettings, Settings, Ranges
<1>2. ASSUME NEW n \in 0 .. (STEPS - 1), NEW d \in 0 .. 15
      PROVE  /\ Reset(n, d) \in [Registers -> Values]
             /\ \A q \in ChannelRegisters : Reset(n, d)[q] \in Nibbles
             /\ \A q \in NumberRegisters : Reset(n, d)[q] \in 0 .. (STEPS - 1)
  <2>1. [c \in Channels |-> d] \in Nibbles
    BY DEF Nibbles
  <2>2. n \in Nat
    OBVIOUS
  <2>3. <<n, n>> \in Nat \X Nat
    BY <2>2
  <2> QED
    BY <2>1, <2>3 DEF Reset, Registers, ChannelRegisters, NumberRegisters, Values
<1>3. 0 \in 0 .. (STEPS - 1) /\ STEPS - 1 \in 0 .. (STEPS - 1) /\ 0 \in 0 .. 15 /\ 15 \in 0 .. 15
  BY SMT DEF STEPS
<1>4. /\ board \in [Registers -> Values]
      /\ \A q \in ChannelRegisters : board[q] \in Nibbles
      /\ \A q \in NumberRegisters : board[q] \in 0 .. (STEPS - 1)
  BY <1>2, <1>3 DEF Init
<1>5. configs \in 0 .. MaxConfigs /\ trouble \in 0 .. MaxTrouble
  BY SequenceAssumption DEF Init
<1> QED
  BY <1>1, <1>4, <1>5, BadNibblesType DEF Init, TypeOK, SettingInv

\* What the setters write.
LEMMA SetterValues ==
    ASSUME SettingInv
    PROVE  /\ VoltageSteps(config.refVoltage, CHARGEAMP_REF_MAX) < STEPS
              => VoltageSteps(config.refVoltage, CHARGEAMP_REF_MAX) \in 0 .. (STEPS - 1)
           /\ VoltageSteps(config.diodeBias, INPUT_BIAS_MAX) < STEPS
              => VoltageSteps(config.diodeBias, INPUT_BIAS_MAX) \in 0 .. (STEPS - 1)
           /\ <<Clocks(config.acqWindow), Clocks(config.resetDelay)>> \in Nat \X Nat
           /\ Clocks(config.trigDelay) < STEPS => Clocks(config.trigDelay) \in 0 .. (STEPS - 1)
<1>1. \A n \in Nat : n < STEPS => n \in 0 .. (STEPS - 1)
  <2>1. STEPS \in Int
    BY SMT DEF STEPS
  <2> QED
    BY <2>1, SMT
<1>2. VoltageSteps(config.refVoltage, CHARGEAMP_REF_MAX) \in Nat
  BY SettingsRanges, ReferenceSteps
<1>3. VoltageSteps(config.diodeBias, INPUT_BIAS_MAX) \in Nat
  BY SettingsRanges, BiasSteps
<1>4. /\ Clocks(config.acqWindow) \in Nat /\ Clocks(config.resetDelay) \in Nat
      /\ Clocks(config.trigDelay) \in Nat
  BY SettingsRanges, ClocksSpan
<1>5. <<Clocks(config.acqWindow), Clocks(config.resetDelay)>> \in Nat \X Nat
  BY <1>4
<1> QED
  BY <1>1, <1>2, <1>3, <1>4, <1>5

LEMMA FixedDelays ==
    Clocks(HardCodedPresampleDelay) = 18750 /\ Clocks(HardCodedAdcDelay) = 500
<1>1. Clocks(HardCodedPresampleDelay) = 18750
  <2>1. HardCodedPresampleDelay \in Nat
    BY SMT DEF HardCodedPresampleDelay
  <2>2. /\ Clocks(HardCodedPresampleDelay) \in Nat
        /\ Spans(Clocks(HardCodedPresampleDelay), HardCodedPresampleDelay)
    BY <2>1, ClocksSpan, SMT
  <2> QED
    BY <2>2, SMT DEF Spans, HardCodedPresampleDelay, CLOCK_PERIOD
<1>2. Clocks(HardCodedAdcDelay) = 500
  <2>1. HardCodedAdcDelay \in Nat
    BY SMT DEF HardCodedAdcDelay
  <2>2. /\ Clocks(HardCodedAdcDelay) \in Nat
        /\ Spans(Clocks(HardCodedAdcDelay), HardCodedAdcDelay)
    BY <2>1, ClocksSpan, SMT
  <2> QED
    BY <2>2, SMT DEF Spans, HardCodedAdcDelay, CLOCK_PERIOD
<1> QED
  BY <1>1, <1>2

\* The registers by their kind.
LEMMA RegisterKinds ==
    /\ ChannelRegisters \subseteq Registers /\ NumberRegisters \subseteq Registers
    /\ "reset" \in Registers \ (ChannelRegisters \cup NumberRegisters)
    /\ {"cal_rg_config", "rg_config"} \subseteq ChannelRegisters
    /\ {"bias_data", "biasdac_data_config", "trig_delay", "trig_ps_delay", "adc_delay"}
          \subseteq NumberRegisters
    /\ \A r \in ChannelRegisters : r \notin NumberRegisters /\ r # "reset"
    /\ \A r \in NumberRegisters : r \notin ChannelRegisters /\ r # "reset"
BY DEF Registers, ChannelRegisters, NumberRegisters

\* Two of the setters, with their values worked out.
WindowFits == Clocks(config.acqWindow) < 1048576 /\ Clocks(config.resetDelay) < 4096

LEMMA WindowStep ==
    SetChannelAcquisitionWindow =>
       \/ /\ WriteRegister("reset", <<Clocks(config.acqWindow), Clocks(config.resetDelay)>>)
          /\ WindowFits
          /\ config_ok' = config_ok
       \/ /\ ~WindowFits
          /\ config_ok' = FALSE /\ board' = board /\ lost' = lost /\ trouble' = trouble
BY SMT DEF SetChannelAcquisitionWindow, Set, WindowFits

LEMMA PresampleStep ==
    SetTriggerPreSampleDelay =>
       /\ WriteRegister("trig_ps_delay", 18750)
       /\ config_ok' \in BOOLEAN
       /\ config_ok' <=> config_ok /\ PresampleIn
<1>1. HardCodedPresampleDelay + HardCodedTotalPresampleTime = 190000
  BY SMT DEF HardCodedPresampleDelay, HardCodedTotalPresampleTime, HardCodedAdcDelay
<1>2. SetTriggerPreSampleDelay => WriteRegister("trig_ps_delay", 18750)
  BY FixedDelays, SMT DEF SetTriggerPreSampleDelay
<1>3. SetTriggerPreSampleDelay => config_ok' \in BOOLEAN
  BY SMT DEF SetTriggerPreSampleDelay
<1>4. SetTriggerPreSampleDelay => (config_ok' <=> config_ok /\ PresampleIn)
  <2>1. SetTriggerPreSampleDelay => config_ok' = (config_ok /\ PresampleIn)
    BY <1>1, SMT DEF SetTriggerPreSampleDelay, PresampleIn
  <2> QED
    BY <2>1, Zenon
<1> QED
  BY <1>2, <1>3, <1>4, SMT

LEMMA NextType == TypeOK /\ SettingInv /\ [Next]_vars => TypeOK' /\ SettingInv'
<1> SUFFICES ASSUME TypeOK, SettingInv, [Next]_vars
             PROVE  TypeOK' /\ SettingInv'
  OBVIOUS
<1>1. ASSUME NEW rec \in Records, Start(rec)
      PROVE  TypeOK' /\ SettingInv'
  <2>1. SettingInv' /\ configs' \in 0 .. MaxConfigs
    BY <1>1, LinkedSettings, SequenceAssumption DEF Start, TypeOK, SettingInv
  <2>2. step' = "version" /\ config_ok' = TRUE /\ lost' = FALSE /\ version' = BAD_VALUE
    BY <1>1 DEF Start, Go
  <2>3. UNCHANGED <<board, firmware, val, trouble>>
    BY <1>1 DEF Start
  <2> QED
    BY <2>1, <2>2, <2>3 DEF TypeOK
<1>2. CASE ReadVersion
  <2>1. trouble' \in 0 .. MaxTrouble
    BY <1>2, SequenceAssumption DEF ReadVersion, Trouble, TypeOK
  <2>2. step' \in Steps
    BY <1>2 DEF ReadVersion, Go, Steps
  <2>3. config_ok' \in BOOLEAN
    BY <1>2, Zenon DEF ReadVersion, TypeOK
  <2>4. version' \in Versions \cup {BAD_VALUE}
    BY <1>2 DEF ReadVersion, TypeOK
  <2>5. UNCHANGED <<settings, board, val, lost>>
    BY <1>2 DEF ReadVersion
  <2>6. BoardType'
    BY <2>1, <2>5 DEF BoardType, TypeOK, SettingInv
  <2> QED
    BY <2>2, <2>3, <2>4, <2>5, <2>6, KeptType DEF TypeOK
<1>3. CASE ReadCalibration
  <2>1. trouble' \in 0 .. MaxTrouble
    BY <1>3, SequenceAssumption DEF ReadCalibration, Trouble, TypeOK
  <2>2. val' \in Nibbles
    BY <1>3, BadNibblesType DEF ReadCalibration, TypeOK, ChannelRegisters
  <2>3. step' \in Steps /\ UNCHANGED <<settings, config_ok, board, version, lost>>
    BY <1>3 DEF ReadCalibration, Go, Steps
  <2>4. BoardType'
    BY <2>1, <2>3 DEF BoardType, TypeOK, SettingInv
  <2> QED
    BY <2>2, <2>3, <2>4, KeptType DEF TypeOK
<1>4. CASE WriteCalibration
  <2>1. WriteRegister("cal_rg_config", CalibrationCleared(val))
    BY <1>4 DEF WriteCalibration
  <2>2. CalibrationCleared(val) \in Nibbles
    BY ClearedNibbles DEF TypeOK
  <2>3. BoardType'
    BY <2>1, <2>2, RegisterKinds, WrittenType
  <2>4. config_ok' \in BOOLEAN
    BY <1>4 DEF WriteCalibration, TypeOK
  <2>5. step' \in Steps /\ UNCHANGED <<settings, version, val>>
    BY <1>4 DEF WriteCalibration, Go, Steps
  <2> QED
    BY <2>3, <2>4, <2>5, KeptType DEF TypeOK
<1>5. CASE SetChargeAmplifierRef
  <2>1. VoltageSteps(config.refVoltage, CHARGEAMP_REF_MAX) < STEPS
        => VoltageSteps(config.refVoltage, CHARGEAMP_REF_MAX) \in 0 .. (STEPS - 1)
    BY SetterValues
  <2>2. \/ /\ VoltageSteps(config.refVoltage, CHARGEAMP_REF_MAX) < STEPS
           /\ WriteRegister("bias_data", VoltageSteps(config.refVoltage, CHARGEAMP_REF_MAX))
           /\ config_ok' = config_ok
        \/ config_ok' = FALSE /\ board' = board /\ lost' = lost /\ trouble' = trouble
    BY <1>5 DEF SetChargeAmplifierRef, Set
  <2>3. ASSUME VoltageSteps(config.refVoltage, CHARGEAMP_REF_MAX) < STEPS,
               WriteRegister("bias_data", VoltageSteps(config.refVoltage, CHARGEAMP_REF_MAX)),
               config_ok' = config_ok
        PROVE  BoardType' /\ config_ok' \in BOOLEAN
    <3>1. VoltageSteps(config.refVoltage, CHARGEAMP_REF_MAX) \in 0 .. (STEPS - 1)
      BY <2>3, <2>1
    <3>2. BoardType'
      BY <2>3, <3>1, RegisterKinds, WrittenType
    <3>3. config_ok' \in BOOLEAN
      BY <2>3, Zenon DEF TypeOK
    <3> QED
      BY <3>2, <3>3
  <2>4. BoardType' /\ config_ok' \in BOOLEAN
    BY <2>2, <2>3, RejectedType
  <2>5. step' \in Steps /\ UNCHANGED <<settings, version, val>>
    BY <1>5 DEF SetChargeAmplifierRef, Go, Steps
  <2> QED
    BY <2>4, <2>5, KeptType DEF TypeOK
<1>6. CASE SetChargeAmplifierMultiplier
  <2>1. WriteRegister("rg_config", [c \in Channels |-> Multiplier(config.range[c])])
    BY <1>6 DEF SetChargeAmplifierMultiplier
  <2>2. [c \in Channels |-> Multiplier(config.range[c])] \in Nibbles
    BY MultiplierNibbles
  <2>3. BoardType'
    BY <2>1, <2>2, RegisterKinds, WrittenType
  <2>4. config_ok' \in BOOLEAN
    BY <1>6 DEF SetChargeAmplifierMultiplier, TypeOK
  <2>5. step' \in Steps /\ UNCHANGED <<settings, version, val>>
    BY <1>6 DEF SetChargeAmplifierMultiplier, Go, Steps
  <2> QED
    BY <2>3, <2>4, <2>5, KeptType DEF TypeOK
<1>7. CASE SetInputBias
  <2>1. VoltageSteps(config.diodeBias, INPUT_BIAS_MAX) < STEPS
        => VoltageSteps(config.diodeBias, INPUT_BIAS_MAX) \in 0 .. (STEPS - 1)
    BY SetterValues
  <2>2. \/ /\ VoltageSteps(config.diodeBias, INPUT_BIAS_MAX) < STEPS
           /\ WriteRegister("biasdac_data_config", VoltageSteps(config.diodeBias, INPUT_BIAS_MAX))
           /\ config_ok' = config_ok
        \/ config_ok' = FALSE /\ board' = board /\ lost' = lost /\ trouble' = trouble
    BY <1>7 DEF SetInputBias, Set
  <2>3. ASSUME VoltageSteps(config.diodeBias, INPUT_BIAS_MAX) < STEPS,
               WriteRegister("biasdac_data_config", VoltageSteps(config.diodeBias, INPUT_BIAS_MAX)),
               config_ok' = config_ok
        PROVE  BoardType' /\ config_ok' \in BOOLEAN
    <3>1. VoltageSteps(config.diodeBias, INPUT_BIAS_MAX) \in 0 .. (STEPS - 1)
      BY <2>3, <2>1
    <3>2. BoardType'
      BY <2>3, <3>1, RegisterKinds, WrittenType
    <3>3. config_ok' \in BOOLEAN
      BY <2>3, Zenon DEF TypeOK
    <3> QED
      BY <3>2, <3>3
  <2>4. BoardType' /\ config_ok' \in BOOLEAN
    BY <2>2, <2>3, RejectedType
  <2>5. step' \in Steps /\ UNCHANGED <<settings, version, val>>
    BY <1>7 DEF SetInputBias, Go, Steps
  <2> QED
    BY <2>4, <2>5, KeptType DEF TypeOK
<1>8. CASE SetChannelAcquisitionWindow
  <2>1. <<Clocks(config.acqWindow), Clocks(config.resetDelay)>> \in Nat \X Nat
    BY SetterValues
  <2>2. \/ /\ WriteRegister("reset", <<Clocks(config.acqWindow), Clocks(config.resetDelay)>>)
           /\ config_ok' = config_ok
        \/ config_ok' = FALSE /\ board' = board /\ lost' = lost /\ trouble' = trouble
    BY <1>8, WindowStep, Zenon
  <2>3. ASSUME WriteRegister("reset", <<Clocks(config.acqWindow), Clocks(config.resetDelay)>>),
               config_ok' = config_ok
        PROVE  BoardType' /\ config_ok' \in BOOLEAN
    <3>1. BoardType'
      BY <2>3, <2>1, RegisterKinds, WrittenType
    <3>2. config_ok' \in BOOLEAN
      BY <2>3, Zenon DEF TypeOK
    <3> QED
      BY <3>1, <3>2
  <2>4. BoardType' /\ config_ok' \in BOOLEAN
    BY <2>2, <2>3, RejectedType
  <2>5. step' \in Steps /\ UNCHANGED <<settings, version, val>>
    BY <1>8 DEF SetChannelAcquisitionWindow, Go, Steps
  <2> QED
    BY <2>4, <2>5, KeptType DEF TypeOK
<1>9. CASE SetTriggerDelay
  <2>1. Clocks(config.trigDelay) < STEPS => Clocks(config.trigDelay) \in 0 .. (STEPS - 1)
    BY SetterValues
  <2>2. \/ /\ Clocks(config.trigDelay) < STEPS
           /\ WriteRegister("trig_delay", Clocks(config.trigDelay))
           /\ config_ok' = config_ok
        \/ config_ok' = FALSE /\ board' = board /\ lost' = lost /\ trouble' = trouble
    BY <1>9 DEF SetTriggerDelay, Set
  <2>3. ASSUME Clocks(config.trigDelay) < STEPS,
               WriteRegister("trig_delay", Clocks(config.trigDelay)),
               config_ok' = config_ok
        PROVE  BoardType' /\ config_ok' \in BOOLEAN
    <3>1. Clocks(config.trigDelay) \in 0 .. (STEPS - 1)
      BY <2>3, <2>1
    <3>2. BoardType'
      BY <2>3, <3>1, RegisterKinds, WrittenType
    <3>3. config_ok' \in BOOLEAN
      BY <2>3, Zenon DEF TypeOK
    <3> QED
      BY <3>2, <3>3
  <2>4. BoardType' /\ config_ok' \in BOOLEAN
    BY <2>2, <2>3, RejectedType
  <2>5. step' \in Steps /\ UNCHANGED <<settings, version, val>>
    BY <1>9 DEF SetTriggerDelay, Go, Steps
  <2> QED
    BY <2>4, <2>5, KeptType DEF TypeOK
<1>10. CASE SetTriggerPreSampleDelay
  <2>1. WriteRegister("trig_ps_delay", 18750)
    BY <1>10, PresampleStep
  <2>2. 18750 \in 0 .. (STEPS - 1)
    BY DEF STEPS
  <2>3. BoardType'
    BY <2>1, <2>2, RegisterKinds, WrittenType
  <2>4. config_ok' \in BOOLEAN
    BY <1>10, PresampleStep
  <2>5. step' \in Steps /\ UNCHANGED <<settings, version, val>>
    BY <1>10 DEF SetTriggerPreSampleDelay, Go, Steps
  <2> QED
    BY <2>3, <2>4, <2>5, KeptType DEF TypeOK
<1>11. CASE SetAdcDelay
  <2>1. WriteRegister("adc_delay", 500)
    BY <1>11, FixedDelays DEF SetAdcDelay
  <2>2. 500 \in 0 .. (STEPS - 1)
    BY DEF STEPS
  <2>3. BoardType'
    BY <2>1, <2>2, RegisterKinds, WrittenType
  <2>4. config_ok' \in BOOLEAN
    BY <1>11 DEF SetAdcDelay, TypeOK
  <2>5. step' \in Steps /\ UNCHANGED <<settings, version, val>>
    BY <1>11 DEF SetAdcDelay, Go, Steps
  <2> QED
    BY <2>3, <2>4, <2>5, KeptType DEF TypeOK
<1>12. CASE UNCHANGED vars
  BY <1>12 DEF vars, TypeOK, SettingInv
<1> QED
  BY <1>1, <1>2, <1>3, <1>4, <1>5, <1>6, <1>7, <1>8, <1>9, <1>10, <1>11, <1>12 DEF Next

-----------------------------------------------------------------------------
(* A pass that ends with config_ok programmed the board.                   *)

\* A register write disturbs the part of its register only.
LEMMA PartsKept ==
    ASSUME NEW r, \A q \in Registers : q # r => board'[q] = board[q], UNCHANGED config
    PROVE  /\ r # "cal_rg_config" /\ Silent => Silent'
           /\ r # "bias_data" /\ Referenced => Referenced'
           /\ r # "rg_config" /\ Amplified => Amplified'
           /\ r # "biasdac_data_config" /\ Biased => Biased'
           /\ r # "reset" /\ Windowed => Windowed'
           /\ r # "trig_delay" /\ Delayed => Delayed'
           /\ r # "trig_ps_delay" /\ Presampled => Presampled'
           /\ r # "adc_delay" /\ Sampled => Sampled'
<1> USE DEF Registers, ChannelRegisters, NumberRegisters
<1>1. r # "cal_rg_config" /\ Silent => Silent'
  BY DEF Silent
<1>2. r # "bias_data" /\ Referenced => Referenced'
  BY DEF Referenced
<1>3. r # "rg_config" /\ Amplified => Amplified'
  BY DEF Amplified
<1>4. r # "biasdac_data_config" /\ Biased => Biased'
  BY DEF Biased
<1>5. r # "reset" /\ Windowed => Windowed'
  BY DEF Windowed
<1>6. r # "trig_delay" /\ Delayed => Delayed'
  BY DEF Delayed
<1>7. r # "trig_ps_delay" /\ Presampled => Presampled'
  BY SMT DEF Presampled, PresampleIn
<1>8. r # "adc_delay" /\ Sampled => Sampled'
  BY DEF Sampled
<1> QED
  BY <1>1, <1>2, <1>3, <1>4, <1>5, <1>6, <1>7, <1>8, Zenon

\* The setters that are done at each step.
LEMMA StepOrder ==
    /\ "version" \notin AfterCalibrate /\ "version" \notin AfterRef
    /\ "version" \notin AfterGain /\ "version" \notin AfterBias
    /\ "version" \notin AfterWindow /\ "version" \notin AfterDelay
    /\ "version" \notin AfterPresample /\ "version" \notin AfterAdc
    /\ "calibration" \notin AfterCalibrate /\ "calibration" \notin AfterRef
    /\ "calibration" \notin AfterGain /\ "calibration" \notin AfterBias
    /\ "calibration" \notin AfterWindow /\ "calibration" \notin AfterDelay
    /\ "calibration" \notin AfterPresample /\ "calibration" \notin AfterAdc
    /\ "calibrate" \notin AfterCalibrate /\ "calibrate" \notin AfterRef
    /\ "calibrate" \notin AfterGain /\ "calibrate" \notin AfterBias
    /\ "calibrate" \notin AfterWindow /\ "calibrate" \notin AfterDelay
    /\ "calibrate" \notin AfterPresample /\ "calibrate" \notin AfterAdc
    /\ "ampref" \in AfterCalibrate /\ "ampref" \notin AfterRef
    /\ "ampref" \notin AfterGain /\ "ampref" \notin AfterBias
    /\ "ampref" \notin AfterWindow /\ "ampref" \notin AfterDelay
    /\ "ampref" \notin AfterPresample /\ "ampref" \notin AfterAdc
    /\ "gain" \in AfterCalibrate /\ "gain" \in AfterRef
    /\ "gain" \notin AfterGain /\ "gain" \notin AfterBias
    /\ "gain" \notin AfterWindow /\ "gain" \notin AfterDelay
    /\ "gain" \notin AfterPresample /\ "gain" \notin AfterAdc
    /\ "bias" \in AfterCalibrate /\ "bias" \in AfterRef
    /\ "bias" \in AfterGain /\ "bias" \notin AfterBias
    /\ "bias" \notin AfterWindow /\ "bias" \notin AfterDelay
    /\ "bias" \notin AfterPresample /\ "bias" \notin AfterAdc
    /\ "window" \in AfterCalibrate /\ "window" \in AfterRef
    /\ "window" \in AfterGain /\ "window" \in AfterBias
    /\ "window" \notin AfterWindow /\ "window" \notin AfterDelay
    /\ "window" \notin AfterPresample /\ "window" \notin AfterAdc
    /\ "delay" \in AfterCalibrate /\ "delay" \in AfterRef
    /\ "delay" \in AfterGain /\ "delay" \in AfterBias
    /\ "delay" \in AfterWindow /\ "delay" \notin AfterDelay
    /\ "delay" \notin AfterPresample /\ "delay" \notin AfterAdc
    /\ "presample" \in AfterCalibrate /\ "presample" \in AfterRef
    /\ "presample" \in AfterGain /\ "presample" \in AfterBias
    /\ "presample" \in AfterWindow /\ "presample" \in AfterDelay
    /\ "presample" \notin AfterPresample /\ "presample" \notin AfterAdc
    /\ "adc" \in AfterCalibrate /\ "adc" \in AfterRef /\ "adc" \in AfterGain /\ "adc" \in AfterBias
    /\ "adc" \in AfterWindow /\ "adc" \in AfterDelay
    /\ "adc" \in AfterPresample /\ "adc" \notin AfterAdc
    /\ "wait" \in AfterCalibrate /\ "wait" \in AfterRef
    /\ "wait" \in AfterGain /\ "wait" \in AfterBias
    /\ "wait" \in AfterWindow /\ "wait" \in AfterDelay
    /\ "wait" \in AfterPresample /\ "wait" \in AfterAdc
    /\ {"calibration", "calibrate", "ampref", "gain", "bias", "window", "delay", "presample",
        "adc", "wait"} \subseteq AfterVersion
    /\ "version" \notin AfterVersion
BY Zenon DEF AfterVersion, AfterCalibrate, AfterRef, AfterGain, AfterBias, AfterWindow, AfterDelay,
   AfterPresample, AfterAdc

\* A write that is not lost, and the rest of the board.
LEMMA NotLost ==
    ASSUME SettingInv, NEW r \in Registers, NEW v, WriteRegister(r, v), ~lost'
    PROVE  /\ ~lost /\ board'[r] = v
           /\ \A q \in Registers : q # r => board'[q] = board[q]
BY DEF WriteRegister, SettingInv

\* Each setter does its part, if the pass may still end well after it.
LEMMA NextDone == TypeOK /\ SettingInv /\ DoneInv /\ [Next]_vars => DoneInv'
<1> SUFFICES ASSUME TypeOK, SettingInv, DoneInv, [Next]_vars, configs' > 0, config_ok', ~lost'
             PROVE  Done'
  BY DEF DoneInv
<1>1. ASSUME NEW rec \in Records, Start(rec)
      PROVE  Done'
  <2>1. step' = "version"
    BY <1>1 DEF Start, Go
  <2> QED
    BY <2>1, StepOrder, Zenon DEF Done
<1>2. CASE ReadVersion
  <2>1. step' = "calibration"
    BY <1>2 DEF ReadVersion, Go
  <2> QED
    BY <2>1, StepOrder, Zenon DEF Done
<1>3. CASE ReadCalibration
  <2>1. step' = "calibrate"
    BY <1>3 DEF ReadCalibration, Go
  <2> QED
    BY <2>1, StepOrder, Zenon DEF Done
<1>4. CASE WriteCalibration
  <2>1. /\ step = "calibrate" /\ step' = "ampref"
        /\ UNCHANGED <<config, configs>>
    BY <1>4 DEF WriteCalibration, Go, settings
  <2>2. WriteRegister("cal_rg_config", CalibrationCleared(val)) /\ config_ok
    BY <1>4 DEF WriteCalibration
  <2>3. /\ ~lost /\ board'["cal_rg_config"] = CalibrationCleared(val)
        /\ \A q \in Registers : q # "cal_rg_config" => board'[q] = board[q]
    BY <2>2, RegisterKinds, NotLost
  <2>4. Silent'
    BY <2>1, <2>3, ClearedNibbles DEF TypeOK, Silent
  <2>5. Done
    BY <2>1, <2>2, <2>3 DEF DoneInv
  <2> QED
    BY <2>1, <2>3, <2>4, <2>5, PartsKept, StepOrder DEF Done
<1>5. CASE SetChargeAmplifierRef
  <2>1. /\ step = "ampref" /\ step' = "gain"
        /\ UNCHANGED <<config, configs>>
    BY <1>5 DEF SetChargeAmplifierRef, Go, settings
  <2>2. WriteRegister("bias_data", VoltageSteps(config.refVoltage, CHARGEAMP_REF_MAX)) /\ config_ok
    BY <1>5 DEF SetChargeAmplifierRef, Set
  <2>3. /\ ~lost /\ board'["bias_data"] = VoltageSteps(config.refVoltage, CHARGEAMP_REF_MAX)
        /\ \A q \in Registers : q # "bias_data" => board'[q] = board[q]
    BY <2>2, RegisterKinds, NotLost
  <2>4. Referenced'
    BY <2>1, <2>3, SettingsRanges, ReferenceSteps DEF Referenced
  <2>5. Done
    BY <2>1, <2>2, <2>3 DEF DoneInv
  <2> QED
    BY <2>1, <2>3, <2>4, <2>5, PartsKept, StepOrder DEF Done
<1>6. CASE SetChargeAmplifierMultiplier
  <2>1. /\ step = "gain" /\ step' = "bias"
        /\ UNCHANGED <<config, configs>>
    BY <1>6 DEF SetChargeAmplifierMultiplier, Go, settings
  <2>2. WriteRegister("rg_config", [c \in Channels |-> Multiplier(config.range[c])]) /\ config_ok
    BY <1>6 DEF SetChargeAmplifierMultiplier
  <2>3. /\ ~lost /\ board'["rg_config"] = [c \in Channels |-> Multiplier(config.range[c])]
        /\ \A q \in Registers : q # "rg_config" => board'[q] = board[q]
    BY <2>2, RegisterKinds, NotLost
  <2>4. Amplified'
    <3>1. \A c \in Channels : Multiplier(config.range[c]) # 0
      BY <1>6 DEF SetChargeAmplifierMultiplier
    <3>2. \A c \in Channels : Multiplier(config.range[c]) = config.range[c] + 1
      BY <3>1, SettingsRanges, MultiplierRange
    <3> QED
      BY <2>1, <2>3, <3>2 DEF Amplified
  <2>5. Done
    BY <2>1, <2>2, <2>3 DEF DoneInv
  <2> QED
    BY <2>1, <2>3, <2>4, <2>5, PartsKept, StepOrder DEF Done
<1>7. CASE SetInputBias
  <2>1. /\ step = "bias" /\ step' = "window"
        /\ UNCHANGED <<config, configs>>
    BY <1>7 DEF SetInputBias, Go, settings
  <2>2. WriteRegister("biasdac_data_config", VoltageSteps(config.diodeBias, INPUT_BIAS_MAX)) /\ config_ok
    BY <1>7 DEF SetInputBias, Set
  <2>3. /\ ~lost /\ board'["biasdac_data_config"] = VoltageSteps(config.diodeBias, INPUT_BIAS_MAX)
        /\ \A q \in Registers : q # "biasdac_data_config" => board'[q] = board[q]
    BY <2>2, RegisterKinds, NotLost
  <2>4. Biased'
    BY <2>1, <2>3, SettingsRanges, BiasSteps DEF Biased
  <2>5. Done
    BY <2>1, <2>2, <2>3 DEF DoneInv
  <2> QED
    BY <2>1, <2>3, <2>4, <2>5, PartsKept, StepOrder DEF Done
<1>8. CASE SetChannelAcquisitionWindow
  <2>1. /\ step = "window" /\ step' = "delay"
        /\ UNCHANGED <<config, configs>>
    BY <1>8 DEF SetChannelAcquisitionWindow, Go, settings
  <2>2. WriteRegister("reset", <<Clocks(config.acqWindow), Clocks(config.resetDelay)>>) /\ config_ok
    BY <1>8, WindowStep, Zenon
  <2>3. /\ ~lost /\ board'["reset"] = <<Clocks(config.acqWindow), Clocks(config.resetDelay)>>
        /\ \A q \in Registers : q # "reset" => board'[q] = board[q]
    BY <2>2, RegisterKinds, NotLost
  <2>4. Windowed'
    BY <2>1, <2>3, SettingsRanges, ClocksSpan DEF Windowed
  <2>5. Done
    BY <2>1, <2>2, <2>3 DEF DoneInv
  <2> QED
    BY <2>1, <2>3, <2>4, <2>5, PartsKept, StepOrder DEF Done
<1>9. CASE SetTriggerDelay
  <2>1. /\ step = "delay" /\ step' = "presample"
        /\ UNCHANGED <<config, configs>>
    BY <1>9 DEF SetTriggerDelay, Go, settings
  <2>2. WriteRegister("trig_delay", Clocks(config.trigDelay)) /\ config_ok
    BY <1>9 DEF SetTriggerDelay, Set
  <2>3. /\ ~lost /\ board'["trig_delay"] = Clocks(config.trigDelay)
        /\ \A q \in Registers : q # "trig_delay" => board'[q] = board[q]
    BY <2>2, RegisterKinds, NotLost
  <2>4. Delayed'
    BY <2>1, <2>3, SettingsRanges, ClocksSpan DEF Delayed
  <2>5. Done
    BY <2>1, <2>2, <2>3 DEF DoneInv
  <2> QED
    BY <2>1, <2>3, <2>4, <2>5, PartsKept, StepOrder DEF Done
<1>10. CASE SetTriggerPreSampleDelay
  <2>1. /\ step = "presample" /\ step' = "adc"
        /\ UNCHANGED <<config, configs>>
    BY <1>10 DEF SetTriggerPreSampleDelay, Go, settings
  <2>2. WriteRegister("trig_ps_delay", 18750) /\ config_ok /\ PresampleIn
    BY <1>10, PresampleStep
  <2>3. /\ ~lost /\ board'["trig_ps_delay"] = 18750
        /\ \A q \in Registers : q # "trig_ps_delay" => board'[q] = board[q]
    BY <2>2, RegisterKinds, NotLost
  <2>4. Presampled'
    BY <2>1, <2>2, <2>3, SMT DEF Presampled, PresampleIn
  <2>5. Done
    BY <2>1, <2>2, <2>3 DEF DoneInv
  <2> QED
    BY <2>1, <2>3, <2>4, <2>5, PartsKept, StepOrder DEF Done
<1>11. CASE SetAdcDelay
  <2>1. /\ step = "adc" /\ step' = "wait"
        /\ UNCHANGED <<config, configs>>
    BY <1>11 DEF SetAdcDelay, Go, settings
  <2>2. WriteRegister("adc_delay", 500) /\ config_ok
    BY <1>11, FixedDelays DEF SetAdcDelay
  <2>3. /\ ~lost /\ board'["adc_delay"] = 500
        /\ \A q \in Registers : q # "adc_delay" => board'[q] = board[q]
    BY <2>2, RegisterKinds, NotLost
  <2>4. Sampled'
    BY <2>3 DEF Sampled
  <2>5. Done
    BY <2>1, <2>2, <2>3 DEF DoneInv
  <2> QED
    BY <2>1, <2>3, <2>4, <2>5, PartsKept, StepOrder DEF Done
<1>12. CASE UNCHANGED vars
  <2>1. Done
    BY <1>12 DEF vars, DoneInv
  <2> QED
    BY <1>12, <2>1 DEF vars, Done, Silent, Referenced, Amplified, Biased, Windowed, Delayed,
       Presampled, PresampleIn, Sampled, Holds, Spans
<1> QED
  BY <1>1, <1>2, <1>3, <1>4, <1>5, <1>6, <1>7, <1>8, <1>9, <1>10, <1>11, <1>12 DEF Next

-----------------------------------------------------------------------------
(* A setting is rejected for a cause only.                                 *)

LEMMA DemandsKept ==
    ASSUME UNCHANGED <<config, version>>
    PROVE  /\ RefIn' <=> RefIn
           /\ GainIn' <=> GainIn
           /\ BiasIn' <=> BiasIn
           /\ WindowIn' <=> WindowIn
           /\ DelayIn' <=> DelayIn
           /\ PresampleIn' <=> PresampleIn
BY SMT DEF RefIn, GainIn, BiasIn, WindowIn, DelayIn, PresampleIn

\* What each setter demands is what it tests.
LEMMA DemandsTested ==
    ASSUME SettingInv
    PROVE  /\ RefIn <=> VoltageSteps(config.refVoltage, CHARGEAMP_REF_MAX) < STEPS
           /\ GainIn <=> /\ version = "new"
                         /\ \A c \in Channels : Multiplier(config.range[c]) # 0
           /\ BiasIn <=> VoltageSteps(config.diodeBias, INPUT_BIAS_MAX) < STEPS
           /\ WindowIn <=> WindowFits
           /\ DelayIn <=> Clocks(config.trigDelay) < STEPS
<1>1. RefIn <=> VoltageSteps(config.refVoltage, CHARGEAMP_REF_MAX) < STEPS
  BY SettingsRanges, ReferenceSteps DEF RefIn
<1>2. GainIn <=> version = "new" /\ \A c \in Channels : Multiplier(config.range[c]) # 0
  BY SettingsRanges, MultiplierRange DEF GainIn
<1>3. BiasIn <=> VoltageSteps(config.diodeBias, INPUT_BIAS_MAX) < STEPS
  BY SettingsRanges, BiasSteps DEF BiasIn
<1>4. WindowIn <=> WindowFits
  BY SettingsRanges, ClocksSpan, SMT DEF WindowIn, WindowFits
<1>5. DelayIn <=> Clocks(config.trigDelay) < STEPS
  BY SettingsRanges, ClocksSpan DEF DelayIn
<1> QED
  BY <1>1, <1>2, <1>3, <1>4, <1>5

\* A pass that goes on accepted every setting so far, or had config_ok cleared.
LEMMA NextCause == TypeOK /\ SettingInv /\ CauseInv /\ [Next]_vars => CauseInv'
<1> SUFFICES ASSUME TypeOK, SettingInv, CauseInv, [Next]_vars, configs' > 0
             PROVE  /\ step' = "version" => config_ok' /\ version' = BAD_VALUE
                    /\ step' \in AfterVersion =>
                          IF version' = BAD_VALUE THEN step' = "wait" /\ ~config_ok'
                                                  ELSE config_ok' <=> Accepted'
  BY DEF CauseInv
<1>1. ASSUME NEW rec \in Records, Start(rec)
      PROVE  step' = "version" /\ config_ok' /\ version' = BAD_VALUE
  BY <1>1 DEF Start, Go
<1>2. CASE ReadVersion
  <2>1. CASE step' = "calibration"
    <3>1. step = "version" /\ version' = firmware /\ config_ok' = config_ok
      BY <1>2, <2>1 DEF ReadVersion, Go
    <3>2. config_ok /\ version' # BAD_VALUE
      BY <1>2, <3>1 DEF ReadVersion, CauseInv, TypeOK, settings, Versions, BAD_VALUE
    <3>3. Accepted'
      BY <2>1, StepOrder, Zenon DEF Accepted
    <3> QED
      BY <2>1, <3>1, <3>2, <3>3
  <2>2. CASE step' # "calibration"
    <3>1. step = "version" /\ step' = "wait" /\ ~config_ok' /\ version' = version
      BY <1>2, <2>2 DEF ReadVersion, Go
    <3>2. configs > 0
      BY <1>2 DEF ReadVersion, settings
    <3> QED
      BY <3>1, <3>2 DEF CauseInv
  <2> QED
    BY <2>1, <2>2
<1>3. CASE ReadCalibration
  <2>1. /\ step = "calibration" /\ step' = "calibrate"
        /\ UNCHANGED <<config, configs, version>>
    BY <1>3 DEF ReadCalibration, Go, settings
  <2>2. config_ok' = config_ok
    BY <1>3 DEF ReadCalibration
  <2>3. version # BAD_VALUE /\ (config_ok <=> Accepted)
    BY <2>1, StepOrder DEF CauseInv
  <2>4. Accepted' <=> Accepted
    BY <2>1, StepOrder, DemandsKept DEF Accepted
  <2> QED
    BY <2>1, <2>2, <2>3, <2>4
<1>4. CASE WriteCalibration
  <2>1. /\ step = "calibrate" /\ step' = "ampref"
        /\ UNCHANGED <<config, configs, version>>
    BY <1>4 DEF WriteCalibration, Go, settings
  <2>2. config_ok' = config_ok
    BY <1>4 DEF WriteCalibration
  <2>3. version # BAD_VALUE /\ (config_ok <=> Accepted)
    BY <2>1, StepOrder DEF CauseInv
  <2>4. Accepted' <=> Accepted
    BY <2>1, StepOrder, DemandsKept DEF Accepted
  <2> QED
    BY <2>1, <2>2, <2>3, <2>4
<1>5. CASE SetChargeAmplifierRef
  <2>1. /\ step = "ampref" /\ step' = "gain"
        /\ UNCHANGED <<config, configs, version>>
    BY <1>5 DEF SetChargeAmplifierRef, Go, settings
  <2>2. config_ok' <=> config_ok /\ RefIn
    BY <1>5, DemandsTested DEF SetChargeAmplifierRef, Set
  <2>3. version # BAD_VALUE /\ (config_ok <=> Accepted)
    BY <2>1, StepOrder DEF CauseInv
  <2>4. Accepted' <=> Accepted /\ RefIn
    BY <2>1, StepOrder, DemandsKept DEF Accepted
  <2> QED
    BY <2>1, <2>2, <2>3, <2>4
<1>6. CASE SetChargeAmplifierMultiplier
  <2>1. /\ step = "gain" /\ step' = "bias"
        /\ UNCHANGED <<config, configs, version>>
    BY <1>6 DEF SetChargeAmplifierMultiplier, Go, settings
  <2>2. config_ok' <=> config_ok /\ GainIn
    BY <1>6, DemandsTested DEF SetChargeAmplifierMultiplier
  <2>3. version # BAD_VALUE /\ (config_ok <=> Accepted)
    BY <2>1, StepOrder DEF CauseInv
  <2>4. Accepted' <=> Accepted /\ GainIn
    BY <2>1, StepOrder, DemandsKept DEF Accepted
  <2> QED
    BY <2>1, <2>2, <2>3, <2>4
<1>7. CASE SetInputBias
  <2>1. /\ step = "bias" /\ step' = "window"
        /\ UNCHANGED <<config, configs, version>>
    BY <1>7 DEF SetInputBias, Go, settings
  <2>2. config_ok' <=> config_ok /\ BiasIn
    BY <1>7, DemandsTested DEF SetInputBias, Set
  <2>3. version # BAD_VALUE /\ (config_ok <=> Accepted)
    BY <2>1, StepOrder DEF CauseInv
  <2>4. Accepted' <=> Accepted /\ BiasIn
    BY <2>1, StepOrder, DemandsKept DEF Accepted
  <2> QED
    BY <2>1, <2>2, <2>3, <2>4
<1>8. CASE SetChannelAcquisitionWindow
  <2>1. /\ step = "window" /\ step' = "delay"
        /\ UNCHANGED <<config, configs, version>>
    BY <1>8 DEF SetChannelAcquisitionWindow, Go, settings
  <2>2. config_ok' <=> config_ok /\ WindowIn
    BY <1>8, WindowStep, DemandsTested
  <2>3. version # BAD_VALUE /\ (config_ok <=> Accepted)
    BY <2>1, StepOrder DEF CauseInv
  <2>4. Accepted' <=> Accepted /\ WindowIn
    BY <2>1, StepOrder, DemandsKept DEF Accepted
  <2> QED
    BY <2>1, <2>2, <2>3, <2>4
<1>9. CASE SetTriggerDelay
  <2>1. /\ step = "delay" /\ step' = "presample"
        /\ UNCHANGED <<config, configs, version>>
    BY <1>9 DEF SetTriggerDelay, Go, settings
  <2>2. config_ok' <=> config_ok /\ DelayIn
    BY <1>9, DemandsTested DEF SetTriggerDelay, Set
  <2>3. version # BAD_VALUE /\ (config_ok <=> Accepted)
    BY <2>1, StepOrder DEF CauseInv
  <2>4. Accepted' <=> Accepted /\ DelayIn
    BY <2>1, StepOrder, DemandsKept DEF Accepted
  <2> QED
    BY <2>1, <2>2, <2>3, <2>4
<1>10. CASE SetTriggerPreSampleDelay
  <2>1. /\ step = "presample" /\ step' = "adc"
        /\ UNCHANGED <<config, configs, version>>
    BY <1>10 DEF SetTriggerPreSampleDelay, Go, settings
  <2>2. config_ok' <=> config_ok /\ PresampleIn
    BY <1>10, PresampleStep
  <2>3. version # BAD_VALUE /\ (config_ok <=> Accepted)
    BY <2>1, StepOrder DEF CauseInv
  <2>4. Accepted' <=> Accepted /\ PresampleIn
    BY <2>1, StepOrder, DemandsKept DEF Accepted
  <2> QED
    BY <2>1, <2>2, <2>3, <2>4
<1>11. CASE SetAdcDelay
  <2>1. /\ step = "adc" /\ step' = "wait"
        /\ UNCHANGED <<config, configs, version>>
    BY <1>11 DEF SetAdcDelay, Go, settings
  <2>2. config_ok' = config_ok
    BY <1>11 DEF SetAdcDelay
  <2>3. version # BAD_VALUE /\ (config_ok <=> Accepted)
    BY <2>1, StepOrder DEF CauseInv
  <2>4. Accepted' <=> Accepted
    BY <2>1, StepOrder, DemandsKept DEF Accepted
  <2> QED
    BY <2>1, <2>2, <2>3, <2>4
<1>12. CASE UNCHANGED vars
  <2>1. UNCHANGED <<step, config, config_ok, configs, version>>
    BY <1>12 DEF vars
  <2>2. Accepted' <=> Accepted
    BY <2>1, DemandsKept DEF Accepted
  <2> QED
    BY <2>1, <2>2 DEF CauseInv
<1> QED
  <2>1. \/ (\E rec \in Records : Start(rec)) \/ ReadVersion \/ ReadCalibration \/ WriteCalibration
        \/ SetChargeAmplifierRef \/ SetChargeAmplifierMultiplier \/ SetInputBias
        \/ SetChannelAcquisitionWindow \/ SetTriggerDelay \/ SetTriggerPreSampleDelay
        \/ SetAdcDelay \/ UNCHANGED vars
    BY DEF Next
  <2>2. ASSUME NEW rec \in Records, Start(rec)
        PROVE  "version" \notin AfterVersion /\ step' = "version" /\ config_ok'
               /\ version' = BAD_VALUE
    BY <2>2, <1>1, StepOrder
  <2> QED
    BY <1>2, <1>3, <1>4, <1>5, <1>6, <1>7, <1>8, <1>9, <1>10, <1>11, <1>12, <2>1, <2>2

-----------------------------------------------------------------------------
(* The theorems.                                                           *)

SequenceInv == TypeOK /\ SettingInv /\ DoneInv /\ CauseInv

LEMMA SequenceInvariant == Spec => []SequenceInv
<1>1. Init => SequenceInv
  <2>1. Init => DoneInv /\ CauseInv
    BY DEF Init, DoneInv, CauseInv
  <2> QED
    BY <2>1, InitType DEF SequenceInv
<1>2. SequenceInv /\ [Next]_vars => SequenceInv'
  BY NextType, NextDone, NextCause DEF SequenceInv
<1> QED
  BY <1>1, <1>2, PTL DEF Spec

\* The registers keep their width, whatever the setting records hold.
THEOREM TypeCorrect == Spec => []TypeOK
<1>1. SequenceInv => TypeOK
  BY DEF SequenceInv
<1> QED
  BY <1>1, SequenceInvariant, PTL

\* A pass of do_configure that ends with config_ok, and none of whose writes
\* was lost, programmed every register as the setting says.
THEOREM OkBoardIsProgrammed == Spec => []OkMeansProgrammed
<1>1. SequenceInv => OkMeansProgrammed
  <2> SUFFICES ASSUME SequenceInv, Over, config_ok, ~lost
               PROVE  Programmed(config)
    BY DEF OkMeansProgrammed
  <2>1. Silent /\ Referenced /\ Amplified /\ Biased /\ Windowed /\ Delayed /\ Presampled /\ Sampled
    BY StepOrder DEF SequenceInv, Over, DoneInv, Done
  <2>2. board["trig_delay"] >= board["trig_ps_delay"] + 10 * board["adc_delay"]
    <3>1. board["trig_delay"] \in Nat /\ config.trigDelay \in Nat
      BY SettingsRanges DEF SequenceInv, TypeOK, NumberRegisters
    <3>2. board["trig_delay"] * 8 >= 190000
      BY <2>1, <3>1, SMT DEF Delayed, Spans, CLOCK_PERIOD, Presampled, PresampleIn
    <3>3. board["trig_ps_delay"] = 18750 /\ board["adc_delay"] = 500
      BY <2>1, SMT DEF Presampled, Sampled
    <3> QED
      BY <3>1, <3>2, <3>3, SMT
  <2> QED
    BY <2>1, <2>2 DEF Programmed, Silent, Referenced, Amplified, Biased, Windowed, Delayed
<1> QED
  BY <1>1, SequenceInvariant, PTL

\* It ends without config_ok if the setting is out of the limits, the firmware
\* is old or the board did not answer, and with gains below 14 only then.
THEOREM RejectedOnlyForCause == Spec => []RejectedForCause
<1>1. SequenceInv => RejectedForCause
  <2> SUFFICES ASSUME SequenceInv, Over
               PROVE  config_ok <=> /\ version = "new" /\ InLimits(config)
                                    /\ \A c \in Channels : config.range[c] < 14
    BY DEF RejectedForCause
  <2>1. IF version = BAD_VALUE THEN ~config_ok ELSE config_ok <=> Accepted
    BY StepOrder DEF SequenceInv, Over, CauseInv
  <2>2. Accepted <=> RefIn /\ GainIn /\ BiasIn /\ WindowIn /\ DelayIn /\ PresampleIn
    BY StepOrder DEF Over, Accepted
  <2>3. RefIn /\ BiasIn /\ WindowIn /\ DelayIn /\ PresampleIn <=> InLimits(config)
    BY SMT DEF RefIn, BiasIn, WindowIn, DelayIn, PresampleIn, InLimits
  <2>4. BAD_VALUE # "new"
    BY DEF BAD_VALUE
  <2> QED
    BY <2>1, <2>2, <2>3, <2>4 DEF GainIn
<1> QED
  BY <1>1, SequenceInvariant, PTL

=============================================================================
