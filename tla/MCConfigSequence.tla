---------------------------- MODULE MCConfigSequence ----------------------------
(***************************************************************************)
(* Settings at the limits of the setters and of the records: one that is   *)
(* all right, and that one with each field at each of its limits.          *)
(***************************************************************************)
EXTENDS ConfigSequence

Gains(a, b) == [c \in Channels |-> IF c = 2 THEN b ELSE a]

Default == [range |-> Gains(0, 0), refVoltage |-> 10, diodeBias |-> 300,
            acqWindow |-> 600000, resetDelay |-> 4095, trigDelay |-> 250000]

SettingRecords ==
    {[Default EXCEPT !.range = Gains(a, b)] : a \in {0, 13}, b \in {6, 13, 14}}
      \cup {[Default EXCEPT !.refVoltage = v] : v \in {0, 7, 100, 101, 2000}}
      \cup {[Default EXCEPT !.diodeBias = v] : v \in {0, 1, 1999, 2000}}
      \cup {[Default EXCEPT !.acqWindow = v] : v \in {0, 1, 2000000}}
      \cup {[Default EXCEPT !.resetDelay = v] : v \in {0, 8, 32760, 32761, 70000, 500000}}
      \cup {[Default EXCEPT !.trigDelay = v] : v \in {40000, 189999, 190000, 499993, 500000}}

=============================================================================
