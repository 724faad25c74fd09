----------------------------- MODULE ChannelGain -----------------------------
(***************************************************************************)
(* The base and the scale of a channel, two bigsel records that follow the *)
(* gain of the channel: ChargeAmpRangeCHn -> fanout -> CHn_BASE ->         *)
(* CHn_SCALE.  Operators write the gain and the values for each gain       *)
(* (fields A to O), which are saved and come back when the IOC restarts.   *)
(*                                                                         *)
(* The records share a lock set, so a chain is one step.                   *)
(***************************************************************************)
EXTENDS Bigsel

CONSTANTS
    Gains,              \* the choices of ChargeAmpRangeCHn
    Calibrations(_),    \* what an operator may enter for a gain
    Constants,          \* the values of the links INPA to INPO in the database
    DefaultVal,         \* VAL in the database
    MaxPuts             \* bound: values entered

ASSUME GainAssumption ==
    /\ MaxPuts \in Nat
    /\ Gains \subseteq Fields /\ Inputs \subseteq Gains
    /\ \A g \in Inputs : Constants[g] \in Calibrations(g)
    /\ \A g, h \in Gains : g # h => Calibrations(g) \cap Calibrations(h) = {}

VARIABLES
    gain,           \* ChargeAmpRangeCHn
    base, scale,    \* CHn_BASE, CHn_SCALE
    saved,          \* what autosave keeps
    puts            \* bounds the values entered

vars == <<gain, base, scale, saved, puts>>

\* A record as the database loads it.
Loaded ==
    [selm |-> "Specified", seln |-> 0, a |-> [i \in Fields |-> 0],
     val |-> DefaultVal, udf |-> FALSE, alarm |-> Quiet, lalm |-> 0, mlst |-> 0,
     alst |-> 0, nlst |-> 0, la |-> [i \in Inputs |-> 0]]

\* The links INPx are constants: processing gets nothing from them.
Processed(prec, g) == {r.prec : r \in process(prec, g, prec.a)}

\* Mutant: the forward link of CHn_BASE is missing.
ChainToBase(g, b, s) ==
    /\ base' \in Processed(b, g)
    /\ scale' = s

\* CHn_BASE and CHn_SCALE are processed, beginning in b and s.
Chain(g, b, s) ==
    /\ base' \in Processed(b, g)
    /\ scale' \in Processed(s, g)

\* What is on the list of autosave: A to O, SELN and VAL of both, and the gain.
Kept(prec) == [a |-> prec.a, seln |-> prec.seln, val |-> prec.val]
Snapshot == [gain |-> gain, base |-> Kept(base), scale |-> Kept(scale)]

Restored(prec, kept) ==
    [prec EXCEPT !.a = kept.a, !.seln = kept.seln, !.val = kept.val]

\* Mutant: values are restored before the records are initialised.
BootedFrom0(kept) == init_record(Restored(Loaded, kept), Broken, Constants)

\* Load the database, initialise the records, restore what was saved.
Booted(kept) == Restored(init_record(Loaded, Broken, Constants), kept)

Init ==
    /\ gain = 0
    /\ base \in Processed(init_record(Loaded, Broken, Constants), 0)
    /\ scale \in Processed(init_record(Loaded, Broken, Constants), 0)
    /\ saved = Snapshot
    /\ puts = 0

SetGain(g) ==
    /\ gain' = g
    /\ Chain(g, base, scale)
    /\ UNCHANGED <<saved, puts>>

Entered(prec, i, v) == [prec EXCEPT !.a[i] = v]

\* Writing an input processes the record, and CHn_BASE goes on to CHn_SCALE.
PutBase(i, v) ==
    /\ puts < MaxPuts /\ puts' = puts + 1
    /\ Chain(gain, Entered(base, i, v), scale)
    /\ UNCHANGED <<gain, saved>>

PutScale(i, v) ==
    /\ puts < MaxPuts /\ puts' = puts + 1
    /\ scale' \in Processed(Entered(scale, i, v), gain)
    /\ UNCHANGED <<gain, base, saved>>

Save ==
    /\ saved' = Snapshot
    /\ UNCHANGED <<gain, base, scale, puts>>

\* The gain has PINI set, so the chain is processed at the end of iocInit.
Restart ==
    /\ gain' = saved.gain
    /\ Chain(saved.gain, Booted(saved.base), Booted(saved.scale))
    /\ UNCHANGED <<saved, puts>>

Next ==
    \/ \E g \in Gains : SetGain(g)
    \/ \E i \in Gains : \E v \in Calibrations(i) : PutBase(i, v) \/ PutScale(i, v)
    \/ Save
    \/ Restart

Spec == Init /\ [][Next]_vars

-----------------------------------------------------------------------------
(* Properties.                                                             *)

Valid(prec) == prec.alarm.sevr < INVALID_ALARM

\* The channel is computed with the newest values entered for its gain, or
\* both records are INVALID: the latter for the gains above SEL_MAX, which
\* the record offers and the select records do not know.
CalibratedForGain ==
    IF gain \in Inputs
      THEN /\ base.val = base.a[gain] /\ Valid(base)
           /\ scale.val = scale.a[gain] /\ Valid(scale)
      ELSE ~Valid(base) /\ ~Valid(scale)

\* Base and scale are always of one gain, also while the gain is unknown to
\* them, and after a restart then.
OfOneGain ==
    \E g \in Inputs : base.val \in Calibrations(g) /\ scale.val \in Calibrations(g)

\* A restart right after a save changes neither the calibration in use nor
\* that of any other gain.
SurvivesRestart ==
    [][Restart /\ saved = Snapshot =>
         Kept(base') = Kept(base) /\ Kept(scale') = Kept(scale)]_vars

=============================================================================
