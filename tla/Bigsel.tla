------------------------------- MODULE Bigsel -------------------------------
(***************************************************************************)
(* Record support of the bigsel record (bigselRecord.c) as functions from  *)
(* a record to the record that processing makes of it.  Doubles are whole  *)
(* numbers or NaN.  Device, link and monitor services of EPICS base are    *)
(* taken from how this file uses them.                                     *)
(***************************************************************************)
EXTENDS Integers, Sequences

CONSTANTS
    SEL_MAX,        \* the inputs that processing looks at
    NFields,        \* the inputs that the record has, INPA to INPP
    NaN,
    Infinity,       \* no number is above it
    Broken,         \* what a link gives that cannot be read
    Limits          \* HIHI, LOLO, HIGH, LOW with severities, UDFS, HYST, MDEL, ADEL

ASSUME BigselAssumption ==
    /\ SEL_MAX \in Nat \ {0} /\ NFields \in Nat /\ SEL_MAX <= NFields
    /\ Infinity \in Int /\ NaN \notin Int /\ Broken \notin Int \cup {NaN}

Inputs == 0 .. (SEL_MAX - 1)
Fields == 0 .. (NFields - 1)
Modes == {"Specified", "High Signal", "Low Signal", "Median Signal"}

\* Severities.
NO_ALARM == 0
MINOR_ALARM == 1
MAJOR_ALARM == 2
INVALID_ALARM == 3

Quiet == [stat |-> "NO_ALARM", sevr |-> NO_ALARM]

\* Each limit alarm has a status of its own, none of which another alarm uses.
ASSUME LimitsAssumption ==
    /\ Limits.alarms \in Seq([stat : STRING, sevr : NO_ALARM .. INVALID_ALARM,
                             level : Int, upper : BOOLEAN])
    /\ \A k, l \in 1 .. Len(Limits.alarms) :
          Limits.alarms[k].stat = Limits.alarms[l].stat => k = l
    /\ \A k \in 1 .. Len(Limits.alarms) :
          Limits.alarms[k].stat \notin {"NO_ALARM", "UDF", "LINK", "SOFT"}
    /\ Limits.udfs \in NO_ALARM .. INVALID_ALARM
    /\ Limits.hyst \in Int /\ Limits.mdel \in Int /\ Limits.adel \in Int

\* recGblSetSevr raises the alarm of this processing, and never lowers it.
recGblSetSevr(alarm, stat, sevr) ==
    IF sevr > alarm.sevr THEN [stat |-> stat, sevr |-> sevr] ELSE alarm

-----------------------------------------------------------------------------
(* init_record: the inputs start as NaN or as the constant of their link,  *)
(* the index as the constant of its own; Broken stands for a link that is  *)
(* no constant.  Fields above SEL_MAX, and the last value alarmed,         *)
(* monitored and archived, are left alone.                                 *)

\* Mutant: the inputs keep what the memory of the record held.
init_recordUnset(prec, index, constants) == prec

init_record(prec, index, constants) ==
    [prec EXCEPT
        !.seln = IF index = Broken THEN prec.seln ELSE index,
        !.a = [i \in Fields |-> IF i \in Inputs THEN constants[i] ELSE prec.a[i]]]

-----------------------------------------------------------------------------
(* fetch_values: nvl is what the link to the index gives, and inp what     *)
(* those to the inputs give.  ok is the status it returns; a link that     *)
(* cannot be read raises LINK_ALARM.                                       *)

Fetched(prec, inp, which) ==
    [i \in Fields |-> IF i \in which /\ inp[i] # Broken THEN inp[i] ELSE prec.a[i]]

LinkAlarm(broken) ==
    IF broken THEN recGblSetSevr(Quiet, "LINK", INVALID_ALARM) ELSE Quiet

FetchSpecified(prec, nvl, inp) ==
    LET seln == IF nvl = Broken THEN prec.seln ELSE nvl
        read == nvl # Broken /\ seln \in Inputs
        bad  == nvl = Broken \/ (read /\ inp[seln] = Broken)
    IN  [prec  |-> [prec EXCEPT !.seln = seln,
                       !.a = IF read THEN Fetched(prec, inp, {seln}) ELSE @],
         ok    |-> ~bad,
         alarm |-> LinkAlarm(bad)]

\* The status of all inputs but the last is overwritten.
FetchAll(prec, inp) ==
    [prec  |-> [prec EXCEPT !.a = Fetched(prec, inp, Inputs)],
     ok    |-> inp[SEL_MAX - 1] # Broken,
     alarm |-> LinkAlarm(\E i \in Inputs : inp[i] = Broken)]

fetch_values(prec, nvl, inp) ==
    IF prec.selm = "Specified" THEN FetchSpecified(prec, nvl, inp)
    ELSE FetchAll(prec, inp)

-----------------------------------------------------------------------------
(* do_sel.                                                                 *)

\* The scans of High Signal and Low Signal, after n inputs: the first that
\* beats the best so far, over those that are numbers.
Beats(v, best, high) == IF high THEN v > best ELSE v < best

ScanSteps(prec, high, start) ==
    LET best[n \in 0 .. SEL_MAX] ==
            IF n = 0 THEN [val |-> start, seln |-> prec.seln]
            ELSE LET v == prec.a[n - 1]
                 IN  IF v # NaN /\ Beats(v, best[n - 1].val, high)
                     THEN [val |-> v, seln |-> n - 1]
                     ELSE best[n - 1]
    IN  best

Scan(prec, high, start) == ScanSteps(prec, high, start)[SEL_MAX]

\* Mutant: a value is shifted past one other at most.
InsertedOnePast(order, v) ==
    LET n == Len(order)
    IN  IF n > 0 /\ order[n] > v THEN SubSeq(order, 1, n - 1) \o <<v, order[n]>>
        ELSE Append(order, v)

\* One round of the insertion sort: v goes behind the last value that is not
\* above it.
Inserted(order, v) ==
    LET before == {k \in 1 .. Len(order) : order[k] <= v}
        j == IF before = {} THEN 0
             ELSE CHOOSE k \in before : \A l \in before : k >= l
    IN  SubSeq(order, 1, j) \o <<v>> \o SubSeq(order, j + 1, Len(order))

SortSteps(prec) ==
    LET order[n \in 0 .. SEL_MAX] ==
            IF n = 0 THEN << >>
            ELSE IF prec.a[n - 1] = NaN THEN order[n - 1]
            ELSE Inserted(order[n - 1], prec.a[n - 1])
    IN  order

Sorted(prec) == SortSteps(prec)[SEL_MAX]

Median(prec) ==
    LET order == Sorted(prec)
        count == Len(order)
    IN  [val |-> IF count = 0 THEN NaN ELSE order[count \div 2 + 1], seln |-> count]

Selected(prec) ==
    CASE prec.selm = "Specified"     -> [val |-> prec.a[prec.seln], seln |-> prec.seln]
      [] prec.selm = "High Signal"   -> Scan(prec, TRUE, -Infinity)
      [] prec.selm = "Low Signal"    -> Scan(prec, FALSE, Infinity)
      [] prec.selm = "Median Signal" -> Median(prec)

\* Mutant: an index that no input has leaves the value without an alarm.
OutOfRangeSilently(f) == f

\* The value is kept, and SOFT_ALARM says so.
OutOfRange(f) == [f EXCEPT !.alarm = recGblSetSevr(@, "SOFT", INVALID_ALARM)]

do_sel(f) ==
    IF f.prec.selm = "Specified" /\ f.prec.seln >= SEL_MAX THEN OutOfRange(f)
    ELSE LET s == Selected(f.prec)
         IN  [f EXCEPT !.prec.val = s.val, !.prec.seln = s.seln,
                       !.prec.udf = (s.val = NaN)]

-----------------------------------------------------------------------------
(* checkAlarms.  The limits are tested in the order of the code.           *)

\* Mutant: the alarm is left as soon as the limit is.
ExceedsNow(prec, limit) ==
    IF limit.upper THEN prec.val >= limit.level ELSE prec.val <= limit.level

\* At the limit or beyond, or not yet hyst away from one that was alarmed.
Exceeds(prec, limit) ==
    LET band == IF prec.lalm = limit.level THEN Limits.hyst ELSE 0
    IN  IF limit.upper THEN prec.val >= limit.level - band
        ELSE prec.val <= limit.level + band

Exceeded(prec) ==
    {k \in 1 .. Len(Limits.alarms) :
        Limits.alarms[k].sevr # NO_ALARM /\ Exceeds(prec, Limits.alarms[k])}

\* LALM follows an alarm only if it is raised here, and follows VAL if
\* there is none.
checkAlarms(f) ==
    IF f.prec.udf THEN [f EXCEPT !.alarm = recGblSetSevr(@, "UDF", Limits.udfs)]
    ELSE IF Exceeded(f.prec) = {} THEN [f EXCEPT !.prec.lalm = f.prec.val]
    ELSE LET k == CHOOSE j \in Exceeded(f.prec) : \A l \in Exceeded(f.prec) : j <= l
             limit == Limits.alarms[k]
         IN  [f EXCEPT
                !.alarm = recGblSetSevr(@, limit.stat, limit.sevr),
                !.prec.lalm = IF limit.sevr > f.alarm.sevr THEN limit.level ELSE @]

-----------------------------------------------------------------------------
(* monitor.  posts says which fields a client that watches values and      *)
(* alarms is told of.                                                      *)

\* recGblCheckDeadband
Moved(old, new, deadband) ==
    \/ (old = NaN) # (new = NaN)
    \/ old # NaN /\ new # NaN /\ (new > old + deadband \/ new < old - deadband)

\* NaN differs from itself.
Differs(x, y) == x # y \/ x = NaN

\* Mutant: MLST moves also when nothing is posted.
MonitoredAlways(prec, value) == prec.val

Monitored(prec, value) == IF value THEN prec.val ELSE prec.mlst

monitor(f) ==
    LET prec == f.prec
        value == Moved(prec.mlst, prec.val, Limits.mdel)
        archive == Moved(prec.alst, prec.val, Limits.adel)
        alarms == f.alarm # prec.alarm
    IN  [prec  |-> [prec EXCEPT
                      !.alarm = f.alarm,
                      !.mlst = Monitored(prec, value),
                      !.alst = IF archive THEN prec.val ELSE @,
                      !.nlst = prec.seln,
                      !.la = [i \in Inputs |-> prec.a[i]]],
         posts |-> [val    |-> value \/ alarms,
                    seln   |-> prec.nlst # prec.seln,
                    inputs |-> {i \in Inputs : Differs(prec.a[i], prec.la[i])}]]

-----------------------------------------------------------------------------
\* process, up to the forward link: the records it may make of prec, which is
\* one, with what it posts.
process(prec, nvl, inp) ==
    {monitor(g) : g \in
        {checkAlarms(f) : f \in
            {IF f.ok THEN do_sel(f) ELSE f : f \in {fetch_values(prec, nvl, inp)}}}}

=============================================================================
