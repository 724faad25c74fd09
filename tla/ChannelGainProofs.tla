--------------------------- MODULE ChannelGainProofs ---------------------------
(***************************************************************************)
(* Theorems of ChannelGain for any gains, calibrations, limits and number  *)
(* of restarts: operators enter numbers, and no limit alarm is INVALID.    *)
(***************************************************************************)
EXTENDS ChannelGain, WellFoundedInduction, TLAPS

NumbersEntered ==
    DefaultVal \in Int /\ \A g \in Gains : Calibrations(g) \subseteq Int

NoLimitIsInvalid ==
    \A k \in 1 .. Len(Limits.alarms) : Limits.alarms[k].sevr < INVALID_ALARM

-----------------------------------------------------------------------------
(* Processing a record of a channel.                                       *)

Stats == {"NO_ALARM", "UDF", "LINK", "SOFT"}
            \cup {Limits.alarms[k].stat : k \in 1 .. Len(Limits.alarms)}
AlarmType == [stat : Stats, sevr : NO_ALARM .. INVALID_ALARM]
Entries == [Fields -> Int]

\* A record that selects by index among numbers, and is defined.
ChannelRecord ==
    [selm : {"Specified"}, seln : Fields, a : Entries, val : Int, udf : {FALSE},
     alarm : AlarmType, lalm : Int, mlst : Int, alst : Int, nlst : Fields, la : [Inputs -> Int]]

LEMMA Severities ==
    /\ NO_ALARM \in Int /\ INVALID_ALARM \in Int /\ NO_ALARM < INVALID_ALARM
    /\ NO_ALARM .. INVALID_ALARM \subseteq Int
    /\ Quiet \in AlarmType /\ Quiet.sevr = NO_ALARM
BY DEF NO_ALARM, INVALID_ALARM, Quiet, AlarmType, Stats

LEMMA Places ==
    /\ Inputs \subseteq Fields /\ Gains \subseteq Fields /\ Fields \subseteq Nat
    /\ \A g \in Fields : g \notin Inputs <=> g >= SEL_MAX
    /\ 0 \in Inputs /\ Infinity \in Int /\ NaN \notin Int /\ Broken \notin Int
BY BigselAssumption, GainAssumption DEF Inputs, Fields

\* A set of positions has a first one.
LEMMA FirstPosition ==
    ASSUME NEW m \in Nat, NEW T \in SUBSET (1 .. m), T # {}
    PROVE  \E k \in T : \A l \in T : k <= l
<1>1. T \subseteq Nat
  OBVIOUS
<1>2. \E k \in T : \A n \in T : ~(<<n, k>> \in OpToRel(<, Nat))
  BY <1>1, NatLessThanWellFounded, WFMin, Zenon
<1>3. OpToRel(<, Nat) = {p \in Nat \X Nat : p[1] < p[2]}
  BY Zenon DEF OpToRel
<1>4. \A n, k \in T : <<n, k>> \in OpToRel(<, Nat) <=> n < k
  BY <1>1, <1>3
<1>5. PICK k \in T : \A n \in T : ~(n < k)
  BY <1>2, <1>4
<1>6. \A n \in T : k <= n
  BY <1>1, <1>5
<1> QED
  BY <1>6

\* fetch_values gets nothing from the constant links but what the fields hold.
LEMMA FetchNothing ==
    ASSUME NEW p \in ChannelRecord, NEW g \in Gains
    PROVE  LET f == fetch_values(p, g, p.a)
           IN  /\ f.prec \in ChannelRecord
               /\ f.prec = [p EXCEPT !.seln = g]
               /\ f.ok = TRUE /\ f.alarm = Quiet
<1> DEFINE a == Fetched(p, p.a, {g})
           bad == g = Broken \/ (g # Broken /\ g \in Inputs /\ p.a[g] = Broken)
           f == fetch_values(p, g, p.a)
<1>1. g \in Fields /\ g # Broken /\ p.a \in Entries /\ p.selm = "Specified"
  BY Places DEF ChannelRecord
<1>2. \A i \in Fields : p.a[i] \in Int
  BY <1>1 DEF Entries
<1>3. bad = FALSE
  BY <1>1, <1>2, Places
<1>4. a = p.a
  <2>1. \A i \in Fields : (IF i \in {g} /\ p.a[i] # Broken THEN p.a[i] ELSE p.a[i]) = p.a[i]
    OBVIOUS
  <2>2. p.a = [i \in Fields |-> p.a[i]]
    BY <1>1 DEF Entries
  <2> QED
    BY <2>1, <2>2 DEF Fetched
<1>5. f = [prec |-> [p EXCEPT !.seln = g, !.a = IF g \in Inputs THEN a ELSE p.a],
           ok |-> ~bad, alarm |-> LinkAlarm(bad)]
  BY <1>1 DEF fetch_values, FetchSpecified, ChannelRecord
<1>6. LinkAlarm(FALSE) = Quiet
  BY DEF LinkAlarm
<1> HIDE DEF a, bad
<1>7. f = [prec |-> [p EXCEPT !.seln = g, !.a = p.a], ok |-> TRUE, alarm |-> Quiet]
  BY <1>3, <1>4, <1>5, <1>6
<1>8. [p EXCEPT !.seln = g, !.a = p.a] = [p EXCEPT !.seln = g]
  BY <1>1 DEF ChannelRecord
<1>9. [p EXCEPT !.seln = g] \in ChannelRecord
  BY <1>1 DEF ChannelRecord
<1> QED
  BY <1>7, <1>8, <1>9

\* do_sel takes the number of the gain, or keeps the value with SOFT_ALARM.
LEMMA SelectEntry ==
    ASSUME NEW p \in ChannelRecord
    PROVE  LET s == do_sel([prec |-> p, ok |-> TRUE, alarm |-> Quiet])
           IN  IF p.seln \in Inputs
               THEN s = [prec |-> [p EXCEPT !.val = p.a[p.seln]], ok |-> TRUE, alarm |-> Quiet]
               ELSE /\ s = [prec |-> p, ok |-> TRUE, alarm |-> s.alarm]
                    /\ s.alarm \in AlarmType /\ s.alarm.sevr = INVALID_ALARM
<1> DEFINE f == [prec |-> p, ok |-> TRUE, alarm |-> Quiet]
           v == p.a[p.seln]
<1>0. f.prec = p /\ f.alarm = Quiet
  OBVIOUS
<1>1. p \in ChannelRecord /\ p.seln \in Fields /\ p.selm = "Specified" /\ p.a \in Entries
      /\ p.udf = FALSE
  BY DEF ChannelRecord
<1>2. CASE p.seln \in Inputs
  <2>1. v \in Int /\ v # NaN
    BY <1>1, Places DEF Entries
  <2>2. ~(p.seln >= SEL_MAX)
    BY <1>1, <1>2, Places
  <2>3. Selected(p) = [val |-> v, seln |-> p.seln]
    BY <1>1 DEF Selected
  <2>4. do_sel(f) = [f EXCEPT !.prec.val = v, !.prec.seln = p.seln, !.prec.udf = (v = NaN)]
    <3> HIDE DEF f
    <3> QED
      BY <1>0, <2>2, <2>3 DEF do_sel
  <2>5. (v = NaN) = FALSE
    BY <2>1
  <2>6. [p EXCEPT !.val = v, !.seln = p.seln, !.udf = FALSE] = [p EXCEPT !.val = v]
    BY <1>1 DEF ChannelRecord
  <2> HIDE DEF v
  <2>7. do_sel(f) = [f EXCEPT !.prec = [p EXCEPT !.val = v, !.seln = p.seln, !.udf = FALSE]]
    BY <1>1, <2>4, <2>5 DEF ChannelRecord
  <2>8. do_sel(f) = [prec |-> [p EXCEPT !.val = v], ok |-> TRUE, alarm |-> Quiet]
    BY <2>6, <2>7
  <2> QED
    BY <1>2, <2>8 DEF v
<1>3. CASE p.seln \notin Inputs
  <2>1. p.seln >= SEL_MAX
    BY <1>1, <1>3, Places
  <2>2. do_sel(f) = [f EXCEPT !.alarm = recGblSetSevr(f.alarm, "SOFT", INVALID_ALARM)]
    BY <1>1, <2>1 DEF do_sel, OutOfRange
  <2> DEFINE al == recGblSetSevr(Quiet, "SOFT", INVALID_ALARM)
  <2>3. al \in AlarmType /\ al.sevr = INVALID_ALARM
    BY Severities DEF recGblSetSevr, AlarmType, Stats
  <2> HIDE DEF al
  <2>4. do_sel(f) = [prec |-> p, ok |-> TRUE, alarm |-> al]
    BY <1>0, <2>2 DEF al
  <2> DEFINE s == do_sel(f)
  <2> HIDE DEF s
  <2>5. s.alarm = al /\ s = [prec |-> p, ok |-> TRUE, alarm |-> al]
    BY <2>4 DEF s
  <2>6. s = [prec |-> p, ok |-> TRUE, alarm |-> s.alarm] /\ s.alarm = al
    BY <2>5
  <2> QED
    BY <1>3, <2>3, <2>6 DEF s
<1> QED
  BY <1>2, <1>3

\* A limit alarm neither makes the record INVALID nor lowers an alarm.
LEMMA CheckEntry ==
    ASSUME NoLimitIsInvalid, NEW p \in ChannelRecord, NEW al \in AlarmType
    PROVE  LET h == checkAlarms([prec |-> p, ok |-> TRUE, alarm |-> al])
           IN  /\ h.prec \in ChannelRecord /\ h.alarm \in AlarmType
               /\ h.prec.a = p.a /\ h.prec.seln = p.seln /\ h.prec.val = p.val
               /\ h.alarm.sevr = INVALID_ALARM <=> al.sevr = INVALID_ALARM
<1> DEFINE f == [prec |-> p, ok |-> TRUE, alarm |-> al]
           h == checkAlarms(f)
<1>1. f.prec = p /\ f.alarm = al /\ f = [prec |-> p, ok |-> TRUE, alarm |-> al]
  OBVIOUS
<1>2. p.udf = FALSE /\ p.val \in Int /\ p.lalm \in Int
  BY DEF ChannelRecord
<1> HIDE DEF f
<1>3. CASE Exceeded(p) = {}
  <2> DEFINE q == [p EXCEPT !.lalm = p.val]
  <2>1. q \in ChannelRecord /\ q.a = p.a /\ q.seln = p.seln /\ q.val = p.val
    BY <1>2 DEF ChannelRecord
  <2>2. h = [f EXCEPT !.prec.lalm = p.val]
    BY <1>1, <1>2, <1>3 DEF checkAlarms
  <2>3. h = [f EXCEPT !.prec = q]
    BY <1>1, <2>2
  <2> HIDE DEF q
  <2>4. h.prec = q /\ h.alarm = al
    BY <1>1, <2>3
  <2> QED
    BY <2>1, <2>4 DEF f
<1>4. CASE Exceeded(p) # {}
  <2> DEFINE E == Exceeded(p)
             k == CHOOSE j \in E : \A l \in E : j <= l
             limit == Limits.alarms[k]
             up == recGblSetSevr(al, limit.stat, limit.sevr)
             lalm == IF limit.sevr > al.sevr THEN limit.level ELSE p.lalm
             q == [p EXCEPT !.lalm = lalm]
  <2> DEFINE T == [stat : STRING, sevr : NO_ALARM .. INVALID_ALARM, level : Int, upper : BOOLEAN]
  <2>1. Len(Limits.alarms) \in Nat /\ \A j \in 1 .. Len(Limits.alarms) : Limits.alarms[j] \in T
    <3>1. Limits.alarms \in Seq(T)
      BY LimitsAssumption
    <3> HIDE DEF T
    <3> QED
      BY <3>1
  <2>2. E \in SUBSET (1 .. Len(Limits.alarms))
    BY DEF Exceeded
  <2>3. k \in E
    <3>1. \E j \in E : \A l \in E : j <= l
      BY <1>4, <2>1, <2>2, FirstPosition
    <3> HIDE DEF E
    <3> QED
      BY <3>1
  <2>4. h = [f EXCEPT !.alarm = up, !.prec.lalm = lalm]
    BY <1>1, <1>2, <1>4 DEF checkAlarms
  <2> HIDE DEF E, k
  <2>5. k \in 1 .. Len(Limits.alarms)
    BY <2>2, <2>3
  <2>6. /\ limit.stat \in Stats /\ limit.level \in Int
        /\ limit.sevr \in NO_ALARM .. INVALID_ALARM /\ limit.sevr < INVALID_ALARM
    BY <2>1, <2>5 DEF NoLimitIsInvalid, Stats
  <2> HIDE DEF limit
  <2>7. al.sevr \in NO_ALARM .. INVALID_ALARM
    BY DEF AlarmType
  <2>8. up \in AlarmType /\ (up.sevr = INVALID_ALARM <=> al.sevr = INVALID_ALARM)
    BY <2>6, <2>7 DEF recGblSetSevr, AlarmType, NO_ALARM, INVALID_ALARM
  <2>9. lalm \in Int
    BY <1>2, <2>6
  <2> HIDE DEF up, lalm
  <2>10. q \in ChannelRecord /\ q.a = p.a /\ q.seln = p.seln /\ q.val = p.val
    BY <2>9 DEF ChannelRecord
  <2>11. h = [f EXCEPT !.alarm = up, !.prec = q]
    BY <1>1, <2>4
  <2> HIDE DEF q
  <2>12. h.prec = q /\ h.alarm = up
    BY <1>1, <2>11
  <2> QED
    BY <2>8, <2>10, <2>12 DEF f
<1> QED
  BY <1>3, <1>4

\* monitor leaves the value and what it is selected from alone.
LEMMA MonitorEntry ==
    ASSUME NEW f, f.prec \in ChannelRecord, f.alarm \in AlarmType
    PROVE  LET r == monitor(f).prec
           IN  /\ r \in ChannelRecord
               /\ r.a = f.prec.a /\ r.seln = f.prec.seln /\ r.val = f.prec.val
               /\ r.alarm = f.alarm
<1> DEFINE p == f.prec
           mlst == Monitored(p, Moved(p.mlst, p.val, Limits.mdel))
           alst == IF Moved(p.alst, p.val, Limits.adel) THEN p.val ELSE p.alst
           la == [i \in Inputs |-> p.a[i]]
           q == [p EXCEPT !.alarm = f.alarm, !.mlst = mlst, !.alst = alst, !.nlst = p.seln,
                          !.la = la]
<1>1. monitor(f).prec = q
  <2>1. q = [p EXCEPT !.alarm = f.alarm, !.mlst = mlst,
                      !.alst = IF Moved(p.alst, p.val, Limits.adel) THEN p.val ELSE @,
                      !.nlst = p.seln, !.la = la]
    BY DEF ChannelRecord
  <2> QED
    BY <2>1 DEF monitor
<1>2. mlst \in Int /\ alst \in Int
  BY DEF Monitored, ChannelRecord
<1>3. la \in [Inputs -> Int]
  BY Places DEF ChannelRecord, Entries
<1> HIDE DEF mlst, alst, la
<1>4. q \in ChannelRecord /\ q.a = p.a /\ q.seln = p.seln /\ q.val = p.val /\ q.alarm = f.alarm
  BY <1>2, <1>3 DEF ChannelRecord
<1> QED
  BY <1>1, <1>4

\* Processing with a gain makes its entry the value, or keeps the value and
\* makes the record INVALID.
LEMMA ProcessedFacts ==
    ASSUME NoLimitIsInvalid, NEW p \in ChannelRecord, NEW g \in Gains, NEW q \in Processed(p, g)
    PROVE  /\ q \in ChannelRecord /\ q.a = p.a /\ q.seln = g
           /\ IF g \in Inputs THEN q.val = p.a[g] /\ Valid(q) ELSE q.val = p.val /\ ~Valid(q)
<1> DEFINE f == fetch_values(p, g, p.a)
           s == IF f.ok THEN do_sel(f) ELSE f
           h == checkAlarms(s)
           b == [p EXCEPT !.seln = g]
<1>1. q = monitor(h).prec
  BY DEF Processed, process
<1>2. f = [prec |-> b, ok |-> TRUE, alarm |-> Quiet] /\ b \in ChannelRecord
  <2>1. f.prec \in ChannelRecord /\ f.prec = b /\ f.ok = TRUE /\ f.alarm = Quiet
    BY FetchNothing
  <2>2. f = [prec |-> f.prec, ok |-> f.ok, alarm |-> f.alarm]
    BY DEF fetch_values, FetchSpecified, FetchAll
  <2> QED
    BY <2>1, <2>2
<1>3. b.seln = g /\ b.a = p.a /\ b.val = p.val /\ g \in Fields
  BY Places DEF ChannelRecord
<1>4. s = do_sel([prec |-> b, ok |-> TRUE, alarm |-> Quiet])
  BY <1>2
<1> HIDE DEF f, b, s
<1> DEFINE c == IF g \in Inputs THEN [b EXCEPT !.val = p.a[g]] ELSE b
           al == IF g \in Inputs THEN Quiet ELSE s.alarm
<1>5. s = [prec |-> c, ok |-> TRUE, alarm |-> al] /\ al \in AlarmType
      /\ (al.sevr = INVALID_ALARM <=> g \notin Inputs)
  <2>1. IF b.seln \in Inputs
        THEN s = [prec |-> [b EXCEPT !.val = b.a[b.seln]], ok |-> TRUE, alarm |-> Quiet]
        ELSE /\ s = [prec |-> b, ok |-> TRUE, alarm |-> s.alarm]
             /\ s.alarm \in AlarmType /\ s.alarm.sevr = INVALID_ALARM
    BY <1>2, <1>4, SelectEntry
  <2>2. CASE g \in Inputs
    BY <1>3, <2>1, <2>2, Severities
  <2>3. CASE g \notin Inputs
    BY <1>3, <2>1, <2>3
  <2> QED
    BY <2>2, <2>3
<1>6. /\ c \in ChannelRecord /\ c.a = p.a /\ c.seln = g
      /\ c.val = IF g \in Inputs THEN p.a[g] ELSE p.val
  <2>1. p.a[g] \in Int
    BY <1>3 DEF ChannelRecord, Entries
  <2> QED
    BY <1>2, <1>3, <2>1 DEF ChannelRecord
<1> HIDE DEF c, al
<1>7. /\ h.prec \in ChannelRecord /\ h.alarm \in AlarmType
      /\ h.prec.a = c.a /\ h.prec.seln = c.seln /\ h.prec.val = c.val
      /\ h.alarm.sevr = INVALID_ALARM <=> al.sevr = INVALID_ALARM
  BY <1>5, <1>6, CheckEntry
<1> HIDE DEF h
<1>8. /\ q \in ChannelRecord /\ q.a = h.prec.a /\ q.seln = h.prec.seln /\ q.val = h.prec.val
      /\ q.alarm = h.alarm
  BY <1>1, <1>7, MonitorEntry
<1>9. Valid(q) <=> q.alarm.sevr # INVALID_ALARM
  <2>1. q.alarm.sevr \in NO_ALARM .. INVALID_ALARM
    BY <1>7, <1>8 DEF AlarmType
  <2> QED
    BY <2>1 DEF Valid, NO_ALARM, INVALID_ALARM
<1> QED
  BY <1>5, <1>6, <1>7, <1>8, <1>9

-----------------------------------------------------------------------------
(* The inductive invariant.                                                *)

\* The inputs of a record hold what was entered for their gain.
Calibrated(a) == \A i \in Inputs : a[i] \in Calibrations(i)
Held(r) == r \in ChannelRecord /\ Calibrated(r.a)

Alike(v, w) == \E g \in Inputs : v \in Calibrations(g) /\ w \in Calibrations(g)

\* What the value of a record is once it is processed with gain g.
Selects(r, g) == IF g \in Inputs THEN r.val = r.a[g] /\ Valid(r) ELSE ~Valid(r)

Chained(b, s, g) ==
    /\ Held(b) /\ Held(s)
    /\ b.seln = g /\ s.seln = g
    /\ Selects(b, g) /\ Selects(s, g)
    /\ Alike(b.val, s.val)

\* What is saved is of one gain too, or a restart would break it.
KeptType == [a : Entries, seln : Fields, val : Int]

SavedInv ==
    /\ saved \in [gain : Gains, base : KeptType, scale : KeptType]
    /\ Calibrated(saved.base.a) /\ Calibrated(saved.scale.a)
    /\ Alike(saved.base.val, saved.scale.val)

GainInv == gain \in Gains /\ Chained(base, scale, gain) /\ SavedInv

\* Processing base and scale with a gain.
LEMMA ChainFacts ==
    ASSUME NoLimitIsInvalid, NEW g \in Gains, NEW b, NEW s, Held(b), Held(s),
           g \in Inputs \/ Alike(b.val, s.val),
           NEW x \in Processed(b, g), NEW y \in Processed(s, g)
    PROVE  /\ Chained(x, y, g) /\ x.a = b.a /\ y.a = s.a
           /\ x.val = IF g \in Inputs THEN b.a[g] ELSE b.val
           /\ y.val = IF g \in Inputs THEN s.a[g] ELSE s.val
<1>1. /\ x \in ChannelRecord /\ x.a = b.a /\ x.seln = g
      /\ IF g \in Inputs THEN x.val = b.a[g] /\ Valid(x) ELSE x.val = b.val /\ ~Valid(x)
  BY ProcessedFacts DEF Held
<1>2. /\ y \in ChannelRecord /\ y.a = s.a /\ y.seln = g
      /\ IF g \in Inputs THEN y.val = s.a[g] /\ Valid(y) ELSE y.val = s.val /\ ~Valid(y)
  BY ProcessedFacts DEF Held
<1>3. Alike(x.val, y.val)
  <2>1. CASE g \in Inputs
    BY <1>1, <1>2, <2>1 DEF Alike, Held, Calibrated
  <2>2. CASE g \notin Inputs
    BY <1>1, <1>2, <2>2
  <2> QED
    BY <2>1, <2>2
<1> QED
  BY <1>1, <1>2, <1>3 DEF Chained, Held, Selects

\* A record as the database loads and init_record leaves it.
LEMMA LoadedHeld ==
    ASSUME NumbersEntered
    PROVE  Held(init_record(Loaded, Broken, Constants))
<1> DEFINE zero == [i \in Fields |-> 0]
           la == [i \in Inputs |-> 0]
           r == [selm |-> "Specified", seln |-> 0, a |-> zero, val |-> DefaultVal, udf |-> FALSE,
                 alarm |-> Quiet, lalm |-> 0, mlst |-> 0, alst |-> 0, nlst |-> 0, la |-> la]
           a == [i \in Fields |-> IF i \in Inputs THEN Constants[i] ELSE r.a[i]]
<1>1. init_record(Loaded, Broken, Constants) = [r EXCEPT !.a = a]
  BY DEF init_record, Loaded
<1>2. \A i \in Inputs : i \in Gains /\ Constants[i] \in Calibrations(i) /\ Constants[i] \in Int
  BY GainAssumption DEF NumbersEntered
<1>3. r.a = zero
  OBVIOUS
<1>4. a \in Entries /\ \A i \in Inputs : a[i] = Constants[i]
  BY <1>2, <1>3, Places DEF Entries
<1>5. zero \in Entries /\ la \in [Inputs -> Int] /\ DefaultVal \in Int /\ 0 \in Fields
  BY Places DEF Entries, NumbersEntered
<1> HIDE DEF a, la, zero
<1>6. r \in ChannelRecord
  BY <1>5, Severities DEF ChannelRecord
<1> HIDE DEF r
<1>7. [r EXCEPT !.a = a] \in ChannelRecord /\ [r EXCEPT !.a = a].a = a
  BY <1>4, <1>6 DEF ChannelRecord
<1> QED
  BY <1>1, <1>2, <1>4, <1>7 DEF Held, Calibrated

LEMMA KeptFacts ==
    ASSUME NEW r \in ChannelRecord
    PROVE  Kept(r) \in KeptType /\ Kept(r).a = r.a /\ Kept(r).seln = r.seln /\ Kept(r).val = r.val
BY DEF Kept, KeptType, ChannelRecord

LEMMA BootedHeld ==
    ASSUME NumbersEntered, NEW kept \in KeptType, Calibrated(kept.a)
    PROVE  Held(Booted(kept)) /\ Booted(kept).a = kept.a /\ Booted(kept).val = kept.val
<1> DEFINE r == init_record(Loaded, Broken, Constants)
<1>1. r \in ChannelRecord
  BY LoadedHeld DEF Held
<1>2. Booted(kept) = [r EXCEPT !.a = kept.a, !.seln = kept.seln, !.val = kept.val]
  BY DEF Booted, Restored
<1>3. kept.a \in Entries /\ kept.seln \in Fields /\ kept.val \in Int
  BY DEF KeptType
<1> HIDE DEF r
<1> QED
  BY <1>1, <1>2, <1>3 DEF Held, ChannelRecord

LEMMA EnteredHeld ==
    ASSUME NumbersEntered, NEW r, Held(r), NEW i \in Gains, NEW v \in Calibrations(i)
    PROVE  Held(Entered(r, i, v)) /\ Entered(r, i, v).val = r.val
<1> DEFINE a == [r.a EXCEPT ![i] = v]
<1>1. r \in ChannelRecord /\ r.a \in Entries /\ v \in Int /\ i \in Fields
  BY Places DEF Held, ChannelRecord, NumbersEntered
<1>2. Entered(r, i, v) = [r EXCEPT !.a = a]
  BY <1>1 DEF Entered, ChannelRecord
<1>3. a \in Entries /\ Calibrated(a)
  BY <1>1, Places DEF Held, Calibrated, Entries
<1> HIDE DEF a
<1> QED
  BY <1>1, <1>2, <1>3 DEF Held, ChannelRecord

\* A save keeps what is in use.
LEMMA SnapshotFacts ==
    ASSUME gain \in Gains, Chained(base, scale, gain), saved' = Snapshot
    PROVE  SavedInv'
<1>1. base \in ChannelRecord /\ scale \in ChannelRecord
  BY DEF Chained, Held
<1>2. /\ Kept(base) \in KeptType /\ Kept(base).a = base.a /\ Kept(base).val = base.val
      /\ Kept(scale) \in KeptType /\ Kept(scale).a = scale.a /\ Kept(scale).val = scale.val
  BY <1>1, KeptFacts
<1>3. saved' = [gain |-> gain, base |-> Kept(base), scale |-> Kept(scale)]
  BY DEF Snapshot
<1> QED
  BY <1>2, <1>3 DEF SavedInv, Chained, Held

LEMMA InitGain == ASSUME NumbersEntered, NoLimitIsInvalid, Init PROVE GainInv
<1>1. 0 \in Inputs /\ 0 \in Gains
  BY Places, GainAssumption
<1>2. gain = 0 /\ base \in Processed(init_record(Loaded, Broken, Constants), 0)
      /\ scale \in Processed(init_record(Loaded, Broken, Constants), 0) /\ saved = Snapshot
  BY DEF Init
<1>3. Chained(base, scale, gain)
  BY <1>1, <1>2, LoadedHeld, ChainFacts
<1>4. base \in ChannelRecord /\ scale \in ChannelRecord
  BY <1>3 DEF Chained, Held
<1>5. /\ Kept(base) \in KeptType /\ Kept(base).a = base.a /\ Kept(base).val = base.val
      /\ Kept(scale) \in KeptType /\ Kept(scale).a = scale.a /\ Kept(scale).val = scale.val
  BY <1>4, KeptFacts
<1>6. SavedInv
  BY <1>1, <1>2, <1>3, <1>5 DEF SavedInv, Chained, Held, Snapshot
<1> QED
  BY <1>1, <1>2, <1>3, <1>6 DEF GainInv

LEMMA NextGain ==
    ASSUME NumbersEntered, NoLimitIsInvalid
    PROVE  GainInv /\ [Next]_vars => GainInv'
<1> SUFFICES ASSUME GainInv, [Next]_vars
             PROVE  GainInv'
  OBVIOUS
<1>1. /\ gain \in Gains /\ Held(base) /\ Held(scale) /\ Alike(base.val, scale.val)
      /\ Chained(base, scale, gain) /\ SavedInv
  BY DEF GainInv, Chained
<1>2. CASE UNCHANGED vars
  BY <1>1, <1>2 DEF vars, GainInv, SavedInv
<1>3. ASSUME NEW g \in Gains, SetGain(g)
      PROVE  GainInv'
  <2>1. gain' = g /\ base' \in Processed(base, g) /\ scale' \in Processed(scale, g) /\ saved' = saved
    BY <1>3 DEF SetGain, Chain
  <2>2. Chained(base', scale', g)
    BY <1>1, <2>1, ChainFacts
  <2> QED
    BY <1>1, <2>1, <2>2 DEF GainInv, SavedInv
<1>4. ASSUME NEW i \in Gains, NEW v \in Calibrations(i), PutBase(i, v)
      PROVE  GainInv'
  <2>1. /\ gain' = gain /\ base' \in Processed(Entered(base, i, v), gain)
        /\ scale' \in Processed(scale, gain) /\ saved' = saved
    BY <1>4 DEF PutBase, Chain
  <2>2. Held(Entered(base, i, v)) /\ Entered(base, i, v).val = base.val
    BY <1>1, EnteredHeld
  <2>3. Chained(base', scale', gain)
    BY <1>1, <2>1, <2>2, ChainFacts
  <2> QED
    BY <1>1, <2>1, <2>3 DEF GainInv, SavedInv
<1>5. ASSUME NEW i \in Gains, NEW v \in Calibrations(i), PutScale(i, v)
      PROVE  GainInv'
  <2>1. /\ gain' = gain /\ base' = base /\ saved' = saved
        /\ scale' \in Processed(Entered(scale, i, v), gain)
    BY <1>5 DEF PutScale
  <2>2. Held(Entered(scale, i, v)) /\ Entered(scale, i, v).val = scale.val
    BY <1>1, EnteredHeld
  <2>3. /\ scale' \in ChannelRecord /\ scale'.a = Entered(scale, i, v).a /\ scale'.seln = gain
        /\ IF gain \in Inputs
           THEN scale'.val = Entered(scale, i, v).a[gain] /\ Valid(scale')
           ELSE scale'.val = Entered(scale, i, v).val /\ ~Valid(scale')
    BY <1>1, <2>1, <2>2, ProcessedFacts DEF Held
  <2>4. Held(scale') /\ Selects(scale', gain)
    BY <2>2, <2>3 DEF Held, Selects
  <2>5. Alike(base.val, scale'.val)
    <3>1. CASE gain \in Inputs
      <4>1. scale'.val \in Calibrations(gain)
        BY <2>3, <2>4, <3>1 DEF Held, Calibrated
      <4>2. base.val \in Calibrations(gain)
        BY <1>1, <3>1 DEF Chained, Selects, Held, Calibrated
      <4> QED
        BY <3>1, <4>1, <4>2 DEF Alike
    <3>2. CASE gain \notin Inputs
      BY <1>1, <2>2, <2>3, <3>2
    <3> QED
      BY <3>1, <3>2
  <2>6. Chained(base', scale', gain)
    BY <1>1, <2>1, <2>3, <2>4, <2>5 DEF Chained
  <2> QED
    BY <1>1, <2>1, <2>6 DEF GainInv, SavedInv
<1>6. CASE Save
  <2>1. saved' = Snapshot /\ UNCHANGED <<gain, base, scale>>
    BY <1>6 DEF Save
  <2> QED
    BY <1>1, <2>1, SnapshotFacts DEF GainInv
<1>7. CASE Restart
  <2>1. /\ gain' = saved.gain /\ saved' = saved
        /\ base' \in Processed(Booted(saved.base), saved.gain)
        /\ scale' \in Processed(Booted(saved.scale), saved.gain)
    BY <1>7 DEF Restart, Chain
  <2>2. /\ saved.gain \in Gains /\ saved.base \in KeptType /\ saved.scale \in KeptType
        /\ Calibrated(saved.base.a) /\ Calibrated(saved.scale.a)
        /\ Alike(saved.base.val, saved.scale.val)
    BY <1>1 DEF SavedInv
  <2>3. /\ Held(Booted(saved.base)) /\ Held(Booted(saved.scale))
        /\ Booted(saved.base).val = saved.base.val /\ Booted(saved.scale).val = saved.scale.val
    BY <2>2, BootedHeld
  <2>4. Chained(base', scale', saved.gain)
    BY <2>1, <2>2, <2>3, ChainFacts
  <2> QED
    BY <1>1, <2>1, <2>2, <2>4 DEF GainInv, SavedInv
<1> QED
  BY <1>2, <1>3, <1>4, <1>5, <1>6, <1>7 DEF Next

LEMMA GainInvariant == ASSUME NumbersEntered, NoLimitIsInvalid PROVE Spec => []GainInv
<1>1. Init => GainInv
  BY InitGain
<1>2. GainInv /\ [Next]_vars => GainInv'
  BY NextGain
<1> QED
  BY <1>1, <1>2, PTL DEF Spec

-----------------------------------------------------------------------------
(* The theorems.                                                           *)

\* The chain ChargeAmpRangeCHn -> CHn_BASE -> CHn_SCALE computes with what was
\* entered for the gain, or says that it does not know the gain.
THEOREM GainIsCalibrated ==
    ASSUME NumbersEntered, NoLimitIsInvalid
    PROVE  Spec => []CalibratedForGain
<1>1. GainInv => CalibratedForGain
  BY DEF GainInv, Chained, Selects, CalibratedForGain
<1> QED
  BY <1>1, GainInvariant, PTL

\* Base and scale are never of two gains, however the gain changes, values are
\* entered and saved and the IOC restarts.
THEOREM NeverOfTwoGains ==
    ASSUME NumbersEntered, NoLimitIsInvalid
    PROVE  Spec => []OfOneGain
<1>1. GainInv => OfOneGain
  BY DEF GainInv, Chained, Alike, OfOneGain
<1> QED
  BY <1>1, GainInvariant, PTL

\* Autosave brings back every value that a restart right after it would lose.
THEOREM CalibrationComesBack ==
    ASSUME NumbersEntered, NoLimitIsInvalid
    PROVE  Spec => SurvivesRestart
<1> DEFINE Back == Restart /\ saved = Snapshot =>
                      Kept(base') = Kept(base) /\ Kept(scale') = Kept(scale)
<1>1. ASSUME GainInv
      PROVE  Back
  <2> SUFFICES ASSUME Restart, saved = Snapshot
               PROVE  Kept(base') = Kept(base) /\ Kept(scale') = Kept(scale)
    OBVIOUS
  <2>1. /\ gain \in Gains /\ Chained(base, scale, gain)
        /\ base \in ChannelRecord /\ scale \in ChannelRecord
        /\ Calibrated(base.a) /\ Calibrated(scale.a)
    BY <1>1 DEF GainInv, Chained, Held
  <2>2. /\ Kept(base) \in KeptType /\ Kept(base).a = base.a /\ Kept(base).val = base.val
        /\ Kept(scale) \in KeptType /\ Kept(scale).a = scale.a /\ Kept(scale).val = scale.val
    BY <2>1, KeptFacts
  <2>3. saved.gain = gain /\ saved.base = Kept(base) /\ saved.scale = Kept(scale)
    BY DEF Snapshot
  <2>4. /\ base' \in Processed(Booted(Kept(base)), gain)
        /\ scale' \in Processed(Booted(Kept(scale)), gain)
    BY <2>3 DEF Restart, Chain
  <2>5. /\ Held(Booted(Kept(base))) /\ Held(Booted(Kept(scale)))
        /\ Booted(Kept(base)).a = base.a /\ Booted(Kept(base)).val = base.val
        /\ Booted(Kept(scale)).a = scale.a /\ Booted(Kept(scale)).val = scale.val
    BY <2>1, <2>2, BootedHeld
  <2>6. Alike(base.val, scale.val) /\ Selects(base, gain) /\ Selects(scale, gain)
        /\ base.seln = gain /\ scale.seln = gain
    BY <2>1 DEF Chained
  <2>7. /\ Chained(base', scale', gain) /\ base'.a = base.a /\ scale'.a = scale.a
        /\ base'.val = IF gain \in Inputs THEN base.a[gain] ELSE base.val
        /\ scale'.val = IF gain \in Inputs THEN scale.a[gain] ELSE scale.val
    BY <2>1, <2>4, <2>5, <2>6, ChainFacts
  <2>8. base'.val = base.val /\ scale'.val = scale.val
    BY <2>6, <2>7 DEF Selects
  <2>9. base'.seln = base.seln /\ scale'.seln = scale.seln
    BY <2>6, <2>7 DEF Chained
  <2> QED
    BY <2>7, <2>8, <2>9 DEF Kept
<1>2. GainInv /\ [Next]_vars => [Back]_vars
  BY <1>1
<1> QED
  BY <1>2, GainInvariant, PTL DEF Spec, SurvivesRestart

=============================================================================
