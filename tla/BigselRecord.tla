---------------------------- MODULE BigselRecord ----------------------------
(***************************************************************************)
(* One bigsel record amid links that change or break, and a client that    *)
(* watches it.                                                             *)
(***************************************************************************)
EXTENDS Bigsel, FiniteSets

CONSTANTS
    Values,         \* numbers the links may give, besides NaN
    Indices         \* what the link to the index may give

ASSUME RecordAssumption ==
    /\ Values \subseteq -Infinity .. Infinity
    /\ Indices \subseteq Nat

VARIABLES
    prec,       \* the record
    shown,      \* what a client was last told of
    truth       \* history: what the links give, selected as documented

vars == <<prec, shown, truth>>

\* The state after init_record of a record without constants.
Fresh(selm) ==
    init_record([selm |-> selm, seln |-> 0, a |-> [i \in Fields |-> 0], val |-> 0,
                 udf |-> TRUE,
                 alarm |-> [stat |-> "UDF", sevr |-> INVALID_ALARM], lalm |-> 0, mlst |-> 0,
                 alst |-> 0, nlst |-> 0, la |-> [i \in Inputs |-> 0]],
                Broken, [i \in Inputs |-> NaN])

\* The selection that the mechanism stands for, of what the links give: the
\* input itself, the largest, the smallest, or the middle one of an odd
\* number of valid inputs, the upper one of an even number.
Numbers(inp) == {i \in Inputs : inp[i] # NaN}

Documented(selm, nvl, inp) ==
    CASE selm = "Specified" -> inp[nvl]
      [] selm = "High Signal" ->
            IF Numbers(inp) = {} THEN -Infinity
            ELSE CHOOSE v \in {inp[i] : i \in Numbers(inp)} :
                    \A i \in Numbers(inp) : v >= inp[i]
      [] selm = "Low Signal" ->
            IF Numbers(inp) = {} THEN Infinity
            ELSE CHOOSE v \in {inp[i] : i \in Numbers(inp)} :
                    \A i \in Numbers(inp) : v <= inp[i]
      [] selm = "Median Signal" ->
            IF Numbers(inp) = {} THEN NaN
            ELSE CHOOSE v \in {inp[i] : i \in Numbers(inp)} :
                    /\ 2 * Cardinality({i \in Numbers(inp) : inp[i] < v})
                            <= Cardinality(Numbers(inp))
                    /\ 2 * Cardinality({i \in Numbers(inp) : inp[i] <= v})
                            > Cardinality(Numbers(inp))

\* What the links give can be selected from.
Readable(selm, nvl, inp) ==
    IF selm = "Specified" THEN nvl \in Inputs /\ inp[nvl] # Broken
    ELSE \A i \in Inputs : inp[i] # Broken

-----------------------------------------------------------------------------

\* What a client gets when it begins to watch.
Seen(r) == [val |-> r.val, seln |-> r.seln, a |-> [i \in Inputs |-> r.a[i]]]

Init ==
    /\ prec \in {Fresh(selm) : selm \in Modes}
    /\ shown = Seen(prec)
    /\ truth = NaN

\* What the client sees of the fields posted to it.
Told(r, posts) ==
    [val  |-> IF posts.val THEN r.val ELSE shown.val,
     seln |-> IF posts.seln THEN r.seln ELSE shown.seln,
     a    |-> [i \in Inputs |-> IF i \in posts.inputs THEN r.a[i] ELSE shown.a[i]]]

\* The client begins to watch after the first processing.
Process(nvl, inp) ==
    \E r \in process(prec, nvl, inp) :
        /\ prec' = r.prec
        /\ shown' = IF prec = Fresh(prec.selm) THEN Seen(r.prec)
                    ELSE Told(r.prec, r.posts)
        /\ truth' = IF Readable(prec.selm, nvl, inp)
                    THEN Documented(prec.selm, nvl, inp) ELSE Broken

Given == Values \cup {NaN, Broken}

\* One input is read; it does not matter what the others give.
ProcessSpecified ==
    /\ prec.selm = "Specified"
    /\ \E nvl \in Indices \cup {Broken}, v \in Given :
            Process(nvl, [i \in Inputs |-> v])

\* All inputs are read: one gives something new, the one after it may be
\* broken, and the rest give what was fetched last.  The index is not read.
ProcessAll ==
    /\ prec.selm # "Specified"
    /\ \E i \in Inputs, v \in Given, bad \in BOOLEAN :
            Process(Broken, [j \in Inputs |->
                        IF j = i THEN v
                        ELSE IF bad /\ j = (i + 1) % SEL_MAX THEN Broken
                        ELSE prec.a[j]])

Next == ProcessSpecified \/ ProcessAll

Spec == Init /\ [][Next]_vars

-----------------------------------------------------------------------------
(* Properties.                                                             *)

TypeOK ==
    /\ prec.selm \in Modes
    /\ prec.seln \in Indices \cup 0 .. SEL_MAX
    /\ \A i \in Inputs : prec.a[i] \in Values \cup {NaN} /\ prec.la[i] \in Values \cup {NaN, 0}
    /\ prec.val \in Values \cup {NaN, 0, Infinity, -Infinity}
    /\ prec.udf \in BOOLEAN
    /\ prec.alarm.sevr \in NO_ALARM .. INVALID_ALARM
    /\ shown.val \in Values \cup {NaN, 0, Infinity, -Infinity}

\* A record that is not INVALID holds the selection, as documented, of what
\* its links give: an old value, an index out of range, a broken link or an
\* undefined value never pass for a good one.
OnlyTheTruthIsValid == prec.alarm.sevr < INVALID_ALARM => prec.val = truth

\* A limit alarm does not flap: once shown, it gives way only to another
\* alarm, to a value that is more than hyst inside the limit, or, where UDFS
\* is no alarm, to none at all.
Inside(limit, v) ==
    IF limit.upper THEN v < limit.level - Limits.hyst
    ELSE v > limit.level + Limits.hyst

NoFlapping ==
    [][\A k \in 1 .. Len(Limits.alarms) :
          LET limit == Limits.alarms[k]
          IN  prec.alarm.stat = limit.stat =>
                prec'.alarm.sevr # NO_ALARM \/ prec'.udf \/ Inside(limit, prec'.val)]_vars

\* A client that watches the record is never left behind: it knows the index
\* and the inputs exactly, and the value within twice the deadband, as posts
\* for an alarm do not move MLST.
ClientIsCurrent ==
    /\ shown.seln = prec.seln
    /\ \A i \in Inputs : shown.a[i] = prec.a[i]
    /\ ~Moved(shown.val, prec.val, 2 * Limits.mdel)

=============================================================================
