--------------------------- MODULE MCBigselRecord ---------------------------
\* A record with alarms at three limits, and LOLO switched off; values on both
\* sides of each.  An undefined value is a MAJOR alarm, so that nothing but the
\* selection itself makes it INVALID.
EXTENDS BigselRecord

Alarm(stat, sevr, level, upper) ==
    [stat |-> stat, sevr |-> sevr, level |-> level, upper |-> upper]

MCLimits ==
    [alarms |-> <<Alarm("HIHI", MAJOR_ALARM, 4, TRUE),
                  Alarm("LOLO", NO_ALARM, 2, FALSE),
                  Alarm("HIGH", MINOR_ALARM, 3, TRUE),
                  Alarm("LOW",  MINOR_ALARM, 1, FALSE)>>,
     udfs |-> MAJOR_ALARM, hyst |-> 1, mdel |-> 1, adel |-> 1]

=============================================================================
