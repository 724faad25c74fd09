---------------------------- MODULE MCChannelGain ----------------------------
\* Two values for each gain, one of them that of the database.
EXTENDS ChannelGain

MCCalibrations(g) == {2 * g + 1, 2 * g + 2}
MCConstants == [g \in Fields |-> 2 * g + 1]

\* No limit alarms, as in the database.
MCLimits == [alarms |-> << >>, udfs |-> INVALID_ALARM, hyst |-> 0, mdel |-> 0, adel |-> 0]

=============================================================================
