-------------------------- MODULE MCSerialFraming --------------------------
(***************************************************************************)
(* A line for TLC: an event, five answers, another event.  Of the four     *)
(* channels of an event, two are above their presample, one is below, one  *)
(* equal to it.                                                            *)
(***************************************************************************)
EXTENDS SerialFraming

Event(n) ==
    [cmd |-> FALSE,
     words |-> <<{}, {}, {}, Bits(n), Bits(43690), Bits(3), {}>>
                 \o <<Bits(40000), Bits(1000 + n), Bits(65535), Bits(0)>>
                 \o <<Bits(30000), Bits(1200), Bits(0), Bits(0)>>]

Answer(addr, data) ==
    [cmd |-> TRUE, words |-> <<Bits(addr)>> \o HalfWords(data)]

MCFrames ==
    << Event(7), Answer(6, {0, 4, 19}), Answer(7, {}), Answer(23, 0..31),
       Answer(6, {1, 31}), Answer(12, {15, 16}), Event(8) >>

\* Noise that looks like the start of an event, of an answer, the end of a
\* frame, or the inside of one.
MCNoise == {{6, 7}, {4, 6, 7}, {5, 7}, {1}}

ASSUME MCFramesDiffer == FramesDiffer
=============================================================================
