------------------------------ MODULE EventStream ------------------------------
(***************************************************************************)
(* What the data path of an IPIMB board promises: every event the reader   *)
(* publishes is delivered once, in order, as one sample: all channels from *)
(* that event, stamped with that event's time, and the beam line data      *)
(* message carrying the same event.  Events are numbered 1, 2, ...         *)
(* Once an operator has processed a record by hand, samples may mix events *)
(* and go missing; but still no event is delivered that was not published. *)
(***************************************************************************)
EXTENDS Naturals

CONSTANTS Channels

VARIABLES
    published,  \* events published so far
    delivered,  \* events delivered so far
    sample,     \* sample[c]: the event channel c of the last sample shows
    stamp,      \* stamp[c]: the event whose time stamp that channel carries
    message,    \* the event the last message carries
    disturbed   \* an operator has processed a record by hand

stream == <<published, delivered, sample, stamp, message, disturbed>>

AllFrom(n) == [c \in Channels |-> n]

StreamInit ==
    /\ published = 0 /\ delivered = 0
    /\ sample = AllFrom(0) /\ stamp = AllFrom(0) /\ message = 0
    /\ disturbed = FALSE

Publish ==
    /\ published' = published + 1
    /\ UNCHANGED <<delivered, sample, stamp, message, disturbed>>

Deliver ==
    /\ delivered < published
    /\ delivered' = delivered + 1
    /\ sample' = AllFrom(delivered')
    /\ stamp' = AllFrom(delivered')
    /\ message' = delivered'
    /\ UNCHANGED <<published, disturbed>>

\* Or anything of the sort.
Disturbed ==
    /\ disturbed'
    /\ published' \in {published, published + 1}
    /\ delivered' \in {delivered, delivered + 1}
    /\ delivered' <= published'

StreamSpec == StreamInit /\ [][Publish \/ Deliver \/ Disturbed]_stream

=============================================================================
