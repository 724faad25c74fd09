----------------------------- MODULE ConfigMailbox -----------------------------
(***************************************************************************)
(* What the configuration path of an IPIMB board promises its clients.     *)
(* A board is a mailbox of depth one: posting a request replaces the one   *)
(* that has not been taken yet, a worker serves the latest request, and    *)
(* "busy" may be cleared only when the newest request has been served.     *)
(* ConfigHandshake implements it with a mutex, a condition variable and    *)
(* two generation counters.                                                *)
(***************************************************************************)
EXTENDS Naturals

CONSTANT Boards

VARIABLES
    posted,     \* posted[b]: how many requests were posted
    taken,      \* taken[b]: the serial of the request taken last
    working,    \* the boards whose worker is serving request taken[b]
    busy        \* busy[b]: what clients are told

mailbox == <<posted, taken, working, busy>>

MailboxInit ==
    /\ posted  = [b \in Boards |-> 0]
    /\ taken   = [b \in Boards |-> 0]
    /\ working = {}
    /\ busy    = [b \in Boards |-> FALSE]

\* A client posts a request: from now on the board is busy.
Post(b) ==
    /\ posted' = [posted EXCEPT ![b] = @ + 1]
    /\ busy'   = [busy EXCEPT ![b] = TRUE]
    /\ UNCHANGED <<taken, working>>

\* The worker takes the newest request, skipping those it replaced.
Take(b) ==
    /\ b \notin working
    /\ taken[b] # posted[b]
    /\ taken'   = [taken EXCEPT ![b] = posted[b]]
    /\ working' = working \cup {b}
    /\ UNCHANGED <<posted, busy>>

Finish(b) ==
    /\ b \in working
    /\ working' = working \ {b}
    /\ UNCHANGED <<posted, taken, busy>>

\* Nothing is left to serve.
Clear(b) ==
    /\ b \notin working
    /\ taken[b] = posted[b]
    /\ busy' = [busy EXCEPT ![b] = FALSE]
    /\ UNCHANGED <<posted, taken, working>>

MailboxNext == \E b \in Boards : Post(b) \/ Take(b) \/ Finish(b) \/ Clear(b)

MailboxSpec == MailboxInit /\ [][MailboxNext]_mailbox

=============================================================================
