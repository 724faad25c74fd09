----------------------------- MODULE FrameLine -----------------------------
(***************************************************************************)
(* What the serial line under Acquire promises to those above it: of the   *)
(* frames the board sends, whole ones come out, in order and at most once. *)
(* Some may be missing.                                                    *)
(***************************************************************************)
EXTENDS Naturals, Sequences

CONSTANT NFrames        \* how many frames the board sends

VARIABLE delivered      \* the numbers of the frames delivered, in order

TypeOK == delivered \in Seq(1..NFrames)

Init == delivered = << >>

Newest == IF delivered = << >> THEN 0 ELSE delivered[Len(delivered)]

Deliver(n) ==
    /\ n > Newest
    /\ delivered' = Append(delivered, n)

Next == \E n \in 1..NFrames : Deliver(n)

Spec == Init /\ [][Next]_delivered
=============================================================================
