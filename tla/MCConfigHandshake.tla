--------------------------- MODULE MCConfigHandshake ---------------------------
(***************************************************************************)
(* Instances of ConfigHandshake for TLC: two boards that share a trigger,  *)
(* or have one each, on one EVR; polite clients, and one client that       *)
(* configures its board again and again without waiting.                   *)
(***************************************************************************)
EXTENDS ConfigHandshake, TLC

CONSTANTS b1, b2, t1, t2, evr

SharedTrigger == b1 :> t1 @@ b2 :> t1
OwnTriggers   == b1 :> t1 @@ b2 :> t2
OneEvr        == [t \in Triggers |-> evr]

Clients(polite, n1, n2) == [polite |-> polite, requests |-> b1 :> n1 @@ b2 :> n2]

PoliteOrOverlapping == {Clients(TRUE, 2, 1), Clients(FALSE, 3, 0)}
PoliteOnce          == {Clients(TRUE, 1, 1)}

=============================================================================
