---------------------------- MODULE RegisterPort ----------------------------
(***************************************************************************)
(* What ReadRegister and WriteRegister promise to do_configure: a read     *)
(* returns a value its register had since the read began, or gives up.     *)
(* Only when an earlier read of the same register had to repeat its        *)
(* request, and answers are still about, may an older value come out:      *)
(* then it is one the register has had since that earlier read began.      *)
(***************************************************************************)
CONSTANTS Registers, Values, NoRegister, BAD_VALUE

VARIABLES
    regs,       \* the registers of the board
    reading,    \* the register being read, NoRegister if none is
    result,     \* what the last read returned
    may,        \* the values this read may return
    doubtful    \* per register, the values answers still about may carry

vars == <<regs, reading, result, may, doubtful>>

TypeOK ==
    /\ regs \in [Registers -> Values]
    /\ reading \in Registers \cup {NoRegister}
    /\ result \in Values \cup {BAD_VALUE}
    /\ may \in SUBSET Values
    /\ doubtful \in [Registers -> SUBSET Values]

Init ==
    /\ regs \in [Registers -> Values]
    /\ reading = NoRegister
    /\ result = BAD_VALUE
    /\ may = {}
    /\ doubtful = [r \in Registers |-> {}]

NothingDoubtful == [r \in Registers |-> {}]

Begin(r) ==
    /\ reading = NoRegister
    /\ reading' = r
    /\ doubtful' \in {doubtful, NothingDoubtful}
    /\ may' = {regs[r]} \cup doubtful'[r]
    /\ UNCHANGED <<regs, result>>

\* A write takes effect.
Put(r, v) ==
    /\ regs' = [regs EXCEPT ![r] = v]
    /\ may' = IF reading = r THEN may \cup {v} ELSE may
    /\ doubtful' = [doubtful EXCEPT ![r] = IF @ = {} THEN {} ELSE @ \cup {v}]
    /\ UNCHANGED <<reading, result>>

\* The request is sent again: more than one answer may come.
Repeat ==
    /\ reading # NoRegister
    /\ doubtful' = [doubtful EXCEPT ![reading] = @ \cup may]
    /\ UNCHANGED <<regs, reading, result, may>>

Return(v) ==
    /\ reading # NoRegister
    /\ v \in may
    /\ result' = v
    /\ reading' = NoRegister
    /\ may' = {}
    /\ UNCHANGED <<regs, doubtful>>

\* The answer may still come.
GiveUp ==
    /\ reading # NoRegister
    /\ result' = BAD_VALUE
    /\ reading' = NoRegister
    /\ may' = {}
    /\ doubtful' = [doubtful EXCEPT ![reading] = @ \cup may]
    /\ UNCHANGED regs

Next ==
    \/ \E r \in Registers : Begin(r) \/ \E v \in Values : Put(r, v)
    \/ Repeat
    \/ \E v \in Values : Return(v)
    \/ GiveUp

Spec == Init /\ [][Next]_vars
=============================================================================
