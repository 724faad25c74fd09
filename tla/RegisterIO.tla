----------------------------- MODULE RegisterIO -----------------------------
(***************************************************************************)
(* The register protocol of IpimBoard: the configurer thread in            *)
(* ReadRegister and WriteRegister, the reader thread that decodes answers  *)
(* into the ring _cmd and publishes them with SendCommandResponse, and the *)
(* board, which serves requests in order and answers reads only.           *)
(*                                                                         *)
(* The serial line is taken as FrameLine promises it: what comes through   *)
(* is whole and in order, and any request or answer may be lost.           *)
(***************************************************************************)
EXTENDS Integers, Sequences

CONSTANTS
    Registers, Values,
    PowerUp,        \* the value of a register after power up
    NoRegister, BAD_VALUE,
    Garbage,        \* left in a slot by a frame that was damaged
    QSize,          \* IPIMB_Q_SIZE
    Tries,          \* how often ReadRegister sends a request and waits
    MaxReads,       \* bound: calls of ReadRegister
    MaxWrites,      \* bound: calls of WriteRegister
    MaxLost,        \* any number of frames may be lost; counted up to here
    MaxTrouble      \* bound: how far trouble is counted

ASSUME RegisterAssumption ==
    /\ PowerUp \in Values
    /\ NoRegister \notin Registers /\ BAD_VALUE \notin Values
    /\ Garbage \notin [addr : Registers, data : Values]
    /\ QSize \in Nat \ {0} /\ Tries \in Nat \ {0}
    /\ MaxReads \in Nat /\ MaxWrites \in Nat /\ MaxLost \in Nat
    /\ MaxTrouble \in Nat

VARIABLES
    caller,     \* "idle", "try" (has the mutex), "wait" (in the timed wait),
                \* "woken" or "expired" (wants the mutex back)
    regAddr, i, do_write,           \* locals of ReadRegister
    result,                         \* what the last ReadRegister returned
    cwr, crd, ring,                 \* cwr, crd and _cmd of IpimBoard
    reader,     \* the reader holds a decoded answer it has not published
    requests,   \* on their way to the board
    answers,    \* on their way back
    regs,       \* the registers of the board
    reads, writes,                  \* history: calls
    lost, trouble,                  \* history: frames lost, and timeouts that
                \* came early or spurious wakeups, since the last call that
                \* found nothing on its way
    may, doubtful                   \* history: see RegisterPort

callVars == <<caller, regAddr, i, do_write, result>>
ringVars == <<cwr, crd, ring, reader>>
lineVars == <<requests, answers, regs>>
countVars == <<reads, writes, lost, trouble>>
portVars == <<may, doubtful>>
vars == <<callVars, ringVars, lineVars, countVars, portVars>>

Requests == [write : BOOLEAN, addr : Registers, data : Values]
Answers == [addr : Registers, data : Values]
Slots == 0..(QSize - 1)
Slot(n) == n % QSize

Init ==
    /\ caller = "idle" /\ regAddr = NoRegister /\ i = 0 /\ do_write = FALSE
    /\ result = BAD_VALUE
    /\ cwr = 0 /\ crd = 0 /\ reader = FALSE
    /\ ring = [s \in Slots |-> Garbage]
    /\ requests = << >> /\ answers = << >>
    /\ regs = [r \in Registers |-> PowerUp]
    /\ reads = 0 /\ writes = 0 /\ lost = 0 /\ trouble = 0
    /\ may = {} /\ doubtful = [r \in Registers |-> {}]

-----------------------------------------------------------------------------
(* The configurer.                                                         *)

MutexFree == caller # "try"

\* Nothing is on its way to the ring.
Quiet == requests = << >> /\ answers = << >> /\ ~reader

\* Take the mutex, drop what has been sent so far, and begin.
Call(r) ==
    /\ caller = "idle" /\ reads < MaxReads
    /\ caller' = "try" /\ regAddr' = r /\ i' = 0 /\ do_write' = TRUE
    /\ crd' = cwr
    /\ reads' = reads + 1
    /\ lost' = IF Quiet THEN 0 ELSE lost
    /\ trouble' = IF Quiet THEN 0 ELSE trouble
    /\ doubtful' = IF Quiet THEN [s \in Registers |-> {}] ELSE doubtful
    /\ may' = {regs[r]} \cup doubtful'[r]
    /\ UNCHANGED <<result, cwr, ring, reader, lineVars, writes>>

Leave(value) ==
    /\ result' = value
    /\ caller' = "idle" /\ regAddr' = NoRegister
    /\ i' = 0 /\ do_write' = FALSE /\ may' = {}

\* Send the request if it is due, and go into the timed wait, which lets go
\* of the mutex.
Try ==
    /\ caller = "try" /\ i < Tries
    /\ caller' = "wait"
    /\ requests' = IF do_write
                   THEN Append(requests, [write |-> FALSE, addr |-> regAddr,
                                          data |-> regs[regAddr]])
                   ELSE requests
    /\ doubtful' = IF do_write /\ i > 0
                   THEN [doubtful EXCEPT ![regAddr] = @ \cup may]
                   ELSE doubtful
    /\ UNCHANGED <<regAddr, i, do_write, result, ringVars, answers, regs, countVars,
                   may>>

\* The request cannot be written, or all tries are over: BAD_VALUE.
GiveUp ==
    /\ caller = "try"
    /\ i = Tries \/ do_write
    /\ Leave(BAD_VALUE)
    /\ doubtful' = [doubtful EXCEPT ![regAddr] = @ \cup may]
    /\ UNCHANGED <<ringVars, lineVars, countVars>>

\* Mutant: a try that timed out is not counted.
NextTryUncounted == i

NextTry == i + 1

\* One second is over.  It is too early when something is still on its way.
Expire ==
    /\ caller = "wait"
    /\ Quiet \/ trouble < MaxTrouble
    /\ trouble' = IF Quiet THEN trouble ELSE trouble + 1
    /\ caller' = "expired"
    /\ UNCHANGED <<regAddr, i, do_write, result, ringVars, lineVars, reads, writes,
                   lost, portVars>>

\* ETIMEDOUT, with the mutex back: the request is repeated.
AfterTimeout ==
    /\ caller = "expired"
    /\ caller' = "try" /\ i' = NextTry /\ do_write' = TRUE
    /\ UNCHANGED <<regAddr, result, ringVars, lineVars, countVars, portVars>>

\* pthread_cond_timedwait may return for no reason.
SpuriousWakeup ==
    /\ caller = "wait"
    /\ trouble < MaxTrouble
    /\ trouble' = trouble + 1
    /\ caller' = "woken"
    /\ UNCHANGED <<regAddr, i, do_write, result, ringVars, lineVars, reads, writes,
                   lost, portVars>>

\* Mutant: a wakeup is taken for an answer.
AwakeIsAnswered == TRUE

HasAnswer == cwr # crd

\* Woken, with the mutex back, and nothing to read.
WokenForNothing ==
    /\ caller = "woken" /\ ~HasAnswer
    /\ caller' = "try" /\ i' = i + 1
    /\ UNCHANGED <<regAddr, do_write, result, ringVars, lineVars, countVars, portVars>>

\* Mutant: any answer will do.
AnyAnswer(resp) == resp # Garbage

IsAnswer(resp) == resp # Garbage /\ resp.addr = regAddr

\* The next answer in the ring is for this register: return its data.
Answered ==
    /\ caller = "woken" /\ HasAnswer
    /\ IsAnswer(ring[Slot(crd)])
    /\ crd' = crd + 1
    /\ Leave(ring[Slot(crd)].data)
    /\ UNCHANGED <<cwr, ring, reader, lineVars, countVars, doubtful>>

\* Mutant: it is counted.
TryCounted == i + 1

SameTry == i

\* It is for another one: wait again, without a new request, for the signal
\* of another answer, and do not count the try.
OlderAnswer ==
    /\ caller = "woken" /\ HasAnswer
    /\ ~IsAnswer(ring[Slot(crd)])
    /\ crd' = crd + 1
    /\ caller' = "try" /\ i' = SameTry /\ do_write' = FALSE
    /\ UNCHANGED <<regAddr, result, cwr, ring, reader, lineVars, countVars,
                   portVars>>

\* WriteRegister: nobody looks whether it arrives.
WriteRegister(r, v) ==
    /\ caller = "idle" /\ writes < MaxWrites
    /\ writes' = writes + 1
    /\ requests' = Append(requests, [write |-> TRUE, addr |-> r, data |-> v])
    /\ UNCHANGED <<callVars, ringVars, answers, regs, reads, lost, trouble, portVars>>

-----------------------------------------------------------------------------
(* The board and the line.                                                 *)

ServeRead ==
    /\ requests # << >> /\ ~Head(requests).write
    /\ requests' = Tail(requests)
    /\ LET r == Head(requests).addr
       IN  answers' = Append(answers, [addr |-> r, data |-> regs[r]])
    /\ UNCHANGED <<callVars, ringVars, regs, countVars, portVars>>

ServeWrite ==
    /\ requests # << >> /\ Head(requests).write
    /\ requests' = Tail(requests)
    /\ LET r == Head(requests).addr
           v == Head(requests).data
       IN  /\ regs' = [regs EXCEPT ![r] = v]
           /\ may' = IF regAddr = r THEN may \cup {v} ELSE may
           /\ doubtful' = [doubtful EXCEPT ![r] = IF @ = {} THEN {}
                                                  ELSE @ \cup {v}]
    /\ UNCHANGED <<callVars, ringVars, answers, countVars>>

CountLost == lost' = IF lost < MaxLost THEN lost + 1 ELSE lost

LoseRequest ==
    /\ requests # << >>
    /\ requests' = Tail(requests)
    /\ CountLost
    /\ UNCHANGED <<callVars, ringVars, answers, regs, reads, writes, trouble, portVars>>

-----------------------------------------------------------------------------
(* The reader.                                                             *)

\* Acquire decodes the answer into the slot of cwr, without the mutex.
DecodeAnswer ==
    /\ answers # << >> /\ ~reader
    /\ ring' = [ring EXCEPT ![Slot(cwr)] = Head(answers)]
    /\ answers' = Tail(answers)
    /\ reader' = TRUE
    /\ UNCHANGED <<callVars, cwr, crd, requests, regs, countVars, portVars>>

\* The frame does not get through; words of it may be in the slot by then.
LoseAnswer ==
    /\ answers # << >> /\ ~reader
    /\ answers' = Tail(answers)
    /\ ring' \in {ring, [ring EXCEPT ![Slot(cwr)] = Garbage]}
    /\ CountLost
    /\ UNCHANGED <<callVars, cwr, crd, reader, requests, regs, reads, writes, trouble,
                   portVars>>

\* Mutant: the signal is missing.
Unsignalled == caller

Signalled == IF caller = "wait" THEN "woken" ELSE caller

\* Publish the answer and wake the caller if it waits.
SendCommandResponse ==
    /\ reader /\ MutexFree
    /\ reader' = FALSE
    /\ cwr' = cwr + 1
    /\ caller' = Signalled
    /\ UNCHANGED <<regAddr, i, do_write, result, crd, ring, lineVars, countVars,
                   portVars>>

-----------------------------------------------------------------------------
Configurer ==
    \/ Try \/ GiveUp
    \/ AfterTimeout \/ WokenForNothing \/ Answered \/ OlderAnswer

Board == ServeRead \/ ServeWrite

Next ==
    \/ Configurer \/ Expire \/ SpuriousWakeup
    \/ \E r \in Registers : Call(r) \/ \E v \in Values : WriteRegister(r, v)
    \/ Board \/ LoseRequest
    \/ DecodeAnswer \/ LoseAnswer \/ SendCommandResponse

Spec == Init /\ [][Next]_vars

\* The threads run and timers expire.  What is on the line arrives or is lost.
FairSpec ==
    /\ Spec
    /\ WF_vars(Configurer) /\ WF_vars(Expire)
    /\ WF_vars(Board \/ LoseRequest)
    /\ WF_vars(DecodeAnswer \/ LoseAnswer) /\ WF_vars(SendCommandResponse)

-----------------------------------------------------------------------------
(* Properties.                                                             *)

TypeOK ==
    /\ caller \in {"idle", "try", "wait", "woken", "expired"}
    /\ regAddr \in Registers \cup {NoRegister}
    /\ caller = "idle" <=> regAddr = NoRegister
    /\ i \in 0..Tries
    /\ result \in Values \cup {BAD_VALUE}
    /\ do_write \in BOOLEAN /\ reader \in BOOLEAN
    /\ cwr \in Nat /\ crd \in 0..cwr
    /\ ring \in [Slots -> Answers \cup {Garbage}]
    /\ requests \in Seq(Requests) /\ answers \in Seq(Answers)
    /\ regs \in [Registers -> Values]
    /\ reads \in 0..MaxReads /\ writes \in 0..MaxWrites
    /\ lost \in 0..MaxLost /\ trouble \in 0..MaxTrouble
    /\ may \in SUBSET Values
    /\ doubtful \in [Registers -> SUBSET Values]

RP == INSTANCE RegisterPort WITH reading <- regAddr

\* As long as less trouble is counted than the ring has slots.
RingFits == trouble < QSize

\* What a read returns is the value its register had at some time during the
\* read, unless an earlier read of that register was repeated and answers to
\* it may still be about.  An answer that is published while the caller does
\* not wait, is left over from a timeout, or is for another register, never
\* comes out as the value of this one.  All that unless the ring can be overrun.
ImplementsPort == RP!Init /\ [][RingFits => RP!Next]_(RP!vars)

\* When the reader decodes an answer, those it finds unread were asked for by
\* timeouts that came early or by spurious wakeups, and since the last read
\* that began with nothing on its way.  So the ring is overrun, which nothing in
\* the code checks, only after QSize of these: no other order of answers,
\* signals and reads leaves an answer behind that the next read does not drop.
UnreadForCause == reader => cwr - crd <= trouble

\* A read that has used up its tries has lost frames, late answers and
\* spurious wakeups to blame, one for each try.  That a signal comes while the
\* caller does not wait, or that an answer to an older read uses up the signal
\* of the right one, costs no try of its own.  (MaxLost must not be below Tries.)
GivesUpForCause ==
    RingFits /\ caller = "try" /\ i = Tries => lost + trouble >= Tries

\* Every read returns, also from a board that does not answer.
EveryReadReturns == (caller = "try") ~> (caller = "idle")
=============================================================================
