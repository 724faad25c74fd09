----------------------------- MODULE EventPipeline -----------------------------
(***************************************************************************)
(* The data path of one board.  The reader thread (ipimbSyncObject under   *)
(* the poll loop of timesync) decodes each frame in place into the ring    *)
(* _data[], publishes it with sendData and requests an I/O Intr scan.  The *)
(* scan thread processes CHn_RAW of every channel; each chain RAW -> PS -> *)
(* CH -> DONE runs under one lock set, and the chain that makes DONE_CNT   *)
(* complete goes on to DOREAD (nextData), SUM, XPOS, YPOS and the message. *)
(* An operator may process a RAW record by hand (PROC).                    *)
(*                                                                         *)
(* Nothing in the code checks the ring for overflow or takes a lock on it. *)
(* What keeps it whole is that the scan thread keeps up: that is stated by *)
(* MaxPending and MaxLost.                                                 *)
(***************************************************************************)
EXTENDS Integers, FiniteSets

CONSTANTS
    NChannels,      \* the channels of a board
    MaxEvents,      \* bound: events published
    MaxPending,     \* scan requests outstanding when a frame begins are fewer
    MaxLost,        \* scan requests the callback queue may drop
    MaxManual       \* bound: RAW records processed by hand

IPIMB_Q_SIZE == 8

ASSUME PipelineAssumption ==
    /\ NChannels \in Nat \ {0}
    /\ MaxEvents \in Nat /\ MaxManual \in Nat
    /\ MaxPending \in Nat /\ MaxLost \in Nat
    /\ MaxPending + MaxLost < IPIMB_Q_SIZE

Channels == 0 .. (NChannels - 1)     \* scanned in this order
NoEvent == 0            \* a zeroed or half decoded buffer, or no data
NoChannel == -1
Slots == 0 .. (IPIMB_Q_SIZE - 1)
Slot(n) == n % IPIMB_Q_SIZE

VARIABLES
    reader,         \* where the reader thread is
    data, ts,       \* the rings: the event each slot holds data, a time of
    dwr, drd,       \* their counters
    pending, lost,  \* scan requests queued, and dropped
    scan, hand,     \* the channel the scan thread and an operator are at
    holder,         \* who holds the lock set of the record chains
    byHand,         \* bounds the RAW records processed by hand
    raw, rawTime,   \* CHn_RAW: the event of its value and of its TIME
    done,           \* the inputs A..D of DONE_CNT that are 1
    ipmData,        \* IPIMB_DEVICE::ipmData, the event remembered for messages
    sample, stamp,  \* what SUM, XPOS and YPOS last saw of each channel
    message         \* the event the last message carries

ringVars   == <<data, ts, dwr>>
scanVars   == <<scan, hand, holder, byHand>>
recordVars == <<raw, rawTime, done, ipmData>>
outputVars == <<drd, sample, stamp, message>>
vars == <<reader, ringVars, pending, lost, scanVars, recordVars, outputVars>>

Init ==
    /\ reader = "idle"
    /\ data = [s \in Slots |-> NoEvent]
    /\ ts   = [s \in Slots |-> NoEvent]
    /\ dwr = 0 /\ drd = 0
    /\ pending = 0 /\ lost = 0
    /\ scan = NoChannel /\ hand = NoChannel /\ holder = "nobody" /\ byHand = 0
    /\ raw     = [c \in Channels |-> NoEvent]
    /\ rawTime = [c \in Channels |-> NoEvent]
    /\ done = {}
    /\ ipmData = NoEvent
    /\ sample = [c \in Channels |-> NoEvent]
    /\ stamp  = [c \in Channels |-> NoEvent]
    /\ message = NoEvent

-----------------------------------------------------------------------------
(* The reader thread.                                                      *)

MoveReader(from, to) == reader = from /\ reader' = to

\* Mutant: the frame is decoded into the slot published last.
DecodeSlotBehind == Slot(dwr + IPIMB_Q_SIZE - 1)

\* GetBuffer(0).
DecodeSlot == Slot(dwr)

\* A frame comes in and its words go into the buffer one by one.
StartFrame ==
    /\ MoveReader("idle", "decode")
    /\ dwr < MaxEvents
    /\ pending < MaxPending
    /\ data' = [data EXCEPT ![DecodeSlot] = NoEvent]
    /\ UNCHANGED <<ts, dwr, pending, lost, scanVars, recordVars, outputVars>>

\* A flag of a word, the end of the frame or its CRC is wrong.
RejectFrame ==
    /\ MoveReader("decode", "idle")
    /\ UNCHANGED <<ringVars, pending, lost, scanVars, recordVars, outputVars>>

AcceptFrame ==
    /\ MoveReader("decode", "acquired")
    /\ data' = [data EXCEPT ![DecodeSlot] = dwr + 1]
    /\ UNCHANGED <<ts, dwr, pending, lost, scanVars, recordVars, outputVars>>

\* The poll loop finds no fiducial for the data, and does not queue it.
DropData ==
    /\ MoveReader("acquired", "idle")
    /\ UNCHANGED <<ringVars, pending, lost, scanVars, recordVars, outputVars>>

\* sendData: ts[dwr++ & IPIMB_Q_MASK] = t.  No lock or barrier orders the two
\* stores; n is the value of dwr before the statement.
StoreStamp(n) == ts' = [ts EXCEPT ![Slot(n)] = n + 1]

SendStamp ==
    \/ MoveReader("acquired", "stamped") /\ StoreStamp(dwr)
    \/ MoveReader("advanced", "sent") /\ StoreStamp(dwr - 1)

SendStampFirst ==
    /\ SendStamp
    /\ UNCHANGED <<data, dwr, pending, lost, scanVars, recordVars, outputVars>>

SendAdvance ==
    /\ MoveReader("acquired", "advanced") \/ MoveReader("stamped", "sent")
    /\ dwr' = dwr + 1
    /\ UNCHANGED <<data, ts, pending, lost, scanVars, recordVars, outputVars>>

\* Mutant: a request is not queued while another one is.
SendRequestOnce ==
    /\ MoveReader("sent", "idle")
    /\ pending' = 1
    /\ UNCHANGED <<ringVars, lost, scanVars, recordVars, outputVars>>

\* scanIoRequest queues one pass of the scan list, unless the queue is full.
SendRequest ==
    /\ MoveReader("sent", "idle")
    /\ \/ pending' = pending + 1 /\ UNCHANGED lost
       \/ lost < MaxLost /\ lost' = lost + 1 /\ UNCHANGED pending
    /\ UNCHANGED <<ringVars, scanVars, recordVars, outputVars>>

-----------------------------------------------------------------------------
(* The scan thread and the record chains.                                  *)

StartScan ==
    /\ scan = NoChannel
    /\ pending > 0
    /\ pending' = pending - 1
    /\ scan' = 0
    /\ UNCHANGED <<reader, ringVars, lost, hand, holder, byHand, recordVars, outputVars>>

\* Mutant: getData does not see that the ring is empty.
GetDataUnchecked == data[Slot(drd)]

\* getData: the event in the slot of drd, if there is one.
GetData == IF drd = dwr THEN NoEvent ELSE data[Slot(drd)]

\* read_ai of CHn_RAW.  Without data VAL becomes 0 and TIME is left alone.
ReadRaw(c) ==
    /\ raw' = [raw EXCEPT ![c] = GetData]
    /\ IF drd = dwr
         THEN UNCHANGED <<rawTime, ipmData>>
         ELSE /\ rawTime' = [rawTime EXCEPT ![c] = ts[Slot(drd)]]
              /\ ipmData' = IF c = 0 THEN GetData ELSE ipmData
    /\ UNCHANGED done

\* The lock set is taken for a chain; RAW is its first record.
StartChain(who, c) ==
    /\ holder = "nobody"
    /\ holder' = who
    /\ ReadRaw(c)
    /\ UNCHANGED <<reader, ringVars, pending, lost, outputVars>>

ScanChannel ==
    /\ scan # NoChannel
    /\ StartChain("scan", scan)
    /\ UNCHANGED <<scan, hand, byHand>>

ProcessByHand(c) ==
    /\ byHand < MaxManual
    /\ StartChain("operator", c)
    /\ hand' = c
    /\ byHand' = byHand + 1
    /\ UNCHANGED scan

\* Mutant: the counter starts over without resetting its inputs.
ResetNothing(d) == done' = d

\* DONE_CNT_RESET writes a 0 to every input of DONE_CNT.
ResetDone(d) == done' = {}

\* Mutant: DOREAD advances past an empty ring.
NextDataUnchecked == drd' = drd + 1

\* DOREAD, nextData.
NextData == drd' = IF drd # dwr THEN drd + 1 ELSE drd

\* The rest of the chain: DONE puts a 1 into DONE_CNT, and the fourth one
\* runs DOREAD, SUM, XPOS, YPOS and the message before the lock set is free.
CountDone(c) ==
    IF done \cup {c} = Channels
      THEN /\ ResetDone(Channels)
           /\ NextData
           /\ sample' = raw
           /\ stamp' = rawTime
           /\ message' = ipmData
      ELSE /\ done' = done \cup {c}
           /\ UNCHANGED outputVars

\* Mutant: the pass does not stop at the last channel.
NextChannelEndless(c) == c + 1

NextChannel(c) == IF c + 1 \in Channels THEN c + 1 ELSE NoChannel

FinishChain ==
    /\ \/ /\ holder = "scan"
          /\ CountDone(scan)
          /\ scan' = NextChannel(scan)
          /\ UNCHANGED hand
       \/ /\ holder = "operator"
          /\ CountDone(hand)
          /\ hand' = NoChannel
          /\ UNCHANGED scan
    /\ holder' = "nobody"
    /\ UNCHANGED <<reader, ringVars, pending, lost, byHand, raw, rawTime, ipmData>>

-----------------------------------------------------------------------------
Sending == SendStampFirst \/ SendAdvance \/ SendRequest
Scanning == StartScan \/ ScanChannel \/ FinishChain

Next ==
    \/ StartFrame \/ RejectFrame \/ AcceptFrame \/ DropData
    \/ Sending
    \/ Scanning
    \/ \E c \in Channels : ProcessByHand(c)

Spec == Init /\ [][Next]_vars

\* The threads run; frames need not come, or come out right.
FairSpec == Spec /\ WF_vars(Sending) /\ WF_vars(Scanning)

-----------------------------------------------------------------------------
(* Properties.                                                             *)

TypeOK ==
    /\ reader \in {"idle", "decode", "acquired", "stamped", "advanced", "sent"}
    /\ data \in [Slots -> Nat] /\ ts \in [Slots -> Nat]
    /\ dwr \in Nat /\ drd \in Nat
    /\ pending \in Nat /\ lost \in 0 .. MaxLost
    /\ scan \in Channels \cup {NoChannel}
    /\ hand \in Channels \cup {NoChannel}
    /\ holder \in {"nobody", "scan", "operator"}
    /\ byHand \in 0 .. MaxManual
    /\ raw \in [Channels -> Nat] /\ rawTime \in [Channels -> Nat]
    /\ done \subseteq Channels
    /\ ipmData \in Nat
    /\ sample \in [Channels -> Nat] /\ stamp \in [Channels -> Nat]
    /\ message \in Nat

\* The reader never overtakes the records by a whole turn of the ring: the
\* slot it decodes into is never the one the records read, even with records
\* processed by hand.
NoOverrun == drd <= dwr /\ dwr - drd <= IPIMB_Q_SIZE
                /\ (reader = "decode" => dwr - drd < IPIMB_Q_SIZE)

\* The ring holds one event per scan request that was queued and not finished,
\* or dropped: as long as no record is processed by hand, nothing makes up for
\* a dropped request.
BacklogExact ==
    byHand = 0 /\ scan = NoChannel /\ reader \in {"idle", "decode", "acquired", "stamped"}
       => dwr - drd = pending + lost

\* The records deliver the events of the reader once, in order and unmixed,
\* until a record is processed by hand; and never an event before its time.
Stream == INSTANCE EventStream
            WITH published <- dwr, delivered <- drd, disturbed <- (byHand > 0)
ImplementsStream == Stream!StreamSpec

\* Once the last event is published, the records get to it, but for at most as
\* many events as scan requests were dropped: only a full set of RAW records
\* processed by hand makes up for one.
Drained == (dwr = MaxEvents) ~> (dwr - drd <= lost)

=============================================================================
