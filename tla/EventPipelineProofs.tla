--------------------------- MODULE EventPipelineProofs ---------------------------
(***************************************************************************)
(* Theorems of EventPipeline for any number of channels, events, scan      *)
(* requests and dropped requests, as long as MaxPending + MaxLost < 8:     *)
(* every variable keeps its type, and the ring is never overrun, whatever  *)
(* operators process by hand.  As long as nobody has processed a record by *)
(* hand, the ring holds exactly one event per request that is not finished *)
(* or was dropped, and the records implement the event stream.             *)
(***************************************************************************)
EXTENDS EventPipeline, TLAPS

-----------------------------------------------------------------------------
(* The invariants.                                                         *)

\* A chain in progress has a channel.
ChainInv ==
    /\ holder = "scan" => scan # NoChannel
    /\ holder = "operator" => hand # NoChannel

\* The requests the reader can have outstanding.
QueueInv ==
    /\ pending <= MaxPending
    /\ reader # "idle" => pending < MaxPending

\* An event published whose scan is not yet requested.
Ahead == IF reader \in {"advanced", "sent"} THEN 1 ELSE 0

\* The pass of the scan thread that still has to advance drd: every channel
\* it finished is counted.
Owed == IF scan # NoChannel /\ 0 .. (scan - 1) \subseteq done THEN 1 ELSE 0

\* No event waits in the ring without a request, a drop or a pass behind it.
LagInv == drd <= dwr /\ dwr - drd <= pending + lost + Ahead + Owed

LagBounded == QueueInv /\ LagInv

-----------------------------------------------------------------------------
(* Type correctness.                                                       *)

LEMMA InitType == Init => TypeOK
BY PipelineAssumption DEF Init, TypeOK, Channels, NoEvent, NoChannel, Slots, IPIMB_Q_SIZE

\* Slots are indices of the ring.
LEMMA SlotType == \A n \in Int : Slot(n) \in Slots
BY DEF Slot, Slots, IPIMB_Q_SIZE

\* Updating a function at one point keeps its type.
LEMMA ExceptType ==
    ASSUME NEW S, NEW T, NEW f \in [S -> T], NEW x, NEW v, v \in T
    PROVE  [f EXCEPT ![x] = v] \in [S -> T]
OBVIOUS

\* What read_ai finds in the ring.
LEMMA GetDataType == TypeOK => GetData \in Nat /\ ts[Slot(drd)] \in Nat
<1>1. TypeOK => Slot(drd) \in Slots
  BY SlotType DEF TypeOK
<1> QED
  BY <1>1 DEF TypeOK, GetData, NoEvent

\* A step of the reader thread keeps the types.
LEMMA ReaderType ==
    ASSUME TypeOK, ChainInv, StartFrame \/ RejectFrame \/ AcceptFrame \/ DropData \/ Sending
    PROVE  TypeOK' /\ ChainInv'
<1> USE DEF TypeOK, ChainInv, MoveReader, scanVars, recordVars, outputVars, ringVars
<1>1. CASE StartFrame
  BY <1>1, ExceptType DEF StartFrame, NoEvent
<1>2. CASE RejectFrame
  BY <1>2 DEF RejectFrame
<1>3. CASE AcceptFrame
  <2>1. dwr + 1 \in Nat
    OBVIOUS
  <2> QED
    BY <1>3, <2>1, ExceptType DEF AcceptFrame
<1>4. CASE DropData
  BY <1>4 DEF DropData
<1>5. CASE SendStampFirst
  <2>1. ts' \in [Slots -> Nat]
    BY <1>5, SMT DEF SendStampFirst, SendStamp, StoreStamp
  <2>2. reader' \in {"stamped", "sent"}
    BY <1>5 DEF SendStampFirst, SendStamp
  <2> QED
    BY <1>5, <2>1, <2>2 DEF SendStampFirst
<1>6. CASE SendAdvance
  BY <1>6 DEF SendAdvance
<1>7. CASE SendRequest
  BY <1>7, PipelineAssumption DEF SendRequest
<1> QED
  BY <1>1, <1>2, <1>3, <1>4, <1>5, <1>6, <1>7 DEF Sending

\* A step of the scan thread or of an operator keeps them.
LEMMA RecordType ==
    ASSUME TypeOK, ChainInv, Scanning \/ \E c \in Channels : ProcessByHand(c)
    PROVE  TypeOK' /\ ChainInv'
<1>1. CASE StartScan
  <2>1. 0 \in Channels /\ pending' \in Nat
    BY <1>1, PipelineAssumption DEF StartScan, Channels, TypeOK
  <2>2. ChainInv'
    BY <1>1 DEF StartScan, ChainInv, NoChannel
  <2> QED
    BY <1>1, <2>1, <2>2 DEF StartScan, TypeOK, ringVars, recordVars, outputVars
<1>2. ASSUME NEW c \in Channels, NEW who \in {"scan", "operator"}, StartChain(who, c)
      PROVE  /\ raw' \in [Channels -> Nat] /\ rawTime' \in [Channels -> Nat]
             /\ ipmData' \in Nat
             /\ done' = done /\ holder' = who
             /\ UNCHANGED <<reader, ringVars, pending, lost, outputVars>>
  BY <1>2, GetDataType, ExceptType DEF StartChain, ReadRaw, TypeOK
<1>3. CASE ScanChannel
  <2>1. scan \in Channels /\ StartChain("scan", scan)
    BY <1>3 DEF ScanChannel, TypeOK
  <2>2. ChainInv'
    BY <1>2, <1>3, <2>1 DEF ScanChannel, ChainInv
  <2> QED
    BY <1>2, <1>3, <2>1, <2>2 DEF ScanChannel, TypeOK, ringVars, outputVars
<1>4. ASSUME NEW c \in Channels, ProcessByHand(c)
      PROVE  TypeOK' /\ ChainInv'
  <2>1. StartChain("operator", c) /\ byHand' \in 0 .. MaxManual
    BY <1>4, PipelineAssumption DEF ProcessByHand, TypeOK
  <2>2. ChainInv'
    <3>1. c # NoChannel
      BY DEF Channels, NoChannel
    <3> QED
      BY <1>2, <1>4, <2>1, <3>1 DEF ProcessByHand, ChainInv
  <2> QED
    BY <1>2, <1>4, <2>1, <2>2 DEF ProcessByHand, TypeOK, ringVars, outputVars
<1>5. CASE FinishChain
  <2>1. ASSUME NEW c \in Channels, CountDone(c)
        PROVE  /\ done' \subseteq Channels /\ drd' \in Nat /\ message' \in Nat
               /\ sample' \in [Channels -> Nat] /\ stamp' \in [Channels -> Nat]
    <3>1. CASE done \cup {c} = Channels
      BY <2>1, <3>1 DEF CountDone, ResetDone, NextData, TypeOK
    <3>2. CASE done \cup {c} # Channels
      BY <2>1, <3>2 DEF CountDone, TypeOK, outputVars
    <3> QED
      BY <3>1, <3>2
  <2>2. ASSUME NEW c \in Channels
        PROVE  NextChannel(c) \in Channels \cup {NoChannel}
    BY DEF NextChannel
  <2>3. \/ scan \in Channels /\ CountDone(scan) /\ scan' = NextChannel(scan) /\ hand' = hand
        \/ hand \in Channels /\ CountDone(hand) /\ hand' = NoChannel /\ scan' = scan
    BY <1>5 DEF FinishChain, TypeOK, ChainInv
  <2>4. holder' = "nobody" /\ ChainInv'
    BY <1>5 DEF FinishChain, ChainInv
  <2>5. scan' \in Channels \cup {NoChannel} /\ hand' \in Channels \cup {NoChannel}
    BY <2>2, <2>3 DEF TypeOK
  <2> QED
    BY <1>5, <2>1, <2>3, <2>4, <2>5 DEF FinishChain, TypeOK, ringVars
<1> QED
  BY <1>1, <1>3, <1>4, <1>5 DEF Scanning

LEMMA TypeInvariant == Spec => [](TypeOK /\ ChainInv)
<1>1. TypeOK /\ ChainInv /\ [Next]_vars => TypeOK' /\ ChainInv'
  <2> SUFFICES ASSUME TypeOK, ChainInv, [Next]_vars
               PROVE  TypeOK' /\ ChainInv'
    OBVIOUS
  <2>1. CASE UNCHANGED vars
    BY <2>1 DEF TypeOK, ChainInv, vars, ringVars, scanVars, recordVars, outputVars
  <2> QED
    BY <2>1, ReaderType, RecordType DEF Next
<1>2. Init => ChainInv
  BY DEF Init, ChainInv
<1> QED
  BY <1>1, <1>2, InitType, PTL DEF Spec

\* Every variable keeps its type.
THEOREM TypeCorrect == Spec => []TypeOK
BY TypeInvariant, PTL

-----------------------------------------------------------------------------
(* The ring is never overrun.                                              *)

LEMMA OwedType == {Owed, Owed', Ahead, Ahead'} \subseteq {0, 1}
BY DEF Owed, Ahead

\* Only the reader moves dwr, the requests and the drops.
LEMMA ReaderKeepsLag ==
    ASSUME TypeOK, LagBounded, StartFrame \/ RejectFrame \/ AcceptFrame \/ DropData \/ Sending
    PROVE  LagBounded'
<1>1. Owed' = Owed
  BY DEF StartFrame, RejectFrame, AcceptFrame, DropData, Sending, SendStampFirst, SendAdvance,
         SendRequest, Owed, scanVars, recordVars
<1>2. UNCHANGED drd
  BY DEF StartFrame, RejectFrame, AcceptFrame, DropData, Sending, SendStampFirst, SendAdvance,
         SendRequest, outputVars
<1> USE OwedType DEF LagBounded, QueueInv, LagInv, Ahead, MoveReader, TypeOK
<1>3. CASE StartFrame
  BY <1>1, <1>2, <1>3 DEF StartFrame
<1>4. CASE RejectFrame \/ AcceptFrame \/ DropData
  BY <1>1, <1>2, <1>4, PipelineAssumption DEF RejectFrame, AcceptFrame, DropData, ringVars
<1>5. CASE SendStampFirst
  BY <1>1, <1>2, <1>5 DEF SendStampFirst, SendStamp
<1>6. CASE SendAdvance
  BY <1>1, <1>2, <1>6 DEF SendAdvance
<1>7. CASE SendRequest
  BY <1>1, <1>2, <1>7, PipelineAssumption DEF SendRequest, ringVars
<1> QED
  BY <1>3, <1>4, <1>5, <1>6, <1>7 DEF Sending

\* A pass starts with one request, and its last channel advances drd if it
\* still has to.
LEMMA ScanKeepsLag ==
    ASSUME TypeOK, ChainInv, LagBounded, Scanning \/ \E c \in Channels : ProcessByHand(c)
    PROVE  LagBounded'
<1> USE OwedType
<1>1. CASE StartScan
  <2>1. Owed = 0 /\ Owed' = 1
    <3>1. 0 .. (0 - 1) = {}
      OBVIOUS
    <3> QED
      BY <1>1, <3>1 DEF StartScan, Owed, NoChannel
  <2>2. Ahead' = Ahead /\ UNCHANGED <<reader, dwr, drd, lost>>
    BY <1>1 DEF StartScan, Ahead, ringVars, outputVars
  <2> QED
    BY <1>1, <2>1, <2>2, PipelineAssumption DEF StartScan, LagBounded, QueueInv, LagInv, TypeOK
<1>2. CASE ScanChannel \/ \E c \in Channels : ProcessByHand(c)
  <2>1. UNCHANGED <<reader, dwr, drd, pending, lost, scan, done>>
    BY <1>2 DEF ScanChannel, ProcessByHand, StartChain, ReadRaw, ringVars, outputVars
  <2> QED
    BY <2>1 DEF LagBounded, QueueInv, LagInv, Ahead, Owed
<1>3. CASE FinishChain
  <2>1. UNCHANGED <<reader, dwr, pending, lost>> /\ Ahead' = Ahead
    BY <1>3 DEF FinishChain, Ahead, ringVars
  <2>2. drd <= dwr /\ dwr - drd <= pending + lost + Ahead + Owed
    BY DEF LagBounded, LagInv
  <2>3. ASSUME drd' = IF drd # dwr THEN drd + 1 ELSE drd
        PROVE  LagInv'
    BY <2>1, <2>2, <2>3 DEF LagInv, TypeOK
  <2>4. ASSUME drd' = drd, Owed' >= Owed
        PROVE  LagInv'
    BY <2>1, <2>2, <2>4 DEF LagInv, TypeOK
  <2>5. ASSUME holder = "scan"
        PROVE  LagInv'
    <3>1. scan \in Channels /\ CountDone(scan) /\ scan' = NextChannel(scan)
      BY <1>3, <2>5 DEF FinishChain, ChainInv, TypeOK
    <3>2. CASE done \cup {scan} # Channels
      <4>1. done' = done \cup {scan}
        BY <3>1, <3>2 DEF CountDone
      <4>2. ASSUME 0 .. (scan - 1) \subseteq done
            PROVE  Owed' = 1
        <5>1. 0 .. scan \subseteq done'
          BY <3>1, <4>1, <4>2 DEF Channels
        <5>2. scan + 1 \in Channels
          <6>1. scan \in 0 .. (NChannels - 1) /\ NChannels \in Nat
            BY <3>1, PipelineAssumption DEF Channels
          <6>2. CASE scan + 1 = NChannels
            <7>1. done' = 0 .. (NChannels - 1)
              <8>1. done' \subseteq Channels
                BY <3>1, <4>1 DEF TypeOK
              <8>2. 0 .. scan = 0 .. (NChannels - 1)
                BY <6>1, <6>2
              <8> QED
                BY <5>1, <8>1, <8>2 DEF Channels
            <7> QED
              BY <3>2, <4>1, <7>1 DEF Channels
          <6> QED
            BY <6>1, <6>2 DEF Channels
        <5>3. scan' = scan + 1 /\ scan' # NoChannel
          BY <3>1, <5>2 DEF NextChannel, Channels, NoChannel
        <5>4. scan' - 1 = scan
          BY <3>1, <5>3 DEF Channels
        <5> QED
          BY <5>1, <5>3, <5>4 DEF Owed
      <4>3. Owed' >= Owed
        BY <4>2 DEF Owed
      <4> QED
        BY <2>4, <3>1, <3>2, <4>3 DEF CountDone, outputVars
    <3> QED
      BY <2>3, <3>1, <3>2 DEF CountDone, NextData
  <2>6. ASSUME holder = "operator"
        PROVE  LagInv'
    <3>1. hand \in Channels /\ CountDone(hand) /\ scan' = scan
      BY <1>3, <2>6 DEF FinishChain, ChainInv, TypeOK
    <3>2. CASE done \cup {hand} # Channels
      <4>1. done \subseteq done'
        BY <3>1, <3>2 DEF CountDone
      <4>2. Owed' >= Owed
        BY <3>1, <4>1 DEF Owed
      <4> QED
        BY <2>4, <3>1, <3>2, <4>2 DEF CountDone, outputVars
    <3> QED
      BY <2>3, <3>1, <3>2 DEF CountDone, NextData
  <2> QED
    BY <1>3, <2>1, <2>5, <2>6 DEF FinishChain, LagBounded, QueueInv
<1> QED
  BY <1>1, <1>2, <1>3 DEF Scanning

\* The inductive invariant: what waits in the ring has a request, a drop or a
\* pass behind it.
LEMMA LagInvariant == Spec => [](TypeOK /\ ChainInv /\ LagBounded)
<1>1. Init => LagBounded
  BY PipelineAssumption, OwedType DEF Init, LagBounded, QueueInv, LagInv, Ahead, Owed
<1>2. TypeOK /\ ChainInv /\ LagBounded /\ [Next]_vars => LagBounded'
  <2> SUFFICES ASSUME TypeOK, ChainInv, LagBounded, [Next]_vars
               PROVE  LagBounded'
    OBVIOUS
  <2>1. CASE UNCHANGED vars
    BY <2>1 DEF LagBounded, QueueInv, LagInv, Ahead, Owed,
                vars, ringVars, scanVars, recordVars, outputVars
  <2> QED
    BY <2>1, ReaderKeepsLag, ScanKeepsLag DEF Next
<1> QED
  BY <1>1, <1>2, TypeInvariant, PTL DEF Spec

\* sendData, nextData and the reader: the slot a frame is decoded into is never
\* one the records still have to read, whatever operators process by hand.
THEOREM NeverOverrun == Spec => []NoOverrun
<1>1. TypeOK /\ LagBounded => NoOverrun
  BY PipelineAssumption, OwedType
     DEF LagBounded, QueueInv, LagInv, Ahead, NoOverrun, TypeOK, IPIMB_Q_SIZE
<1> QED
  BY <1>1, LagInvariant, PTL

-----------------------------------------------------------------------------
(* The order of events: the invariants.                                    *)

\* Nobody processes a record by hand.
NobodyByHand == hand = NoChannel /\ holder # "operator"

\* DONE_CNT counts the channels that the pass finished.
DoneInv == done = IF scan = NoChannel THEN {} ELSE 0 .. (scan - 1)

\* The ring holds one event for each.
ExactLag == drd <= dwr /\ dwr - drd = pending + lost + Ahead + Owed

\* The slots between the counters hold their events, and their times but for
\* a time that sendData has not stored yet.
DataInv ==
    /\ \A n \in Nat : drd <= n /\ n < dwr => data[Slot(n)] = n + 1
    /\ reader \in {"acquired", "stamped"} => data[Slot(dwr)] = dwr + 1

TimeInv ==
    /\ \A n \in Nat : drd <= n /\ n < dwr /\ ~(reader = "advanced" /\ n = dwr - 1)
                        => ts[Slot(n)] = n + 1
    /\ reader = "stamped" => ts[Slot(dwr)] = dwr + 1

\* The channels RAW was processed of in this pass.
Read == done \cup (IF holder = "scan" THEN {scan} ELSE {})

\* They show the event of drd.
SampleInv ==
    /\ \A c \in Read : raw[c] = drd + 1 /\ rawTime[c] = drd + 1
    /\ 0 \in Read => ipmData = drd + 1

OrderInv == NobodyByHand /\ DoneInv /\ ExactLag /\ DataInv /\ TimeInv /\ SampleInv

-----------------------------------------------------------------------------
(* Slots.                                                                  *)

\* Two events less than a turn of the ring apart are in different slots.
LEMMA SlotApart ==
    \A m, n \in Nat : m < n /\ n - m < IPIMB_Q_SIZE => Slot(m) # Slot(n)
BY DEF Slot, IPIMB_Q_SIZE

\* There is room in the ring as long as another request may be made.
LEMMA RoomLeft ==
    TypeOK /\ LagBounded /\ pending < MaxPending => dwr - drd < IPIMB_Q_SIZE
      \/ reader \in {"advanced", "sent"}
BY PipelineAssumption, OwedType DEF TypeOK, LagBounded, LagInv, Ahead, IPIMB_Q_SIZE

\* The events the records still have to read.
Unread == {n \in Nat : drd <= n /\ n < dwr}

\* A store into the slot of dwr misses all of them if there is room.
LEMMA StoreMisses ==
    ASSUME TypeOK, dwr - drd < IPIMB_Q_SIZE, NEW n \in Unread
    PROVE  Slot(n) # Slot(dwr)
BY SlotApart DEF Unread, TypeOK, IPIMB_Q_SIZE

-----------------------------------------------------------------------------
(* The steps.                                                              *)

\* What the reader thread does leaves the record side alone.
LEMMA ReaderKeepsRecords ==
    ASSUME OrderInv, StartFrame \/ RejectFrame \/ AcceptFrame \/ DropData \/ Sending
    PROVE  NobodyByHand' /\ DoneInv' /\ SampleInv'
<1>1. UNCHANGED <<scan, hand, holder, done, raw, rawTime, ipmData, drd>>
  BY DEF StartFrame, RejectFrame, AcceptFrame, DropData, Sending, SendStampFirst, SendAdvance,
         SendRequest, scanVars, recordVars, outputVars
<1> QED
  BY <1>1 DEF OrderInv, NobodyByHand, DoneInv, SampleInv, Read

\* Every event published is accounted for.
LEMMA ReaderKeepsCount ==
    ASSUME TypeOK, OrderInv, StartFrame \/ RejectFrame \/ AcceptFrame \/ DropData \/ Sending
    PROVE  ExactLag'
<1>1. Owed' = Owed /\ UNCHANGED drd
  BY DEF StartFrame, RejectFrame, AcceptFrame, DropData, Sending, SendStampFirst, SendAdvance,
         SendRequest, Owed, scanVars, recordVars, outputVars
<1>2. ExactLag
  BY DEF OrderInv
<1> USE OwedType, <1>1, <1>2 DEF ExactLag, Ahead, MoveReader, TypeOK
<1>3. CASE StartFrame \/ RejectFrame \/ AcceptFrame \/ DropData
  BY <1>3 DEF StartFrame, RejectFrame, AcceptFrame, DropData, ringVars
<1>4. CASE SendStampFirst
  BY <1>4 DEF SendStampFirst, SendStamp
<1>5. CASE SendAdvance
  BY <1>5 DEF SendAdvance
<1>6. CASE SendRequest
  BY <1>6 DEF SendRequest, ringVars
<1> QED
  BY <1>3, <1>4, <1>5, <1>6 DEF Sending

\* The frame being decoded does not touch an event still to be read.
LEMMA ReaderKeepsData ==
    ASSUME TypeOK, LagBounded, OrderInv,
           StartFrame \/ RejectFrame \/ AcceptFrame \/ DropData \/ Sending
    PROVE  DataInv'
<1>1. DataInv /\ UNCHANGED drd
  BY DEF StartFrame, RejectFrame, AcceptFrame, DropData, Sending, SendStampFirst, SendAdvance,
         SendRequest, OrderInv, outputVars
<1>2. Slot(dwr) \in Slots
  BY SlotType DEF TypeOK
<1> USE DEF DataInv, MoveReader
<1>3. CASE StartFrame \/ AcceptFrame
  <2>1. dwr - drd < IPIMB_Q_SIZE
    BY <1>3, RoomLeft DEF StartFrame, AcceptFrame, LagBounded, QueueInv
  <2>2. ASSUME NEW n \in Nat, drd <= n, n < dwr
        PROVE  data'[Slot(n)] = n + 1
    <3>1. Slot(n) # Slot(dwr) /\ Slot(n) \in Slots
      BY <2>1, <2>2, StoreMisses, SlotType DEF Unread
    <3> QED
      BY <1>1, <1>3, <2>2, <3>1 DEF StartFrame, AcceptFrame, DecodeSlot, TypeOK
  <2>3. dwr' = dwr /\ (reader' # "decode" => data'[Slot(dwr)] = dwr + 1)
        /\ reader' \in {"decode", "acquired"}
    BY <1>2, <1>3 DEF StartFrame, AcceptFrame, DecodeSlot, TypeOK
  <2> QED
    BY <1>1, <2>2, <2>3
<1>4. CASE RejectFrame \/ DropData \/ SendStampFirst \/ SendRequest
  BY <1>1, <1>4 DEF RejectFrame, DropData, SendStampFirst, SendStamp, SendRequest, ringVars
<1>5. CASE SendAdvance
  BY <1>1, <1>5 DEF SendAdvance, TypeOK
<1> QED
  BY <1>3, <1>4, <1>5 DEF Sending

\* Nor does sendData, in either order of its stores.
LEMMA ReaderKeepsTime ==
    ASSUME TypeOK, LagBounded, OrderInv,
           StartFrame \/ RejectFrame \/ AcceptFrame \/ DropData \/ Sending
    PROVE  TimeInv'
<1>1. TimeInv /\ UNCHANGED drd
  BY DEF StartFrame, RejectFrame, AcceptFrame, DropData, Sending, SendStampFirst, SendAdvance,
         SendRequest, OrderInv, outputVars
<1>2. Slot(dwr) \in Slots
  BY SlotType DEF TypeOK
<1> USE DEF TimeInv, MoveReader
<1>3. CASE StartFrame \/ RejectFrame \/ AcceptFrame \/ DropData \/ SendRequest
  BY <1>1, <1>3 DEF StartFrame, RejectFrame, AcceptFrame, DropData, SendRequest, ringVars
<1>4. CASE SendStampFirst /\ reader = "acquired"
  <2>1. dwr - drd < IPIMB_Q_SIZE
    BY <1>4, RoomLeft DEF LagBounded, QueueInv
  <2>2. ts' = [ts EXCEPT ![Slot(dwr)] = dwr + 1] /\ UNCHANGED dwr /\ reader' = "stamped"
    BY <1>4 DEF SendStampFirst, SendStamp, StoreStamp
  <2>3. ASSUME NEW n \in Nat, drd <= n, n < dwr
        PROVE  ts'[Slot(n)] = n + 1
    <3>1. Slot(n) # Slot(dwr) /\ Slot(n) \in Slots
      BY <2>1, <2>3, StoreMisses, SlotType DEF Unread
    <3> QED
      BY <1>1, <1>4, <2>2, <2>3, <3>1 DEF TypeOK
  <2> QED
    BY <1>1, <1>2, <2>2, <2>3 DEF TypeOK
<1>5. CASE SendStampFirst /\ reader = "advanced"
  <2>1. ts' = [ts EXCEPT ![Slot(dwr - 1)] = dwr - 1 + 1] /\ UNCHANGED dwr /\ reader' = "sent"
    BY <1>5 DEF SendStampFirst, SendStamp, StoreStamp
  <2>2. dwr - drd <= IPIMB_Q_SIZE /\ drd < dwr
    <3>1. ExactLag
      BY DEF OrderInv
    <3>2. dwr - drd >= 1
      BY <1>5, <3>1, OwedType DEF ExactLag, Ahead, TypeOK
    <3> QED
      BY <1>5, <3>2, PipelineAssumption, OwedType
         DEF LagBounded, LagInv, QueueInv, Ahead, TypeOK, IPIMB_Q_SIZE
  <2>3. dwr - 1 \in Nat
    BY <2>2 DEF TypeOK
  <2>4. Slot(dwr - 1) \in Slots
    BY <2>3, SlotType
  <2>5. ASSUME NEW n \in Nat, drd <= n, n < dwr
        PROVE  ts'[Slot(n)] = n + 1
    <3>1. CASE n = dwr - 1
      BY <2>1, <2>4, <3>1 DEF TypeOK
    <3>2. CASE n # dwr - 1
      <4>1. n < dwr - 1 /\ dwr - 1 - n < IPIMB_Q_SIZE
        BY <2>2, <2>5, <3>2 DEF TypeOK, IPIMB_Q_SIZE
      <4>2. Slot(n) # Slot(dwr - 1) /\ Slot(n) \in Slots
        BY <2>3, <4>1, SlotApart, SlotType
      <4> QED
        BY <1>1, <2>1, <2>5, <3>2, <4>2 DEF TypeOK
    <3> QED
      BY <3>1, <3>2
  <2> QED
    BY <1>1, <2>1, <2>5
<1>6. CASE SendAdvance
  BY <1>1, <1>6 DEF SendAdvance, TypeOK
<1> QED
  BY <1>3, <1>4, <1>5, <1>6 DEF Sending, SendStampFirst, SendStamp

\* The scan thread reads the event of drd for every channel, and moves on.
LEMMA ScanKeepsOrder ==
    ASSUME TypeOK, ChainInv, OrderInv, Scanning
    PROVE  OrderInv'
<1> USE OwedType
<1>1. NobodyByHand /\ DoneInv /\ ExactLag /\ DataInv /\ TimeInv /\ SampleInv
  BY DEF OrderInv
<1>6. /\ drd \in Nat /\ dwr \in Nat /\ pending \in Nat /\ lost \in Nat
      /\ Ahead \in {0, 1} /\ Owed \in {0, 1}
  BY DEF TypeOK, Ahead, Owed
<1>2. ASSUME UNCHANGED <<reader, data, ts, dwr>>, drd' \in Nat, drd <= drd'
      PROVE  DataInv' /\ TimeInv'
  BY <1>1, <1>2 DEF DataInv, TimeInv, TypeOK
<1>3. CASE StartScan
  <2>1. /\ UNCHANGED <<reader, data, ts, dwr, drd, lost, hand, holder, raw, rawTime, done, ipmData>>
        /\ scan = NoChannel /\ scan' = 0 /\ pending' = pending - 1
    BY <1>3 DEF StartScan, ringVars, recordVars, outputVars
  <2>2. done = {} /\ 0 .. (0 - 1) = {}
    BY <1>1, <2>1 DEF DoneInv
  <2>3. NobodyByHand' /\ DoneInv'
    BY <1>1, <2>1, <2>2 DEF NobodyByHand, DoneInv, NoChannel
  <2>4. Owed = 0 /\ Owed' = 1
    BY <2>1, <2>2 DEF Owed, NoChannel
  <2>5. ExactLag'
    BY <1>1, <2>1, <2>4 DEF ExactLag, Ahead, TypeOK
  <2>6. holder # "scan"
    BY <2>1 DEF ChainInv
  <2>7. SampleInv'
    BY <1>1, <2>1, <2>6 DEF SampleInv, Read
  <2>8. DataInv' /\ TimeInv'
    BY <1>2, <2>1 DEF TypeOK
  <2> QED
    BY <2>3, <2>5, <2>7, <2>8 DEF OrderInv
<1>4. CASE ScanChannel
  <2>1. /\ UNCHANGED <<reader, data, ts, dwr, drd, pending, lost, scan, hand, done>>
        /\ scan # NoChannel /\ holder = "nobody" /\ holder' = "scan"
        /\ ReadRaw(scan)
    BY <1>4 DEF ScanChannel, StartChain, ReadRaw, ringVars, outputVars
  <2>2. NobodyByHand' /\ DoneInv' /\ ExactLag'
    BY <1>1, <2>1 DEF NobodyByHand, DoneInv, ExactLag, Ahead, Owed
  <2>3. DataInv' /\ TimeInv'
    BY <1>2, <2>1 DEF TypeOK
  <2>4. drd < dwr /\ (reader = "advanced" => drd < dwr - 1)
    <3>1. Owed = 1
      BY <1>1, <2>1 DEF DoneInv, Owed
    <3> QED
      BY <1>1, <1>6, <3>1 DEF ExactLag, Ahead
  <2>5. GetData = drd + 1 /\ ts[Slot(drd)] = drd + 1
    BY <1>1, <2>4 DEF GetData, DataInv, TimeInv, TypeOK
  <2>6. /\ raw' = [raw EXCEPT ![scan] = drd + 1]
        /\ rawTime' = [rawTime EXCEPT ![scan] = drd + 1]
        /\ ipmData' = IF scan = 0 THEN drd + 1 ELSE ipmData
    BY <2>1, <2>4, <2>5 DEF ReadRaw, TypeOK
  <2>7. Read = done /\ Read' = done \cup {scan} /\ Read' \subseteq Channels
    BY <2>1 DEF Read, TypeOK
  <2>8. SampleInv'
    BY <1>1, <2>1, <2>6, <2>7 DEF SampleInv, TypeOK
  <2> QED
    BY <2>2, <2>3, <2>8 DEF OrderInv
<1>5. CASE FinishChain
  <2>1. /\ UNCHANGED <<reader, data, ts, dwr, pending, lost, hand, raw, rawTime, ipmData>>
        /\ holder = "scan" /\ holder' = "nobody"
        /\ scan' = NextChannel(scan) /\ CountDone(scan)
        /\ scan \in Channels /\ scan # NoChannel
    BY <1>1, <1>5 DEF FinishChain, NobodyByHand, ChainInv, TypeOK, ringVars
  <2>2. done = 0 .. (scan - 1) /\ done \cup {scan} = 0 .. scan /\ Owed = 1
    <3>1. 0 .. (scan - 1) \cup {scan} = 0 .. scan
      BY <2>1 DEF Channels
    <3> QED
      BY <1>1, <2>1, <3>1 DEF DoneInv, Owed
  <2>3. Ahead' = Ahead
    BY <2>1 DEF Ahead
  <2>4. CASE scan + 1 \in Channels
    <3>1. done \cup {scan} # Channels
      BY <2>1, <2>2, <2>4 DEF Channels
    <3>2. done' = 0 .. scan /\ drd' = drd
      BY <2>1, <2>2, <3>1 DEF CountDone, outputVars
    <3>3. scan' = scan + 1 /\ scan' # NoChannel /\ scan' - 1 = scan
      BY <2>1, <2>4 DEF NextChannel, Channels, NoChannel
    <3>4. DoneInv' /\ Owed' = 1
      BY <3>2, <3>3 DEF DoneInv, Owed
    <3>5. ExactLag'
      <4>1. dwr' = dwr /\ pending' = pending /\ lost' = lost
        BY <2>1
      <4> QED
        BY <1>1, <2>2, <2>3, <3>2, <3>4, <4>1 DEF ExactLag
    <3>6. Read' = Read
      BY <2>1, <2>2, <3>2 DEF Read
    <3>7. SampleInv'
      BY <1>1, <2>1, <3>2, <3>6 DEF SampleInv
    <3>8. DataInv' /\ TimeInv'
      BY <1>2, <2>1, <3>2 DEF TypeOK
    <3> QED
      BY <1>1, <2>1, <3>4, <3>5, <3>7, <3>8 DEF OrderInv, NobodyByHand
  <2>5. CASE scan + 1 \notin Channels
    <3>1. done \cup {scan} = Channels
      BY <2>1, <2>2, <2>5, PipelineAssumption DEF Channels
    <3>2. drd < dwr
      BY <1>1, <1>6, <2>2 DEF ExactLag
    <3>3. done' = {} /\ drd' = drd + 1
      BY <2>1, <3>1, <3>2 DEF CountDone, ResetDone, NextData, TypeOK
    <3>4. scan' = NoChannel /\ DoneInv' /\ Owed' = 0
      BY <2>1, <2>5, <3>3 DEF NextChannel, DoneInv, Owed
    <3>5. ExactLag'
      <4>1. dwr' = dwr /\ pending' = pending /\ lost' = lost
        BY <2>1
      <4>2. drd <= dwr /\ dwr - drd = pending + lost + Ahead + 1
        BY <1>1, <2>2 DEF ExactLag
      <4>3. drd + 1 <= dwr /\ dwr - (drd + 1) = pending + lost + Ahead + 0
        BY <1>6, <3>2, <4>2
      <4> QED
        BY <2>3, <3>3, <3>4, <4>1, <4>3 DEF ExactLag
    <3>6. SampleInv'
      BY <2>1, <3>3 DEF SampleInv, Read
    <3>7. DataInv' /\ TimeInv'
      BY <1>2, <2>1, <3>3 DEF TypeOK
    <3> QED
      BY <1>1, <2>1, <3>4, <3>5, <3>6, <3>7 DEF OrderInv, NobodyByHand
  <2> QED
    BY <2>4, <2>5
<1> QED
  BY <1>3, <1>4, <1>5 DEF Scanning

\* What holds until somebody processes a record by hand.
Undisturbed == byHand = 0 => OrderInv

LEMMA OrderInvariant ==
    Spec => [](TypeOK /\ ChainInv /\ LagBounded /\ Undisturbed)
<1>1. Init => Undisturbed
  <2> SUFFICES ASSUME Init
               PROVE  OrderInv
    BY DEF Undisturbed
  <2> QED
    BY PipelineAssumption
       DEF Init, OrderInv, NobodyByHand, DoneInv, ExactLag, DataInv, TimeInv, SampleInv, Read,
           Ahead, Owed
<1>2. TypeOK /\ ChainInv /\ LagBounded /\ Undisturbed /\ [Next]_vars => Undisturbed'
  <2> SUFFICES ASSUME TypeOK, ChainInv, LagBounded, Undisturbed, [Next]_vars, byHand' = 0
               PROVE  OrderInv'
    BY DEF Undisturbed
  <2>1. ASSUME NEW c \in Channels
        PROVE  ~ ProcessByHand(c)
    BY DEF ProcessByHand, TypeOK
  <2>2. byHand = 0
    BY <2>1 DEF Next, StartFrame, RejectFrame, AcceptFrame, DropData, Sending, SendStampFirst,
                SendAdvance, SendRequest, Scanning, StartScan, ScanChannel, FinishChain, vars,
                scanVars
  <2>3. OrderInv
    BY <2>2 DEF Undisturbed
  <2>4. CASE UNCHANGED vars
    BY <2>3, <2>4 DEF OrderInv, NobodyByHand, DoneInv, ExactLag, DataInv, TimeInv, SampleInv,
                Read, Ahead, Owed, vars, ringVars, scanVars, recordVars, outputVars
  <2> QED
    BY <2>1, <2>3, <2>4, ReaderKeepsRecords, ReaderKeepsCount, ReaderKeepsData, ReaderKeepsTime,
       ScanKeepsOrder DEF Next, OrderInv
<1> QED
  BY <1>1, <1>2, LagInvariant, PTL DEF Spec

\* The ring holds one event per scan request that is queued or was dropped:
\* with nothing processed by hand, a dropped request is never made up for.
THEOREM BacklogAlwaysExact == Spec => []BacklogExact
<1>1. TypeOK /\ Undisturbed => BacklogExact
  BY DEF Undisturbed, OrderInv, ExactLag, Ahead, Owed, BacklogExact, TypeOK
<1> QED
  BY <1>1, OrderInvariant, PTL

-----------------------------------------------------------------------------
(* The records implement the event stream.                                 *)

\* dwr++ in sendData publishes an event.
LEMMA ReaderStreams ==
    ASSUME TypeOK, StartFrame \/ RejectFrame \/ AcceptFrame \/ DropData \/ Sending
    PROVE  Stream!Publish \/ UNCHANGED Stream!stream
<1>1. UNCHANGED <<drd, sample, stamp, message, byHand>>
  BY DEF StartFrame, RejectFrame, AcceptFrame, DropData, Sending, SendStampFirst, SendAdvance,
         SendRequest, scanVars, outputVars
<1>2. CASE SendAdvance
  BY <1>1, <1>2 DEF SendAdvance, Stream!Publish
<1>3. CASE ~SendAdvance
  <2>1. UNCHANGED dwr
    BY <1>3 DEF StartFrame, RejectFrame, AcceptFrame, DropData, Sending, SendStampFirst,
                SendRequest, ringVars
  <2> QED
    BY <1>1, <2>1 DEF Stream!stream
<1> QED
  BY <1>2, <1>3

\* The chain that completes DONE_CNT delivers the event of drd.
LEMMA ScanStreams ==
    ASSUME TypeOK, ChainInv, OrderInv, Scanning
    PROVE  Stream!Deliver \/ UNCHANGED Stream!stream
<1>1. CASE StartScan \/ ScanChannel
  BY <1>1 DEF StartScan, ScanChannel, StartChain, ringVars, scanVars, outputVars, Stream!stream
<1>2. CASE FinishChain
  <2>1. /\ UNCHANGED <<dwr, byHand>> /\ holder = "scan" /\ CountDone(scan) /\ scan # NoChannel
    BY <1>2 DEF FinishChain, OrderInv, NobodyByHand, ChainInv, TypeOK, ringVars
  <2>2. CASE done \cup {scan} # Channels
    BY <2>1, <2>2 DEF CountDone, outputVars, Stream!stream
  <2>3. CASE done \cup {scan} = Channels
    <3>1. drd < dwr
      BY <2>1, OwedType DEF OrderInv, ExactLag, DoneInv, Owed, Ahead, TypeOK
    <3>2. drd' = drd + 1
      BY <2>1, <2>3, <3>1 DEF CountDone, NextData, TypeOK
    <3>3. sample' = raw /\ stamp' = rawTime /\ message' = ipmData
      BY <2>1, <2>3 DEF CountDone
    <3>4. Read = Channels /\ 0 \in Channels
      BY <2>1, <2>3, PipelineAssumption DEF Read, Channels
    <3>5. /\ raw = [c \in Channels |-> drd + 1] /\ rawTime = [c \in Channels |-> drd + 1]
          /\ ipmData = drd + 1
      BY <3>4 DEF OrderInv, SampleInv, TypeOK
    <3> QED
      BY <2>1, <3>1, <3>2, <3>3, <3>5 DEF Stream!Deliver, Stream!AllFrom
  <2> QED
    BY <2>2, <2>3
<1> QED
  BY <1>1, <1>2 DEF Scanning

\* With records processed by hand, the counters still move one by one and
\* none is delivered that was not published.
LEMMA CountersStep ==
    ASSUME TypeOK, LagBounded, LagBounded', [Next]_vars
    PROVE  /\ dwr' \in {dwr, dwr + 1} /\ drd' \in {drd, drd + 1}
           /\ drd' <= dwr'
<1>1. drd' <= dwr'
  BY DEF LagBounded, LagInv
<1>2. \/ UNCHANGED <<dwr, drd>>
      \/ dwr' = dwr + 1 /\ drd' = drd
      \/ dwr' = dwr /\ NextData
  <2>1. CASE SendAdvance
    BY <2>1 DEF SendAdvance, outputVars
  <2>2. CASE FinishChain
    BY <2>2 DEF FinishChain, CountDone, outputVars, ringVars
  <2>3. CASE ~SendAdvance /\ ~FinishChain
    BY <2>3 DEF Next, StartFrame, RejectFrame, AcceptFrame, DropData, Sending, SendStampFirst,
                SendRequest, Scanning, StartScan, ScanChannel, StartChain, ProcessByHand, vars,
                ringVars, outputVars
  <2> QED
    BY <2>1, <2>2, <2>3
<1> QED
  BY <1>1, <1>2 DEF NextData

\* Every event the reader publishes is delivered once, in order and unmixed:
\* its channels, their times and the message come from the same event; until
\* a record is processed by hand, and then still none before its time.
THEOREM RefinesStream == Spec => ImplementsStream
<1>1. Init => Stream!StreamInit
  BY DEF Init, Stream!StreamInit, Stream!AllFrom, NoEvent
<1>2. TypeOK /\ ChainInv /\ LagBounded /\ Undisturbed /\ LagBounded' /\ TypeOK' /\ [Next]_vars
        => [Stream!Publish \/ Stream!Deliver \/ Stream!Disturbed]_(Stream!stream)
  <2> SUFFICES ASSUME TypeOK, ChainInv, LagBounded, Undisturbed, LagBounded', TypeOK', [Next]_vars
               PROVE  \/ Stream!Publish \/ Stream!Deliver \/ Stream!Disturbed
                      \/ UNCHANGED Stream!stream
    OBVIOUS
  <2>1. CASE UNCHANGED vars
    BY <2>1 DEF vars, ringVars, scanVars, outputVars, Stream!stream
  <2>2. CASE byHand' > 0
    BY <2>2, CountersStep DEF Stream!Disturbed
  <2>3. CASE byHand' = 0 /\ ~ UNCHANGED vars
    <3>1. ASSUME NEW c \in Channels
          PROVE  ~ ProcessByHand(c)
      BY <2>3 DEF ProcessByHand, TypeOK
    <3>2. byHand = 0
      BY <2>3, <3>1 DEF Next, StartFrame, RejectFrame, AcceptFrame, DropData, Sending,
                SendStampFirst, SendAdvance, SendRequest, Scanning, StartScan, ScanChannel,
                FinishChain, scanVars
    <3>3. OrderInv
      BY <3>2 DEF Undisturbed
    <3> QED
      BY <2>3, <3>1, <3>2, <3>3, ReaderStreams, ScanStreams DEF Next
  <2> QED
    BY <2>1, <2>2, <2>3 DEF TypeOK
<1> QED
  BY <1>1, <1>2, OrderInvariant, PTL DEF Spec, ImplementsStream, Stream!StreamSpec

=============================================================================
