-------------------------- MODULE RegisterIOProofs --------------------------
(***************************************************************************)
(* Theorems of RegisterIO for any registers, values, number of tries and   *)
(* number of calls: every variable keeps its type; the ring holds no more  *)
(* unread answers than timeouts that came early and spurious wakeups have  *)
(* asked for; and, as long as these are fewer than its slots, a read gives *)
(* up for cause only and the protocol implements the register port.        *)
(*                                                                         *)
(* The argument counts answers.  Each read request the board has yet to    *)
(* serve, each answer on the line and each answer in the ring is one the   *)
(* configurer is owed.  Owed counts them all, and Held(s) those that are   *)
(* for register s.  A read that begins with nothing on its way is owed     *)
(* nothing, whatever went before: there everything starts afresh.          *)
(***************************************************************************)
EXTENDS RegisterIO, FiniteSets, FiniteSetTheorems, SequenceTheorems, TLAPS

-----------------------------------------------------------------------------
(* What the configurer is owed.                                            *)

ReadRequests == [write : {FALSE}, addr : Registers, data : Values]
ReadsOf(s) == [write : {FALSE}, addr : {s}, data : Values]
AnswersOf(s) == [addr : {s}, data : Values]

\* The positions of q that hold an element of S, and how many there are.
Places(q, S) == {k \in 1 .. Len(q) : q[k] \in S}
HowMany(q, S) == Cardinality(Places(q, S))

\* The answers decoded and not yet read are those in the slots of
\* crd .. top - 1.
top == IF reader THEN cwr + 1 ELSE cwr

Unread(S) == {n \in crd .. (top - 1) : ring[Slot(n)] \in S}
InRing(S) == Cardinality(Unread(S))

Owed == (top - crd) + Len(answers) + HowMany(requests, ReadRequests)

Held(s) ==
    InRing(AnswersOf(s)) + HowMany(answers, AnswersOf(s)) + HowMany(requests, ReadsOf(s))

\* A read begins with nothing on its way.
Fresh == Quiet /\ \E r \in Registers : Call(r)

-----------------------------------------------------------------------------
(* The invariants.                                                         *)

\* A try that is not over is one of the Tries.
TryInv == caller \in {"wait", "woken", "expired"} => i < Tries

\* Whatever is owed beyond the one answer of this try came late, or was asked
\* for again by a spurious wakeup.
OwedInv ==
    /\ Owed <= trouble + 1
    /\ caller \in {"idle", "try", "expired"} => Owed <= trouble
    /\ caller = "wait" => cwr - crd <= trouble
    /\ caller = "woken" /\ cwr = crd => Owed <= trouble

\* How many requests this read should have sent.
Due == IF caller = "try" /\ do_write THEN i ELSE i + 1

\* What is owed for other registers than s: to earlier reads, if s is read.
Stale(s) == Owed - Held(s)

Blame == lost + trouble

\* Every try of this read so far, and every answer that is owed to an earlier
\* read, has a lost frame, a late answer or a spurious wakeup to blame.
CauseInv ==
    RingFits /\ lost < MaxLost => \A s \in Registers : s = regAddr =>
        /\ Due + Stale(s) <= Blame + 1
        /\ caller \in {"try", "expired"} \/ ~do_write => Due + Stale(s) <= Blame
        /\ caller = "wait" => (cwr - crd) + Due <= Blame + Held(s)
        /\ caller = "woken" /\ cwr = crd =>
             Due + Stale(s) + (IF do_write THEN 0 ELSE 1) <= Blame

\* The values an answer for register s may carry.
Known(s) == IF s = regAddr THEN may ELSE doubtful[s]

KnownAnswers == {e \in Answers : e.data \in Known(e.addr)}

\* No slot that is still to be read holds garbage, and what is in the ring or
\* on the line carries a value the port may return.
ValueInv ==
    /\ \A n \in crd .. (top - 1) : ring[Slot(n)] \in KnownAnswers
    /\ \A k \in 1 .. Len(answers) : answers[k] \in KnownAnswers

\* A register answers are in doubt for counts its own value among them.  One
\* that has none in doubt is owed no answer, or just the one of this read.
DoubtInv ==
    \A s \in Registers :
        /\ doubtful[s] # {} => regs[s] \in doubtful[s]
        /\ s = regAddr => regs[s] \in may /\ doubtful[s] \in {{}, may}
        /\ doubtful[s] = {} =>
             /\ Held(s) <= 1
             /\ s # regAddr => Held(s) = 0
             /\ (caller = "try" /\ i = 0 /\ do_write) => Held(s) = 0

PortInv == ValueInv /\ DoubtInv

\* All of that while the ring cannot be overrun.
PortFits == RingFits => PortInv

-----------------------------------------------------------------------------
(* Counting.                                                               *)

\* An initial segment of the naturals has its last element as its size.
LEMMA SegmentSize ==
    ASSUME NEW n \in Nat
    PROVE  IsFiniteSet(1 .. n) /\ Cardinality(1 .. n) = n
BY FS_Interval

LEMMA HowManyType ==
    ASSUME NEW q, Len(q) \in Nat, NEW S
    PROVE  /\ IsFiniteSet(Places(q, S))
           /\ HowMany(q, S) \in Nat
           /\ HowMany(q, S) <= Len(q)
<1>1. IsFiniteSet(1 .. Len(q)) /\ Cardinality(1 .. Len(q)) = Len(q)
  BY SegmentSize
<1>2. Places(q, S) \in SUBSET (1 .. Len(q))
  BY DEF Places
<1>3. IsFiniteSet(Places(q, S)) /\ Cardinality(Places(q, S)) <= Len(q)
  BY <1>1, <1>2, FS_Subset
<1> QED
  BY <1>3, FS_CardinalityType DEF HowMany

\* A larger set has at least as many places.
LEMMA HowManyMonotonic ==
    ASSUME NEW q, Len(q) \in Nat, NEW S, NEW T, S \subseteq T
    PROVE  HowMany(q, S) <= HowMany(q, T)
<1>1. Places(q, S) \in SUBSET Places(q, T)
  BY DEF Places
<1> QED
  BY <1>1, HowManyType, FS_Subset DEF HowMany

\* An element of S has a place.
LEMMA HowManyPositive ==
    ASSUME NEW q, Len(q) \in Nat, NEW S, NEW k \in 1 .. Len(q), q[k] \in S
    PROVE  HowMany(q, S) >= 1
<1>1. k \in Places(q, S)
  BY DEF Places
<1>2. HowMany(q, S) # 0
  BY <1>1, HowManyType, FS_EmptySet DEF HowMany
<1> QED
  BY <1>2, HowManyType

LEMMA HowManyEmpty == \A S : HowMany(<< >>, S) = 0
<1>1. \A S : Places(<< >>, S) = {}
  BY DEF Places
<1> QED
  BY <1>1, FS_EmptySet DEF HowMany

\* Append adds the place of the new element.
LEMMA HowManyAppend ==
    ASSUME NEW T, NEW q \in Seq(T), NEW e \in T, NEW S
    PROVE  HowMany(Append(q, e), S) = HowMany(q, S) + (IF e \in S THEN 1 ELSE 0)
<1> DEFINE n == Len(q) + 1
<1>1. Len(q) \in Nat /\ Len(Append(q, e)) = n /\ Append(q, e)[n] = e
  BY AppendProperties
<1>2. \A k \in 1 .. Len(q) : Append(q, e)[k] = q[k]
  BY AppendProperties
<1>3. n \notin Places(q, S)
  BY <1>1 DEF Places
<1>4. Places(Append(q, e), S) = IF e \in S THEN Places(q, S) \cup {n} ELSE Places(q, S)
  BY <1>1, <1>2 DEF Places
<1>5. IsFiniteSet(Places(q, S))
  BY <1>1, HowManyType
<1>6. Cardinality(Places(q, S) \cup {n}) = Cardinality(Places(q, S)) + 1
  BY <1>3, <1>5, FS_AddElement
<1>7. CASE e \in S
  BY <1>4, <1>6, <1>7 DEF HowMany
<1>8. CASE e \notin S
  BY <1>1, <1>4, <1>8, HowManyType DEF HowMany
<1> QED
  BY <1>7, <1>8

\* Tail takes the place of the first element.
LEMMA HowManyTail ==
    ASSUME NEW T, NEW q \in Seq(T), q # << >>, NEW S
    PROVE  HowMany(q, S) = HowMany(Tail(q), S) + (IF Head(q) \in S THEN 1 ELSE 0)
<1>1. /\ Len(q) \in Nat /\ Len(q) >= 1 /\ Len(Tail(q)) = Len(q) - 1
      /\ Len(Tail(q)) \in Nat /\ Tail(q) \in Seq(T) /\ Head(q) = q[1]
  BY HeadTailProperties, EmptySeq
<1>2. \A k \in 1 .. Len(q) - 1 : Tail(q)[k] = q[k + 1]
  BY <1>1, HeadTailProperties
<1> DEFINE A == Places(Tail(q), S)
           B == Places(q, S) \ {1}
           f == [k \in A |-> k + 1]
<1>3. IsFiniteSet(A) /\ IsFiniteSet(Places(q, S))
  BY <1>1, HowManyType
<1>4. Cardinality(B) = Cardinality(A)
  <2>1. A = {k \in 1 .. Len(q) - 1 : q[k + 1] \in S}
    BY <1>1, <1>2 DEF Places
  <2>2. \A k \in A : k + 1 \in B
    BY <1>1, <2>1 DEF Places
  <2>3. f \in [A -> B]
    BY <2>2
  <2>4. \A j, k \in A : f[j] = f[k] => j = k
    BY DEF Places
  <2>5. \A m \in B : \E k \in A : f[k] = m
    <3> TAKE m \in B
    <3>1. m - 1 \in A /\ (m - 1) + 1 = m
      BY <1>1, <2>1 DEF Places
    <3>2. f[m - 1] = m
      BY <3>1
    <3> QED
      BY <3>1, <3>2
  <2>6. f \in Bijection(A, B)
    <3> HIDE DEF A, B, f
    <3> QED
      BY <2>3, <2>4, <2>5 DEF Bijection, Injection, Surjection, IsInjective
  <2> QED
    BY <1>3, <2>6, FS_Bijection DEF ExistsBijection
<1>5. 1 \in Places(q, S) <=> Head(q) \in S
  BY <1>1 DEF Places
<1>6. Cardinality(B) = HowMany(q, S) - (IF Head(q) \in S THEN 1 ELSE 0)
  <2>1. Cardinality(B) = IF 1 \in Places(q, S) THEN Cardinality(Places(q, S)) - 1
                         ELSE Cardinality(Places(q, S))
    BY <1>3, FS_RemoveElement
  <2>2. HowMany(q, S) \in Nat
    BY <1>1, HowManyType
  <2> QED
    BY <1>5, <2>1, <2>2 DEF HowMany
<1> QED
  BY <1>1, <1>4, <1>6, HowManyType DEF HowMany

-----------------------------------------------------------------------------
(* The ring.                                                               *)

LEMMA SlotType == \A n \in Nat : Slot(n) \in Slots
BY RegisterAssumption DEF Slot, Slots, RegisterAssumption

\* Positions less than the size of the ring apart have slots of their own.
LEMMA SlotsApart ==
    ASSUME NEW m \in Nat, NEW n \in Nat, m < n, n - m < QSize
    PROVE  Slot(m) # Slot(n)
<1>1. QSize \in Nat /\ QSize > 0
  BY RegisterAssumption DEF RegisterAssumption
<1>2. SUFFICES ASSUME m % QSize = n % QSize PROVE FALSE
  BY DEF Slot
<1> DEFINE a == m \div QSize
           b == n \div QSize
<1>3. a \in Int /\ m = QSize * a + (m % QSize)
  BY <1>1
<1>4. b \in Int /\ n = QSize * b + (n % QSize)
  BY <1>1
<1> HIDE DEF a, b
<1>5. n - m = QSize * (b - a)
  <2>1. m % QSize \in Nat
    BY <1>1
  <2>2. n - m = QSize * b - QSize * a
    BY <1>1, <1>2, <1>3, <1>4, <2>1
  <2> QED
    BY <1>1, <1>3, <1>4, <2>2
<1>6. \A d \in Int : d >= 1 => QSize * d >= QSize
  BY <1>1
<1>7. \A d \in Int : d <= 0 => QSize * d <= 0
  BY <1>1
<1>8. b - a \in Int /\ (b - a >= 1 \/ b - a <= 0)
  BY <1>3, <1>4
<1> QED
  BY <1>1, <1>5, <1>6, <1>7, <1>8

LEMMA WindowSize ==
    ASSUME NEW m \in Nat, NEW n \in Nat, m <= n
    PROVE  IsFiniteSet(m .. (n - 1)) /\ Cardinality(m .. (n - 1)) = n - m
<1>1. m \in Int /\ n - 1 \in Int
  OBVIOUS
<1>2. /\ IsFiniteSet(m .. (n - 1))
      /\ Cardinality(m .. (n - 1)) = IF m > n - 1 THEN 0 ELSE (n - 1) - m + 1
  BY <1>1, FS_Interval
<1> QED
  BY <1>2

LEMMA UnreadType ==
    ASSUME TypeOK, NEW S
    PROVE  IsFiniteSet(Unread(S)) /\ InRing(S) \in Nat /\ InRing(S) <= top - crd
<1>1. top \in Nat /\ crd \in Nat /\ crd <= top
  BY DEF TypeOK, top
<1>2. /\ IsFiniteSet(crd .. (top - 1))
      /\ Cardinality(crd .. (top - 1)) = top - crd
  BY <1>1, WindowSize
<1>3. Unread(S) \in SUBSET (crd .. (top - 1))
  BY DEF Unread
<1>4. IsFiniteSet(Unread(S)) /\ Cardinality(Unread(S)) <= top - crd
  BY <1>2, <1>3, FS_Subset
<1> QED
  BY <1>4, FS_CardinalityType DEF InRing

\* A write into the slot of cwr leaves what is published and unread alone.
LEMMA UnreadSlotKept ==
    ASSUME TypeOK, cwr - crd < QSize, NEW e, NEW n \in crd .. (cwr - 1)
    PROVE  [ring EXCEPT ![Slot(cwr)] = e][Slot(n)] = ring[Slot(n)]
<1>1. n \in Nat /\ cwr \in Nat /\ n < cwr /\ cwr - n < QSize
  BY RegisterAssumption DEF TypeOK, RegisterAssumption
<1>2. Slot(n) # Slot(cwr)
  BY <1>1, SlotsApart
<1>3. Slot(n) \in Slots /\ ring \in [Slots -> Answers \cup {Garbage}]
  BY <1>1, SlotType DEF TypeOK
<1> QED
  BY <1>2, <1>3

\* Decoding an answer adds it to the unread ones.
LEMMA InRingDecode ==
    ASSUME TypeOK, ~reader, reader' = TRUE, cwr - crd < QSize, NEW e, NEW S,
           cwr' = cwr, crd' = crd, ring' = [ring EXCEPT ![Slot(cwr)] = e]
    PROVE  InRing(S)' = InRing(S) + (IF e \in S THEN 1 ELSE 0)
<1>1. cwr \in Nat /\ crd \in Nat /\ crd <= cwr
  BY DEF TypeOK
<1>2. top = cwr /\ top' = cwr + 1
  BY DEF top
<1>3. ring'[Slot(cwr)] = e
  BY <1>1, SlotType DEF TypeOK
<1>4. \A n \in crd .. (cwr - 1) : ring'[Slot(n)] = ring[Slot(n)]
  BY UnreadSlotKept
<1>5. Slot(cwr)' = Slot(cwr) /\ \A n : Slot(n)' = Slot(n)
  BY DEF Slot
<1>6. Unread(S)' = {n \in crd .. cwr : ring'[Slot(n)] \in S}
  BY <1>1, <1>2 DEF Unread, Slot
<1>7. Unread(S)' = IF e \in S THEN Unread(S) \cup {cwr} ELSE Unread(S)
  BY <1>1, <1>2, <1>3, <1>4, <1>6 DEF Unread
<1>8. cwr \notin Unread(S)
  BY <1>1, <1>2 DEF Unread
<1>9. IsFiniteSet(Unread(S)) /\ InRing(S) \in Nat
  BY UnreadType
<1>10. Cardinality(Unread(S) \cup {cwr}) = Cardinality(Unread(S)) + 1
  BY <1>8, <1>9, FS_AddElement
<1> QED
  BY <1>7, <1>9, <1>10 DEF InRing

\* Whatever is left in the slot of cwr by a frame that is lost is not unread.
LEMMA InRingDamage ==
    ASSUME TypeOK, ~reader, ~reader', cwr - crd < QSize, NEW S,
           cwr' = cwr, crd' = crd,
           ring' = ring \/ \E e : ring' = [ring EXCEPT ![Slot(cwr)] = e]
    PROVE  InRing(S)' = InRing(S)
<1>1. \A n \in crd .. (cwr - 1) : ring'[Slot(n)] = ring[Slot(n)]
  BY UnreadSlotKept
<1>2. Unread(S)' = Unread(S)
  BY <1>1 DEF Unread, top, Slot
<1> QED
  BY <1>2 DEF InRing

\* Reading an answer takes it from the unread ones.
LEMMA InRingRead ==
    ASSUME TypeOK, HasAnswer, NEW S,
           crd' = crd + 1, UNCHANGED <<cwr, ring, reader>>
    PROVE  /\ InRing(S)' \in Nat
           /\ InRing(S) = InRing(S)' + (IF ring[Slot(crd)] \in S THEN 1 ELSE 0)
<1>1. cwr \in Nat /\ crd \in Nat /\ crd < cwr
  BY DEF TypeOK, HasAnswer
<1>2. top' = top /\ top \in Nat /\ crd < top
  BY <1>1 DEF top
<1>3. Unread(S)' = {n \in (crd + 1) .. (top - 1) : ring[Slot(n)] \in S}
  BY <1>2 DEF Unread, Slot
<1>4. Unread(S)' = Unread(S) \ {crd}
  BY <1>1, <1>2, <1>3 DEF Unread
<1>5. crd \in Unread(S) <=> ring[Slot(crd)] \in S
  BY <1>1, <1>2 DEF Unread
<1>6. IsFiniteSet(Unread(S)) /\ InRing(S) \in Nat
  BY UnreadType
<1>7. Cardinality(Unread(S) \ {crd}) = IF crd \in Unread(S) THEN Cardinality(Unread(S)) - 1
                                      ELSE Cardinality(Unread(S))
  BY <1>6, FS_RemoveElement
<1>8. Cardinality(Unread(S) \ {crd}) \in Nat
  BY <1>6, FS_RemoveElement, FS_CardinalityType
<1> QED
  BY <1>4, <1>5, <1>6, <1>7, <1>8 DEF InRing

\* Dropping what is published leaves no more than was there.
LEMMA InRingDrop ==
    ASSUME TypeOK, NEW S, crd' = cwr, UNCHANGED <<cwr, ring, reader>>
    PROVE  InRing(S)' \in Nat /\ InRing(S)' <= InRing(S)
<1>1. cwr \in Nat /\ crd \in Nat /\ crd <= cwr /\ top' = top /\ top \in Nat
  BY DEF TypeOK, top
<1>2. Unread(S)' = {n \in cwr .. (top - 1) : ring[Slot(n)] \in S}
  BY <1>1 DEF Unread, Slot
<1>3. Unread(S)' \in SUBSET Unread(S)
  BY <1>1, <1>2 DEF Unread
<1>4. IsFiniteSet(Unread(S))
  BY UnreadType
<1>5. IsFiniteSet(Unread(S)') /\ Cardinality(Unread(S)') <= Cardinality(Unread(S))
  BY <1>3, <1>4, FS_Subset
<1>6. Cardinality(Unread(S)') \in Nat
  BY <1>5, FS_CardinalityType
<1> QED
  BY <1>5, <1>6 DEF InRing

-----------------------------------------------------------------------------
(* What each step does to what is owed.                                    *)

LEMMA OwedType ==
    ASSUME TypeOK
    PROVE  /\ Owed \in Nat /\ top \in Nat /\ crd <= top
           /\ HowMany(requests, ReadRequests) \in Nat /\ Len(answers) \in Nat
           /\ \A s \in Registers : Held(s) \in Nat /\ Held(s) <= Owed
<1>1. Len(requests) \in Nat /\ Len(answers) \in Nat
  BY LenProperties DEF TypeOK
<1>2. top \in Nat /\ crd \in Nat /\ crd <= top
  BY DEF TypeOK, top
<1>3. HowMany(requests, ReadRequests) \in Nat
  BY <1>1, HowManyType
<1>4. ASSUME NEW s \in Registers
      PROVE  Held(s) \in Nat /\ Held(s) <= Owed
  <2>1. InRing(AnswersOf(s)) \in Nat /\ InRing(AnswersOf(s)) <= top - crd
    BY UnreadType
  <2>2. HowMany(answers, AnswersOf(s)) \in Nat /\ HowMany(answers, AnswersOf(s)) <= Len(answers)
    BY <1>1, HowManyType
  <2>3. ReadsOf(s) \subseteq ReadRequests
    BY DEF ReadsOf, ReadRequests
  <2>4. /\ HowMany(requests, ReadsOf(s)) \in Nat
        /\ HowMany(requests, ReadsOf(s)) <= HowMany(requests, ReadRequests)
    BY <1>1, <2>3, HowManyType, HowManyMonotonic
  <2> QED
    BY <1>1, <1>2, <1>3, <2>1, <2>2, <2>4 DEF Held, Owed
<1> QED
  BY <1>1, <1>2, <1>3, <1>4 DEF Owed

\* The parts of Held(s).
LEMMA HeldType ==
    ASSUME TypeOK, NEW s
    PROVE  /\ InRing(AnswersOf(s)) \in Nat
           /\ HowMany(answers, AnswersOf(s)) \in Nat
           /\ HowMany(requests, ReadsOf(s)) \in Nat
<1>1. Len(requests) \in Nat /\ Len(answers) \in Nat
  BY LenProperties DEF TypeOK
<1> QED
  BY <1>1, UnreadType, HowManyType

\* A request or an answer is one of register s if its address is s.
LEMMA OfRegister ==
    /\ \A e \in Requests : \A s \in Registers :
         /\ e \in ReadsOf(s) <=> ~e.write /\ e.addr = s
         /\ e \in ReadRequests <=> ~e.write
    /\ \A e \in Answers : \A s \in Registers : e \in AnswersOf(s) <=> e.addr = s
BY DEF Requests, Answers, ReadsOf, ReadRequests, AnswersOf

\* What neither the ring nor the line sees, the publishing of an answer too.
LEMMA KeepsOwed ==
    ASSUME top' = top, crd' = crd, ring' = ring, requests' = requests, answers' = answers
    PROVE  Owed' = Owed /\ \A s : Held(s)' = Held(s)
<1>1. \A S : Unread(S)' = Unread(S)
  BY DEF Unread, Slot
<1> QED
  BY <1>1 DEF Owed, Held, InRing, HowMany, Places

\* Only the requests change.
LEMMA RequestsOnly ==
    ASSUME UNCHANGED <<cwr, crd, ring, reader, answers>>
    PROVE  /\ top' = top
           /\ \A S : InRing(S)' = InRing(S)
           /\ \A S : HowMany(answers, S)' = HowMany(answers, S)
<1>1. \A S : Unread(S)' = Unread(S)
  BY DEF Unread, Slot, top
<1> QED
  BY <1>1 DEF top, InRing, HowMany, Places

\* Counting in the next state is counting in the primed sequence.
LEMMA HowManyNext ==
    ASSUME NEW S
    PROVE  /\ HowMany(requests, S)' = HowMany(requests', S)
           /\ HowMany(answers, S)' = HowMany(answers', S)
BY DEF HowMany, Places

LEMMA HeldNext ==
    ASSUME NEW s
    PROVE  Held(s)' = InRing(AnswersOf(s))' + HowMany(answers', AnswersOf(s))
                        + HowMany(requests', ReadsOf(s))
BY HowManyNext DEF Held

LEMMA OwedNext == Owed' = (top' - crd') + Len(answers') + HowMany(requests', ReadRequests)
BY HowManyNext DEF Owed

\* A read request is owed an answer.
LEMMA TryOwes ==
    ASSUME TypeOK, Try, do_write
    PROVE  /\ Owed' = Owed + 1
           /\ \A s \in Registers : Held(s)' = Held(s) + (IF s = regAddr THEN 1 ELSE 0)
<1> DEFINE e == [write |-> FALSE, addr |-> regAddr, data |-> regs[regAddr]]
<1>1. e \in Requests /\ requests \in Seq(Requests) /\ requests' = Append(requests, e)
  BY DEF TypeOK, Try, Requests
<1>2. UNCHANGED <<cwr, crd, ring, reader, answers>>
  BY DEF Try, ringVars
<1>3. ~e.write /\ e.addr = regAddr
  OBVIOUS
<1> HIDE DEF e
<1>4. \A S : HowMany(requests', S) = HowMany(requests, S) + (IF e \in S THEN 1 ELSE 0)
  BY <1>1, HowManyAppend
<1>5. e \in ReadRequests /\ \A s \in Registers : e \in ReadsOf(s) <=> regAddr = s
  <2>1. Registers # {}
    BY DEF TypeOK, Try
  <2> QED
    BY <1>1, <1>3, <2>1, OfRegister
<1>6. Owed' = Owed + 1
  BY <1>2, <1>4, <1>5, RequestsOnly, OwedNext, OwedType DEF Owed, TypeOK
<1>7. ASSUME NEW s \in Registers
      PROVE  Held(s)' = Held(s) + (IF s = regAddr THEN 1 ELSE 0)
  BY <1>2, <1>4, <1>5, RequestsOnly, HeldNext, HeldType DEF Held
<1> QED
  BY <1>6, <1>7

\* A write request is owed none.
LEMMA WriteOwes ==
    ASSUME TypeOK, NEW r \in Registers, NEW v \in Values, WriteRegister(r, v)
    PROVE  Owed' = Owed /\ \A s \in Registers : Held(s)' = Held(s)
<1> DEFINE e == [write |-> TRUE, addr |-> r, data |-> v]
<1>1. e \in Requests /\ requests \in Seq(Requests) /\ requests' = Append(requests, e)
  BY DEF TypeOK, WriteRegister, Requests
<1>2. UNCHANGED <<cwr, crd, ring, reader, answers>>
  BY DEF WriteRegister, ringVars
<1>3. e.write
  OBVIOUS
<1> HIDE DEF e
<1>4. \A S : HowMany(requests', S) = HowMany(requests, S) + (IF e \in S THEN 1 ELSE 0)
  BY <1>1, HowManyAppend
<1>5. e \notin ReadRequests /\ \A s \in Registers : e \notin ReadsOf(s)
  BY <1>1, <1>3, OfRegister
<1>6. Owed' = Owed
  BY <1>2, <1>4, <1>5, RequestsOnly, OwedNext, OwedType DEF Owed, TypeOK
<1>7. ASSUME NEW s \in Registers
      PROVE  Held(s)' = Held(s)
  BY <1>2, <1>4, <1>5, RequestsOnly, HeldNext, HeldType DEF Held
<1> QED
  BY <1>6, <1>7

\* The first request leaves the line: a read for its answer, a write for good.
LEMMA ServeOwes ==
    ASSUME TypeOK, Board
    PROVE  Owed' = Owed /\ \A s \in Registers : Held(s)' = Held(s)
<1> DEFINE e == Head(requests)
<1>1. /\ requests \in Seq(Requests) /\ requests # << >> /\ requests' = Tail(requests)
      /\ e \in Requests
  BY HeadTailProperties DEF TypeOK, Board, ServeRead, ServeWrite
<1>2. UNCHANGED <<cwr, crd, ring, reader>>
  BY DEF Board, ServeRead, ServeWrite, ringVars
<1>3. \A S : HowMany(requests, S) = HowMany(requests', S) + (IF e \in S THEN 1 ELSE 0)
  BY <1>1, HowManyTail
<1>4. \A S : InRing(S)' = InRing(S)
  <2>1. \A S : Unread(S)' = Unread(S)
    BY <1>2 DEF Unread, Slot, top
  <2> QED
    BY <2>1 DEF InRing
<1>5. top' = top
  BY <1>2 DEF top
<1>6. Len(requests') \in Nat
  BY <1>1, HeadTailProperties, LenProperties
<1>7. \A S : HowMany(requests', S) \in Nat
  BY <1>6, HowManyType
<1>8. CASE e.write
  <2>1. answers' = answers
    BY <1>8 DEF Board, ServeRead, ServeWrite
  <2>2. e \notin ReadRequests /\ \A s \in Registers : e \notin ReadsOf(s)
    BY <1>1, <1>8, OfRegister DEF Requests
  <2>3. Owed' = Owed
    <3>1. HowMany(requests, ReadRequests) = HowMany(requests', ReadRequests) + 0
      BY <1>3, <2>2
    <3>2. HowMany(requests, ReadRequests) = HowMany(requests', ReadRequests)
      BY <1>7, <3>1
    <3> QED
      BY <1>2, <1>5, <2>1, <3>2, OwedNext DEF Owed
  <2>4. ASSUME NEW s \in Registers
        PROVE  Held(s)' = Held(s)
    BY <1>3, <1>4, <1>7, <2>1, <2>2, HeldNext, HeldType DEF Held
  <2> QED
    BY <2>3, <2>4
<1>9. CASE ~e.write
  <2> DEFINE a == [addr |-> e.addr, data |-> regs[e.addr]]
  <2>1. answers' = Append(answers, a) /\ answers \in Seq(Answers) /\ a \in Answers
    BY <1>1, <1>9 DEF Board, ServeRead, ServeWrite, TypeOK, Answers, Requests
  <2>2. a.addr = e.addr
    OBVIOUS
  <2> HIDE DEF a
  <2>3. \A S : HowMany(answers', S) = HowMany(answers, S) + (IF a \in S THEN 1 ELSE 0)
    BY <2>1, HowManyAppend
  <2>4. e.addr \in Registers
    BY <1>1 DEF Requests
  <2>5. e \in ReadRequests /\ \A s \in Registers : e \in ReadsOf(s) <=> e.addr = s
    BY <1>1, <1>9, <2>4, OfRegister
  <2>6. \A s \in Registers : a \in AnswersOf(s) <=> e.addr = s
    BY <2>1, <2>2, OfRegister
  <2>7. Len(answers') = Len(answers) + 1
    BY <2>1, AppendProperties
  <2>8. Owed' = Owed
    <3>1. HowMany(requests, ReadRequests) = HowMany(requests', ReadRequests) + 1
      BY <1>3, <2>5
    <3>2. Owed' = (top - crd) + (Len(answers) + 1) + HowMany(requests', ReadRequests)
      BY <1>2, <1>5, <2>7, OwedNext
    <3>3. top \in Nat /\ crd \in Nat /\ Len(answers) \in Nat
      BY OwedType DEF TypeOK
    <3> QED
      BY <1>7, <3>1, <3>2, <3>3 DEF Owed
  <2>9. ASSUME NEW s \in Registers
        PROVE  Held(s)' = Held(s)
    BY <1>3, <1>4, <1>7, <2>3, <2>5, <2>6, HeldNext, HeldType DEF Held
  <2> QED
    BY <2>8, <2>9
<1> QED
  BY <1>8, <1>9

\* A read request that is lost takes what it was owed with it.
LEMMA LoseRequestOwes ==
    ASSUME TypeOK, LoseRequest
    PROVE  /\ Owed' \in {Owed, Owed - 1}
           /\ \A s \in Registers : Held(s)' \in Nat /\ Held(s)' \in {Held(s), Held(s) - 1}
           /\ \A s \in Registers : Owed' - Held(s)' <= Owed - Held(s)
<1> DEFINE e == Head(requests)
<1>1. /\ requests \in Seq(Requests) /\ requests # << >> /\ requests' = Tail(requests)
      /\ e \in Requests
  BY HeadTailProperties DEF TypeOK, LoseRequest
<1>2. UNCHANGED <<cwr, crd, ring, reader, answers>>
  BY DEF LoseRequest, ringVars
<1>3. \A S : HowMany(requests, S) = HowMany(requests', S) + (IF e \in S THEN 1 ELSE 0)
  BY <1>1, HowManyTail
<1>4. Len(requests') \in Nat
  BY <1>1, HeadTailProperties, LenProperties
<1>5. \A S : HowMany(requests', S) \in Nat
  BY <1>4, HowManyType
<1>6. Owed = Owed' + (IF e \in ReadRequests THEN 1 ELSE 0)
  BY <1>2, <1>3, <1>5, RequestsOnly, OwedNext, OwedType DEF Owed, TypeOK
<1>7. ASSUME NEW s \in Registers
      PROVE  Held(s) = Held(s)' + (IF e \in ReadsOf(s) THEN 1 ELSE 0)
  BY <1>2, <1>3, <1>5, RequestsOnly, HeldNext, HeldType DEF Held
<1>8. Owed' \in Int /\ \A s \in Registers : Held(s)' \in Nat
  <2>1. Owed' \in Int
    BY <1>2, <1>5, OwedType, OwedNext, RequestsOnly DEF TypeOK
  <2>2. ASSUME NEW s \in Registers PROVE Held(s)' \in Nat
    BY <1>2, <1>5, HeldType, HeldNext, RequestsOnly
  <2> QED
    BY <2>1, <2>2
<1>9. \A s \in Registers : e \in ReadsOf(s) => e \in ReadRequests
  BY <1>1, OfRegister
<1>10. Owed' \in {Owed, Owed - 1}
  <2> HIDE DEF e
  <2>1. Owed = Owed' + 1 \/ Owed = Owed' + 0
    BY <1>6
  <2> QED
    BY <1>8, <2>1
<1>11. ASSUME NEW s \in Registers
       PROVE  /\ Held(s)' \in Nat /\ Held(s)' \in {Held(s), Held(s) - 1}
              /\ Owed' - Held(s)' <= Owed - Held(s)
  BY <1>6, <1>7, <1>8, <1>9
<1> QED
  BY <1>10, <1>11

\* An answer that is decoded stays owed and one that is lost does not, also
\* when the slot held an answer that nobody has read.
LEMMA AnswerOwed ==
    ASSUME TypeOK, DecodeAnswer \/ LoseAnswer
    PROVE  Owed' = IF DecodeAnswer THEN Owed ELSE Owed - 1
<1>1. /\ answers \in Seq(Answers) /\ answers # << >> /\ answers' = Tail(answers)
      /\ Len(answers') = Len(answers) - 1 /\ Len(answers) \in Nat
  BY HeadTailProperties, LenProperties DEF TypeOK, DecodeAnswer, LoseAnswer
<1>2. /\ ~reader /\ cwr' = cwr /\ crd' = crd /\ requests' = requests
      /\ cwr \in Nat /\ crd \in Nat
  BY DEF DecodeAnswer, LoseAnswer, TypeOK
<1>3. CASE DecodeAnswer
  <2>1. top' = top + 1 /\ top \in Nat
    BY <1>2, <1>3 DEF top, DecodeAnswer
  <2> QED
    BY <1>1, <1>2, <1>3, <2>1, OwedNext, OwedType DEF Owed
<1>4. CASE ~DecodeAnswer
  <2>1. top' = top /\ top \in Nat
    BY <1>2, <1>4 DEF top, LoseAnswer
  <2> QED
    BY <1>1, <1>2, <1>4, <2>1, OwedNext, OwedType DEF Owed
<1> QED
  BY <1>3, <1>4

\* An answer that is decoded stays owed.
LEMMA DecodeOwes ==
    ASSUME TypeOK, cwr - crd < QSize, DecodeAnswer
    PROVE  Owed' = Owed /\ \A s \in Registers : Held(s)' = Held(s)
<1> DEFINE e == Head(answers)
<1>1. /\ answers \in Seq(Answers) /\ answers # << >> /\ answers' = Tail(answers)
      /\ e \in Answers /\ Len(answers') = Len(answers) - 1 /\ Len(answers) \in Nat
  BY HeadTailProperties, LenProperties DEF TypeOK, DecodeAnswer
<1>2. \A S : HowMany(answers, S) = HowMany(answers', S) + (IF e \in S THEN 1 ELSE 0)
  BY <1>1, HowManyTail
<1>3. /\ ~reader /\ reader' = TRUE /\ cwr' = cwr /\ crd' = crd
      /\ requests' = requests /\ ring' = [ring EXCEPT ![Slot(cwr)] = e]
  BY DEF DecodeAnswer
<1> HIDE DEF e
<1>4. \A S : InRing(S)' = InRing(S) + (IF e \in S THEN 1 ELSE 0)
  BY <1>3, InRingDecode
<1>5. top' = top + 1 /\ top \in Nat /\ crd \in Nat
  BY <1>3 DEF top, TypeOK
<1>6. Owed' = Owed
  BY <1>1, <1>3, <1>5, OwedNext, OwedType DEF Owed
<1>7. \A S : HowMany(answers', S) \in Nat
  <2>1. Len(answers') \in Nat
    BY <1>1, HeadTailProperties, LenProperties
  <2> QED
    BY <2>1, HowManyType
<1>8. ASSUME NEW s \in Registers
      PROVE  Held(s)' = Held(s)
  BY <1>2, <1>3, <1>4, <1>7, HeldNext, HeldType DEF Held
<1> QED
  BY <1>6, <1>8

\* An answer that is lost is owed no more.
LEMMA LoseAnswerOwes ==
    ASSUME TypeOK, cwr - crd < QSize, LoseAnswer
    PROVE  /\ Owed' \in {Owed, Owed - 1}
           /\ \A s \in Registers : Held(s)' \in Nat /\ Held(s)' \in {Held(s), Held(s) - 1}
           /\ \A s \in Registers : Owed' - Held(s)' <= Owed - Held(s)
<1> DEFINE e == Head(answers)
<1>1. /\ answers \in Seq(Answers) /\ answers # << >> /\ answers' = Tail(answers)
      /\ e \in Answers /\ Len(answers') = Len(answers) - 1 /\ Len(answers) \in Nat
  BY HeadTailProperties, LenProperties DEF TypeOK, LoseAnswer
<1>2. \A S : HowMany(answers, S) = HowMany(answers', S) + (IF e \in S THEN 1 ELSE 0)
  BY <1>1, HowManyTail
<1> HIDE DEF e
<1>3. /\ ~reader /\ ~reader' /\ cwr' = cwr /\ crd' = crd /\ requests' = requests
      /\ ring' = ring \/ \E g : ring' = [ring EXCEPT ![Slot(cwr)] = g]
  BY DEF LoseAnswer
<1>4. \A S : InRing(S)' = InRing(S)
  BY <1>3, InRingDamage
<1>5. top' = top /\ top \in Nat /\ crd \in Nat
  BY <1>3 DEF top, TypeOK
<1>6. Owed' = Owed - 1
  BY <1>1, <1>3, <1>5, OwedNext, OwedType DEF Owed
<1>7. \A S : HowMany(answers', S) \in Nat
  <2>1. Len(answers') \in Nat
    BY <1>1, HeadTailProperties, LenProperties
  <2> QED
    BY <2>1, HowManyType
<1>8. ASSUME NEW s \in Registers
      PROVE  Held(s)' \in Nat /\ Held(s) = Held(s)' + (IF e \in AnswersOf(s) THEN 1 ELSE 0)
  BY <1>2, <1>3, <1>4, <1>7, HeldNext, HeldType DEF Held
<1>9. Owed \in Nat /\ \A s \in Registers : Held(s) \in Nat
  BY OwedType
<1>10. ASSUME NEW s \in Registers
       PROVE  /\ Held(s)' \in Nat /\ Held(s)' \in {Held(s), Held(s) - 1}
              /\ Owed' - Held(s)' <= Owed - Held(s)
  BY <1>6, <1>8, <1>9
<1> QED
  BY <1>6, <1>10

\* An answer that is read is owed no more.
LEMMA ReadOwes ==
    ASSUME TypeOK, HasAnswer, crd' = crd + 1,
           UNCHANGED <<cwr, ring, reader, requests, answers>>
    PROVE  /\ Owed' = Owed - 1
           /\ \A s \in Registers : Held(s)' = Held(s) -
                (IF ring[Slot(crd)] \in AnswersOf(s) THEN 1 ELSE 0)
<1>1. top' = top /\ top \in Nat /\ crd \in Nat
  BY DEF top, TypeOK
<1>2. Owed' = Owed - 1
  BY <1>1, OwedNext, OwedType DEF Owed
<1>3. \A S : InRing(S) = InRing(S)' + (IF ring[Slot(crd)] \in S THEN 1 ELSE 0)
  BY InRingRead
<1>4. \A S : InRing(S)' \in Nat
  BY InRingRead
<1>5. ASSUME NEW s \in Registers
      PROVE  Held(s)' = Held(s) - (IF ring[Slot(crd)] \in AnswersOf(s) THEN 1 ELSE 0)
  BY <1>3, <1>4, HeldNext, HeldType DEF Held
<1> QED
  BY <1>2, <1>5

\* Dropping what is published leaves only what is still on its way.
LEMMA CallOwes ==
    ASSUME TypeOK, NEW r \in Registers, Call(r)
    PROVE  /\ Owed' = Owed - (cwr - crd)
           /\ \A s \in Registers : Held(s)' \in Nat /\ Held(s)' <= Held(s)
           /\ Quiet => \A s \in Registers : Held(s)' = 0
<1>1. crd' = cwr /\ UNCHANGED <<cwr, ring, reader, requests, answers>>
  BY DEF Call, lineVars
<1>2. top' = top /\ top \in Nat /\ crd \in Nat /\ cwr \in Nat
  BY <1>1 DEF top, TypeOK
<1>3. Owed' = Owed - (cwr - crd)
  BY <1>1, <1>2, OwedNext, OwedType DEF Owed
<1>4. \A S : InRing(S)' \in Nat /\ InRing(S)' <= InRing(S)
  BY <1>1, InRingDrop
<1>5. ASSUME NEW s \in Registers
      PROVE  Held(s)' \in Nat /\ Held(s)' <= Held(s)
  BY <1>1, <1>4, HeldNext, HeldType DEF Held
<1>6. ASSUME Quiet, NEW s \in Registers
      PROVE  Held(s)' = 0
  <2>1. Unread(AnswersOf(s))' = {}
    BY <1>1, <1>2, <1>6 DEF Unread, top, Quiet
  <2>2. InRing(AnswersOf(s))' = 0
    BY <2>1, FS_EmptySet DEF InRing
  <2>3. requests' = << >> /\ answers' = << >>
    BY <1>1, <1>6 DEF Quiet
  <2> QED
    BY <2>2, <2>3, HeldNext, HowManyEmpty
<1> QED
  BY <1>3, <1>5, <1>6

-----------------------------------------------------------------------------
(* Type correctness.                                                       *)

LEMMA InitType == Init => TypeOK /\ TryInv
<1> SUFFICES ASSUME Init PROVE TypeOK /\ TryInv
  OBVIOUS
<1>1. requests \in Seq(Requests) /\ answers \in Seq(Answers)
  BY EmptySeq DEF Init
<1>2. ring \in [Slots -> Answers \cup {Garbage}]
  BY DEF Init
<1>3. /\ regs \in [Registers -> Values] /\ doubtful \in [Registers -> SUBSET Values]
      /\ may \in SUBSET Values
  BY RegisterAssumption DEF Init, RegisterAssumption
<1>4. /\ cwr \in Nat /\ crd \in 0 .. cwr /\ i \in 0 .. Tries
      /\ reads \in 0 .. MaxReads /\ writes \in 0 .. MaxWrites
      /\ lost \in 0 .. MaxLost /\ trouble \in 0 .. MaxTrouble
  BY RegisterAssumption DEF Init, RegisterAssumption
<1>5. caller = "idle" /\ regAddr = NoRegister /\ result = BAD_VALUE
      /\ do_write = FALSE /\ reader = FALSE
  BY DEF Init
<1> QED
  BY <1>1, <1>2, <1>3, <1>4, <1>5 DEF TypeOK, TryInv

\* Head and Tail of a sequence that is not empty.
LEMMA FirstAndRest ==
    ASSUME NEW T, NEW q \in Seq(T), q # << >>
    PROVE  Head(q) \in T /\ Tail(q) \in Seq(T)
BY HeadTailProperties

\* A step of the configurer keeps the types.
LEMMA CallerType ==
    ASSUME TypeOK, TryInv,
           \/ Configurer \/ Expire \/ SpuriousWakeup
           \/ \E r \in Registers : Call(r) \/ \E v \in Values : WriteRegister(r, v)
    PROVE  TypeOK' /\ TryInv'
<1> USE RegisterAssumption DEF TypeOK, TryInv, RegisterAssumption,
        callVars, ringVars, lineVars, countVars, portVars
<1>1. CASE Try
  <2> DEFINE e == [write |-> FALSE, addr |-> regAddr, data |-> regs[regAddr]]
  <2>1. e \in Requests
    BY <1>1 DEF Try, Requests
  <2>2. requests' \in Seq(Requests)
    BY <1>1, <2>1, AppendProperties DEF Try
  <2>3. doubtful' \in [Registers -> SUBSET Values]
    BY <1>1 DEF Try
  <2> QED
    BY <1>1, <2>2, <2>3 DEF Try
<1>2. CASE GiveUp
  <2>1. doubtful' \in [Registers -> SUBSET Values]
    BY <1>2 DEF GiveUp
  <2>2. /\ caller' = "idle" /\ regAddr' = NoRegister /\ result' = BAD_VALUE
        /\ i' = 0 /\ do_write' = FALSE /\ may' = {}
        /\ UNCHANGED <<ringVars, lineVars, countVars>>
    BY <1>2 DEF GiveUp, Leave
  <2>3. 0 \in 0 .. Tries /\ {} \in SUBSET Values
    OBVIOUS
  <2>4. BAD_VALUE \in Values \cup {BAD_VALUE} /\ NoRegister \in Registers \cup {NoRegister}
    OBVIOUS
  <2> QED
    BY <2>1, <2>2, <2>3, <2>4
<1>3. CASE AfterTimeout
  BY <1>3 DEF AfterTimeout, NextTry
<1>4. CASE WokenForNothing
  BY <1>4 DEF WokenForNothing
<1>5. CASE Answered
  <2>1. ring[Slot(crd)] \in Answers
    BY <1>5, SlotType DEF Answered, IsAnswer
  <2>2. ring[Slot(crd)].data \in Values
    BY <2>1 DEF Answers
  <2>3. crd' \in 0 .. cwr
    BY <1>5 DEF Answered, HasAnswer
  <2>4. /\ caller' = "idle" /\ regAddr' = NoRegister /\ result' = ring[Slot(crd)].data
        /\ i' = 0 /\ do_write' = FALSE /\ may' = {}
        /\ UNCHANGED <<cwr, ring, reader, lineVars, countVars, doubtful>>
    BY <1>5 DEF Answered, Leave
  <2>5. 0 \in 0 .. Tries /\ {} \in SUBSET Values
    OBVIOUS
  <2>6. NoRegister \in Registers \cup {NoRegister}
    OBVIOUS
  <2> QED
    BY <2>2, <2>3, <2>4, <2>5, <2>6
<1>6. CASE OlderAnswer
  <2>1. crd' \in 0 .. cwr
    BY <1>6 DEF OlderAnswer, HasAnswer
  <2> QED
    BY <1>6, <2>1 DEF OlderAnswer, SameTry
<1>7. CASE Expire
  BY <1>7 DEF Expire
<1>8. CASE SpuriousWakeup
  BY <1>8 DEF SpuriousWakeup
<1>9. ASSUME NEW r \in Registers, Call(r)
      PROVE  TypeOK' /\ TryInv'
  <2>1. doubtful' \in [Registers -> SUBSET Values]
    BY <1>9 DEF Call
  <2>2. may' \in SUBSET Values
    BY <1>9, <2>1 DEF Call
  <2> QED
    BY <1>9, <2>1, <2>2 DEF Call
<1>10. ASSUME NEW r \in Registers, NEW v \in Values, WriteRegister(r, v)
       PROVE  TypeOK' /\ TryInv'
  <2> DEFINE e == [write |-> TRUE, addr |-> r, data |-> v]
  <2>1. e \in Requests
    BY DEF Requests
  <2>2. requests' \in Seq(Requests)
    BY <1>10, <2>1, AppendProperties DEF WriteRegister
  <2> QED
    BY <1>10, <2>2 DEF WriteRegister
<1> QED
  BY <1>1, <1>2, <1>3, <1>4, <1>5, <1>6, <1>7, <1>8, <1>9, <1>10 DEF Configurer

\* A step of the board, the line or the reader keeps the types.
LEMMA LineType ==
    ASSUME TypeOK, TryInv,
           Board \/ LoseRequest \/ DecodeAnswer \/ LoseAnswer \/ SendCommandResponse
    PROVE  TypeOK' /\ TryInv'
<1> USE RegisterAssumption DEF TypeOK, TryInv, RegisterAssumption,
        callVars, ringVars, lineVars, countVars, portVars
<1>1. CASE ServeRead
  <2> DEFINE e == Head(requests)
             a == [addr |-> e.addr, data |-> regs[e.addr]]
  <2>1. e \in Requests /\ Tail(requests) \in Seq(Requests)
    BY <1>1, FirstAndRest DEF ServeRead
  <2>2. a \in Answers
    BY <2>1 DEF Answers, Requests
  <2>3. answers' \in Seq(Answers)
    BY <1>1, <2>2, AppendProperties DEF ServeRead
  <2> QED
    BY <1>1, <2>1, <2>3 DEF ServeRead
<1>2. CASE ServeWrite
  <2> DEFINE e == Head(requests)
  <2>1. e \in Requests /\ Tail(requests) \in Seq(Requests)
    BY <1>2, FirstAndRest DEF ServeWrite
  <2>2. e.addr \in Registers /\ e.data \in Values
    BY <2>1 DEF Requests
  <2>3. /\ regs' \in [Registers -> Values] /\ may' \in SUBSET Values
        /\ doubtful' \in [Registers -> SUBSET Values]
    BY <1>2, <2>2 DEF ServeWrite
  <2> QED
    BY <1>2, <2>1, <2>3 DEF ServeWrite
<1>3. CASE LoseRequest
  <2>1. Tail(requests) \in Seq(Requests)
    BY <1>3, FirstAndRest DEF LoseRequest
  <2> QED
    BY <1>3, <2>1 DEF LoseRequest, CountLost
<1>4. CASE DecodeAnswer
  <2>1. Head(answers) \in Answers /\ Tail(answers) \in Seq(Answers)
    BY <1>4, FirstAndRest DEF DecodeAnswer
  <2>2. ring' \in [Slots -> Answers \cup {Garbage}]
    BY <1>4, <2>1 DEF DecodeAnswer
  <2> QED
    BY <1>4, <2>1, <2>2 DEF DecodeAnswer
<1>5. CASE LoseAnswer
  <2>1. Tail(answers) \in Seq(Answers)
    BY <1>5, FirstAndRest DEF LoseAnswer
  <2>2. ring' \in [Slots -> Answers \cup {Garbage}]
    BY <1>5 DEF LoseAnswer
  <2> QED
    BY <1>5, <2>1, <2>2 DEF LoseAnswer, CountLost
<1>6. CASE SendCommandResponse
  <2>1. cwr' \in Nat /\ crd \in 0 .. cwr'
    BY <1>6 DEF SendCommandResponse
  <2>2. /\ caller' \in {"idle", "woken", "expired"} /\ (caller' = "idle" <=> caller = "idle")
        /\ caller' = "expired" => caller = "expired"
        /\ caller' = "woken" => caller \in {"wait", "woken"}
    BY <1>6 DEF SendCommandResponse, Signalled, MutexFree
  <2>3. /\ reader' = FALSE
        /\ UNCHANGED <<regAddr, i, do_write, result, crd, ring, lineVars, countVars, portVars>>
    BY <1>6 DEF SendCommandResponse
  <2> QED
    BY <2>1, <2>2, <2>3
<1> QED
  BY <1>1, <1>2, <1>3, <1>4, <1>5, <1>6 DEF Board

LEMMA StutterType == TypeOK /\ TryInv /\ UNCHANGED vars => TypeOK' /\ TryInv'
BY DEF TypeOK, TryInv, vars, callVars, ringVars, lineVars, countVars, portVars

LEMMA TypeStep == TypeOK /\ TryInv /\ [Next]_vars => TypeOK' /\ TryInv'
BY CallerType, LineType, StutterType DEF Next

\* Every variable keeps its type: in particular crd never passes cwr, and no
\* read has a try beyond the last.
THEOREM TypeCorrect == Spec => []TypeOK
<1>1. Spec => [](TypeOK /\ TryInv)
  BY InitType, TypeStep, PTL DEF Spec
<1> QED
  BY <1>1, PTL

-----------------------------------------------------------------------------
(* The ring is not overrun.                                                *)

\* What has come or is about to come counts as owed.
LEMMA RingIsOwed ==
    ASSUME TypeOK
    PROVE  /\ cwr - crd <= Owed
           /\ reader \/ answers # << >> => cwr - crd < Owed
           /\ Quiet => Owed = cwr - crd
<1>1. cwr \in Nat /\ crd \in Nat /\ crd <= cwr /\ top = IF reader THEN cwr + 1 ELSE cwr
  BY DEF TypeOK, top
<1>2. Len(answers) \in Nat /\ HowMany(requests, ReadRequests) \in Nat
  BY OwedType
<1>3. answers # << >> => Len(answers) > 0
  BY EmptySeq DEF TypeOK
<1>4. Quiet => ~reader /\ Len(answers) = 0 /\ HowMany(requests, ReadRequests) = 0
  BY HowManyEmpty, EmptySeq DEF Quiet
<1> QED
  BY <1>1, <1>2, <1>3, <1>4 DEF Owed

\* As few are owed as came late: there is room in the ring for the next.
LEMMA RoomInRing ==
    ASSUME TypeOK, OwedInv, reader \/ answers # << >>
    PROVE  cwr - crd <= trouble /\ (RingFits => cwr - crd < QSize)
<1>1. cwr - crd < Owed /\ Owed \in Nat /\ cwr \in Nat /\ crd \in Nat
  BY RingIsOwed, OwedType DEF TypeOK
<1>2. Owed <= trouble + 1 /\ trouble \in Nat /\ QSize \in Nat
  BY RegisterAssumption DEF OwedInv, TypeOK, RegisterAssumption
<1> QED
  BY <1>1, <1>2 DEF RingFits

LEMMA InitOwed == Init => OwedInv
<1> SUFFICES ASSUME Init PROVE OwedInv
  OBVIOUS
<1>1. top = 0 /\ crd = 0 /\ cwr = 0 /\ trouble = 0 /\ caller = "idle"
  BY DEF Init, top
<1>2. Len(answers) = 0 /\ HowMany(requests, ReadRequests) = 0
  BY HowManyEmpty, EmptySeq DEF Init
<1> QED
  BY <1>1, <1>2 DEF OwedInv, Owed

\* A step that neither the ring nor the line sees.
LEMMA OwedKept ==
    ASSUME TypeOK, OwedInv, UNCHANGED <<cwr, crd, ring, reader, requests, answers>>,
           \/ GiveUp \/ AfterTimeout \/ WokenForNothing \/ Expire \/ SpuriousWakeup
           \/ Try /\ ~do_write
           \/ UNCHANGED vars
    PROVE  OwedInv'
<1>1. Owed' = Owed
  BY KeepsOwed DEF top
<1>2. Owed \in Nat /\ trouble \in Nat /\ cwr \in Nat /\ crd \in Nat
  BY OwedType DEF TypeOK
<1>3. cwr - crd <= Owed /\ (Quiet => Owed = cwr - crd)
  BY RingIsOwed
<1> USE <1>1, <1>2, <1>3 DEF OwedInv
<1>4. CASE GiveUp
  BY <1>4 DEF GiveUp, Leave, countVars
<1>5. CASE AfterTimeout
  BY <1>5 DEF AfterTimeout, countVars
<1>6. CASE WokenForNothing
  BY <1>6 DEF WokenForNothing, HasAnswer, countVars
<1>7. CASE Expire
  BY <1>7 DEF Expire
<1>8. CASE SpuriousWakeup
  BY <1>8 DEF SpuriousWakeup
<1>9. CASE Try /\ ~do_write
  BY <1>9 DEF Try, countVars
<1>10. CASE UNCHANGED vars
  BY <1>10 DEF vars, callVars, countVars
<1> QED
  BY <1>4, <1>5, <1>6, <1>7, <1>8, <1>9, <1>10

LEMMA OwedStep ==
    ASSUME TypeOK, OwedInv, [Next]_vars
    PROVE  OwedInv'
<1>1. Owed \in Nat /\ trouble \in Nat /\ cwr \in Nat /\ crd \in Nat /\ crd <= cwr
  BY OwedType DEF TypeOK
<1>2. cwr - crd <= Owed /\ (Quiet => Owed = cwr - crd)
  BY RingIsOwed
<1>3. CASE GiveUp \/ AfterTimeout \/ WokenForNothing \/ Expire \/ SpuriousWakeup
  BY <1>3, OwedKept
     DEF GiveUp, AfterTimeout, WokenForNothing, Expire, SpuriousWakeup, ringVars, lineVars
<1>4. CASE UNCHANGED vars
  BY <1>4, OwedKept DEF vars, ringVars, lineVars
<1>5. CASE Try
  <2>1. CASE do_write
    <3>1. Owed' = Owed + 1
      BY <1>5, <2>1, TryOwes
    <3> QED
      BY <1>1, <1>2, <1>5, <3>1 DEF OwedInv, Try, ringVars, countVars
  <2>2. CASE ~do_write
    BY <1>5, <2>2, OwedKept DEF Try, ringVars
  <2> QED
    BY <2>1, <2>2
<1>6. CASE Answered
  <2>1. Owed' = Owed - 1
    BY <1>6, ReadOwes DEF Answered, lineVars
  <2> QED
    BY <1>1, <1>2, <1>6, <2>1 DEF OwedInv, Answered, Leave, countVars
<1>7. CASE OlderAnswer
  <2>1. Owed' = Owed - 1
    BY <1>7, ReadOwes DEF OlderAnswer, lineVars
  <2> QED
    BY <1>1, <1>2, <1>7, <2>1 DEF OwedInv, OlderAnswer, countVars
<1>8. ASSUME NEW r \in Registers, Call(r) PROVE OwedInv'
  <2>1. Owed' = Owed - (cwr - crd)
    BY <1>8, CallOwes
  <2> QED
    BY <1>1, <1>2, <1>8, <2>1 DEF OwedInv, Call
<1>9. ASSUME NEW r \in Registers, NEW v \in Values, WriteRegister(r, v) PROVE OwedInv'
  <2>1. Owed' = Owed
    BY <1>9, WriteOwes
  <2> QED
    BY <1>1, <1>9, <2>1 DEF OwedInv, WriteRegister, callVars, ringVars
<1>10. CASE Board
  <2>1. Owed' = Owed
    BY <1>10, ServeOwes
  <2> QED
    BY <1>1, <1>10, <2>1
       DEF OwedInv, Board, ServeRead, ServeWrite, callVars, ringVars, countVars
<1>11. CASE LoseRequest
  <2>1. Owed' \in {Owed, Owed - 1}
    BY <1>11, LoseRequestOwes
  <2> QED
    BY <1>1, <1>11, <2>1 DEF OwedInv, LoseRequest, callVars, ringVars
<1>12. CASE DecodeAnswer
  <2>1. Owed' = Owed
    BY <1>12, AnswerOwed
  <2> QED
    BY <1>1, <1>12, <2>1 DEF OwedInv, DecodeAnswer, callVars, countVars
<1>13. CASE LoseAnswer
  <2>1. Owed' \in {Owed, Owed - 1}
    BY <1>13, AnswerOwed
  <2> QED
    BY <1>1, <1>13, <2>1 DEF OwedInv, LoseAnswer, callVars
<1>14. CASE SendCommandResponse
  <2>1. Owed' = Owed
    BY <1>1, <1>14, KeepsOwed DEF SendCommandResponse, top, lineVars
  <2> QED
    BY <1>1, <1>14, <2>1 DEF OwedInv, SendCommandResponse, Signalled, MutexFree, countVars
<1> QED
  BY <1>3, <1>4, <1>5, <1>6, <1>7, <1>8, <1>9, <1>10, <1>11, <1>12, <1>13, <1>14
     DEF Next, Configurer

LEMMA OwedCorrect == Spec => [](TypeOK /\ TryInv /\ OwedInv)
<1>1. TypeOK /\ TryInv /\ OwedInv /\ [Next]_vars => TypeOK' /\ TryInv' /\ OwedInv'
  BY TypeStep, OwedStep
<1> QED
  BY InitType, InitOwed, <1>1, PTL DEF Spec

\* When the reader decodes an answer, no more are unread than timeouts came
\* early and wakeups were spurious since a read began with nothing on its way:
\* an overrun, which nothing in the code checks, takes QSize of these.
THEOREM RingFillsForCause == Spec => []UnreadForCause
<1>1. TypeOK /\ OwedInv => UnreadForCause
  BY RoomInRing DEF UnreadForCause
<1> QED
  BY <1>1, OwedCorrect, PTL

-----------------------------------------------------------------------------
(* A read gives up for cause.                                              *)

\* Trouble is forgotten only where everything starts afresh.
LEMMA TroubleGrows ==
    ASSUME TypeOK, [Next]_vars, ~Fresh, RingFits'
    PROVE  RingFits
<1>1. trouble \in Nat /\ QSize \in Nat
  BY RegisterAssumption DEF TypeOK, RegisterAssumption
<1>2. ASSUME NEW r \in Registers, Call(r)
      PROVE  trouble' = trouble
  BY <1>2 DEF Call, Fresh
<1>3. ASSUME NEW r \in Registers, NEW v \in Values, WriteRegister(r, v)
      PROVE  trouble' = trouble
  BY <1>3 DEF WriteRegister
<1>4. CASE Expire \/ SpuriousWakeup
  BY <1>1, <1>4 DEF Expire, SpuriousWakeup, RingFits
<1>5. CASE Configurer
  BY <1>5 DEF Configurer, Try, GiveUp, AfterTimeout, WokenForNothing, Answered, OlderAnswer,
              countVars, RingFits
<1>6. CASE Board \/ LoseRequest \/ DecodeAnswer \/ LoseAnswer \/ SendCommandResponse
  BY <1>6 DEF Board, ServeRead, ServeWrite, LoseRequest, DecodeAnswer, LoseAnswer,
              SendCommandResponse, countVars, RingFits
<1>7. CASE UNCHANGED vars
  BY <1>7 DEF vars, countVars, RingFits
<1> QED
  BY <1>2, <1>3, <1>4, <1>5, <1>6, <1>7 DEF Next, RingFits

LEMMA CauseStep ==
    ASSUME TypeOK, OwedInv, CauseInv, ~Fresh, [Next]_vars
    PROVE  CauseInv'
<1> SUFFICES ASSUME RingFits', lost' < MaxLost, NEW s \in Registers, s = regAddr'
             PROVE  /\ Due' + Stale(s)' <= Blame' + 1
                    /\ caller' \in {"try", "expired"} \/ ~do_write' =>
                         Due' + Stale(s)' <= Blame'
                    /\ caller' = "wait" => (cwr' - crd') + Due' <= Blame' + Held(s)'
                    /\ caller' = "woken" /\ cwr' = crd' =>
                         Due' + Stale(s)' + (IF do_write' THEN 0 ELSE 1) <= Blame'
  BY DEF CauseInv
<1>1. /\ Owed \in Nat /\ trouble \in Nat /\ lost \in Nat /\ cwr \in Nat /\ crd \in Nat
      /\ i \in Nat /\ do_write \in BOOLEAN /\ crd <= cwr
  BY OwedType, RegisterAssumption DEF TypeOK, RegisterAssumption
<1>2. Held(s) \in Nat /\ Held(s) <= Owed /\ cwr - crd <= Owed /\ (Quiet => Owed = cwr - crd)
  BY OwedType, RingIsOwed
<1> DEFINE
      Before == /\ Due + Owed - Held(s) <= Blame + 1
                /\ caller \in {"try", "expired"} \/ ~do_write =>
                     Due + Owed - Held(s) <= Blame
                /\ caller = "wait" => (cwr - crd) + Due <= Blame + Held(s)
                /\ caller = "woken" /\ cwr = crd =>
                     Due + Owed - Held(s) + (IF do_write THEN 0 ELSE 1) <= Blame
<1>0. RingFits
  BY TroubleGrows
<1>3. lost < MaxLost /\ s = regAddr => Before
  BY <1>0, <1>1, <1>2 DEF CauseInv, Stale, Due, Blame
<1> USE DEF Stale, Due, Blame
<1> DEFINE Unseen == \/ AfterTimeout \/ WokenForNothing \/ Expire \/ SpuriousWakeup
                     \/ Try /\ ~do_write
                     \/ UNCHANGED vars
<1>4. CASE Unseen
  <2>1. UNCHANGED <<lost, regAddr, cwr, crd, ring, reader, requests, answers>>
    BY <1>4 DEF AfterTimeout, WokenForNothing, Expire, SpuriousWakeup, Try,
                vars, callVars, ringVars, lineVars, countVars
  <2>2. Owed' = Owed /\ Held(s)' = Held(s)
    BY <2>1, KeepsOwed DEF top
  <2>3. Before
    BY <1>3, <2>1
  <2> USE <1>1, <1>2, <2>1, <2>2, <2>3
  <2>4. CASE AfterTimeout
    BY <2>4 DEF AfterTimeout, NextTry, countVars
  <2>5. CASE WokenForNothing
    BY <2>5 DEF WokenForNothing, HasAnswer, countVars
  <2>6. CASE Expire
    BY <2>6 DEF Expire
  <2>7. CASE SpuriousWakeup
    BY <2>7 DEF SpuriousWakeup
  <2>8. CASE Try /\ ~do_write
    BY <2>8 DEF Try, countVars
  <2>9. CASE UNCHANGED vars
    BY <2>9 DEF vars, callVars, countVars
  <2> QED
    BY <1>4, <2>4, <2>5, <2>6, <2>7, <2>8, <2>9
<1>5. CASE Try /\ do_write
  <2>1. Owed' = Owed + 1 /\ Held(s)' = Held(s) + 1 /\ Before
    BY <1>3, <1>5, TryOwes DEF Try, countVars
  <2> QED
    BY <1>1, <1>2, <1>5, <2>1 DEF Try, ringVars, countVars
<1>6. CASE GiveUp \/ Answered
  BY <1>6, RegisterAssumption DEF GiveUp, Answered, Leave, RegisterAssumption
<1>7. CASE OlderAnswer
  <2>1. ring[Slot(crd)] \notin AnswersOf(s)
    <3>1. ring[Slot(crd)] \in AnswersOf(s) => ring[Slot(crd)] \in Answers /\ ring[Slot(crd)].addr = s
      BY DEF AnswersOf, Answers
    <3>2. Garbage \notin Answers
      BY RegisterAssumption DEF RegisterAssumption, Answers
    <3> QED
      BY <1>7, <3>1, <3>2 DEF OlderAnswer, IsAnswer
  <2>2. Owed' = Owed - 1 /\ Held(s)' = Held(s)
    BY <1>2, <1>7, <2>1, ReadOwes DEF OlderAnswer, lineVars
  <2>3. Before
    BY <1>3, <1>7 DEF OlderAnswer, countVars
  <2> QED
    BY <1>1, <1>2, <1>7, <2>2, <2>3 DEF OlderAnswer, SameTry, countVars
<1>8. ASSUME NEW r \in Registers, Call(r)
      PROVE  /\ Due' + Stale(s)' <= Blame'
             /\ caller' = "try" /\ Due' \in Int /\ Stale(s)' \in Int /\ Blame' \in Int
  <2>1. Owed' = Owed - (cwr - crd) /\ Held(s)' \in Nat
    BY <1>8, CallOwes
  <2>2. Owed <= trouble /\ ~Quiet
    BY <1>8 DEF Call, OwedInv, Fresh
  <2> QED
    BY <1>1, <1>2, <1>8, <2>1, <2>2 DEF Call
<1>9. ASSUME NEW r \in Registers, NEW v \in Values, WriteRegister(r, v)
      PROVE  s \notin Registers
  BY <1>9, RegisterAssumption DEF WriteRegister, callVars, TypeOK, RegisterAssumption
<1>10. CASE Board
  <2>1. Owed' = Owed /\ Held(s)' = Held(s)
    BY <1>10, ServeOwes
  <2>2. UNCHANGED <<callVars, ringVars, countVars>>
    BY <1>10 DEF Board, ServeRead, ServeWrite
  <2> QED
    BY <1>1, <1>2, <1>3, <2>1, <2>2 DEF callVars, ringVars, countVars
<1>11. CASE LoseRequest \/ LoseAnswer
  <2>1. LoseAnswer => cwr - crd < QSize
    BY <1>0, RoomInRing DEF LoseAnswer
  <2>2. /\ Owed' \in {Owed, Owed - 1} /\ Held(s)' \in {Held(s), Held(s) - 1}
        /\ Owed' - Held(s)' <= Owed - Held(s)
    BY <1>11, <2>1, LoseRequestOwes, LoseAnswerOwes
  <2>3. lost < MaxLost /\ lost' = lost + 1
    BY <1>11, RegisterAssumption
       DEF LoseRequest, LoseAnswer, CountLost, TypeOK, RegisterAssumption
  <2>4. UNCHANGED <<callVars, cwr, crd, trouble>>
    BY <1>11 DEF LoseRequest, LoseAnswer, ringVars
  <2> QED
    BY <1>1, <1>2, <1>3, <2>2, <2>3, <2>4 DEF callVars
<1>12. CASE DecodeAnswer
  <2>1. cwr - crd < QSize
    BY <1>0, <1>12, RoomInRing DEF DecodeAnswer
  <2>2. Owed' = Owed /\ Held(s)' = Held(s)
    BY <1>12, <2>1, DecodeOwes
  <2> QED
    BY <1>1, <1>2, <1>3, <1>12, <2>2 DEF DecodeAnswer, callVars, countVars
<1>13. CASE SendCommandResponse
  <2>1. Owed' = Owed /\ Held(s)' = Held(s)
    BY <1>1, <1>13, KeepsOwed DEF SendCommandResponse, top, lineVars
  <2> QED
    BY <1>1, <1>2, <1>3, <1>13, <2>1
       DEF SendCommandResponse, Signalled, MutexFree, countVars
<1> QED
  BY <1>4, <1>5, <1>6, <1>7, <1>8, <1>9, <1>10, <1>11, <1>12, <1>13 DEF Next, Configurer

\* A read that is owed nothing begins with a clean slate.
LEMMA FreshCause ==
    ASSUME TypeOK, Fresh
    PROVE  CauseInv'
<1> PICK r \in Registers : Call(r)
  BY DEF Fresh
<1>1. Owed' = Owed - (cwr - crd) /\ \A s \in Registers : Held(s)' = 0
  BY CallOwes DEF Fresh
<1>2. Owed = cwr - crd /\ cwr \in Nat /\ crd \in Nat
  BY RingIsOwed DEF Fresh, TypeOK
<1>3. caller' = "try" /\ i' = 0 /\ do_write' = TRUE /\ lost' = 0 /\ trouble' = 0
  BY DEF Call, Fresh
<1>4. Owed' = 0
  BY <1>1, <1>2
<1> QED
  BY <1>1, <1>3, <1>4 DEF CauseInv, Due, Stale, Blame

LEMMA InitCause == Init => CauseInv
BY RegisterAssumption DEF Init, CauseInv, RegisterAssumption

\* As long as every lost frame is counted up to the number of tries, a read
\* that has used up its tries has a lost frame, a late answer or a spurious
\* wakeup to blame for each, since a read last began with nothing on its way.  A
\* signal that comes while the caller does not wait, and an older answer that
\* uses up a signal, cost no try.
THEOREM GivesUpOnlyForCause ==
    ASSUME Tries <= MaxLost
    PROVE  Spec => []GivesUpForCause
<1>1. TypeOK /\ TryInv /\ OwedInv /\ CauseInv /\ [Next]_vars => CauseInv'
  BY CauseStep, FreshCause
<1>2. TypeOK /\ CauseInv => GivesUpForCause
  <2> SUFFICES ASSUME TypeOK, CauseInv, RingFits, caller = "try", i = Tries
               PROVE  lost + trouble >= Tries
    BY DEF GivesUpForCause
  <2>1. /\ regAddr \in Registers /\ lost \in Nat /\ trouble \in Nat /\ Tries \in Nat
        /\ MaxLost \in Nat
    BY RegisterAssumption DEF TypeOK, RegisterAssumption
  <2>2. CASE lost < MaxLost
    <3> PICK s \in Registers : s = regAddr
      BY <2>1
    <3>1. Due + Stale(s) <= Blame
      BY <2>2 DEF CauseInv
    <3>2. Stale(s) \in Nat
      BY OwedType DEF Stale
    <3> QED
      BY <2>1, <3>1, <3>2 DEF Due, Blame
  <2>3. CASE lost >= MaxLost
    BY <2>1, <2>3
  <2> QED
    BY <2>1, <2>2, <2>3
<1> QED
  BY InitCause, OwedCorrect, <1>1, <1>2, PTL DEF Spec

-----------------------------------------------------------------------------
(* The values that are about.                                              *)

\* What is about for register s counts as held for it.
LEMMA AboutIsHeld ==
    TypeOK => \A s \in Registers : Held(s) = 0 =>
        /\ \A n \in crd .. (top - 1) : ring[Slot(n)] \notin AnswersOf(s)
        /\ \A k \in 1 .. Len(answers) : answers[k] \notin AnswersOf(s)
        /\ \A k \in 1 .. Len(requests) : requests[k] \notin ReadsOf(s)
<1> SUFFICES ASSUME TypeOK, NEW s \in Registers, Held(s) = 0
             PROVE  /\ \A n \in crd .. (top - 1) : ring[Slot(n)] \notin AnswersOf(s)
                    /\ \A k \in 1 .. Len(answers) : answers[k] \notin AnswersOf(s)
                    /\ \A k \in 1 .. Len(requests) : requests[k] \notin ReadsOf(s)
  OBVIOUS
<1>1. /\ InRing(AnswersOf(s)) = 0
      /\ HowMany(answers, AnswersOf(s)) = 0
      /\ HowMany(requests, ReadsOf(s)) = 0
  BY HeldType DEF Held
<1>2. Len(requests) \in Nat /\ Len(answers) \in Nat
  BY LenProperties DEF TypeOK
<1>3. Unread(AnswersOf(s)) = {}
  BY <1>1, UnreadType, FS_EmptySet DEF InRing
<1>4. Places(answers, AnswersOf(s)) = {} /\ Places(requests, ReadsOf(s)) = {}
  BY <1>1, <1>2, HowManyType, FS_EmptySet DEF HowMany
<1> QED
  BY <1>3, <1>4 DEF Unread, Places

\* A read that is to be served asks for a register whose value is known.
LEMMA ServedIsKnown ==
    ASSUME TypeOK, DoubtInv, ServeRead
    PROVE  [addr |-> Head(requests).addr, data |-> regs[Head(requests).addr]] \in KnownAnswers
<1> DEFINE r == Head(requests).addr
<1>1. /\ requests \in Seq(Requests) /\ requests # << >> /\ Head(requests) \in Requests
      /\ Head(requests) = requests[1] /\ 1 \in 1 .. Len(requests)
  BY HeadTailProperties, EmptySeq DEF TypeOK, ServeRead
<1>2. r \in Registers /\ requests[1] \in ReadsOf(r)
  BY <1>1, OfRegister DEF Requests, ServeRead
<1>3. Held(r) # 0
  BY <1>1, <1>2, AboutIsHeld
<1>4. regs[r] \in Known(r)
  BY <1>2, <1>3 DEF DoubtInv, Known
<1>5. regs[r] \in Values
  BY <1>2 DEF TypeOK
<1> QED
  BY <1>2, <1>4, <1>5 DEF KnownAnswers, Answers

\* The answer that is read carries a value this read may return.
LEMMA ReadIsKnown ==
    ASSUME TypeOK, ValueInv, Answered
    PROVE  ring[Slot(crd)].data \in may /\ ring[Slot(crd)] \in AnswersOf(regAddr)
<1>1. crd \in crd .. (top - 1)
  BY DEF TypeOK, Answered, HasAnswer, top
<1>2. ring[Slot(crd)] \in KnownAnswers /\ ring[Slot(crd)].addr = regAddr
  BY <1>1 DEF ValueInv, Answered, IsAnswer
<1> QED
  BY <1>2 DEF KnownAnswers, Known, Answers, AnswersOf

LEMMA InitPort == Init => PortInv
<1> SUFFICES ASSUME Init PROVE PortInv
  OBVIOUS
<1>1. top = 0 /\ crd = 0 /\ answers = << >> /\ requests = << >> /\ Len(answers) = 0
  BY EmptySeq DEF Init, top
<1>2. ValueInv
  BY <1>1 DEF ValueInv
<1>3. ASSUME NEW s \in Registers PROVE Held(s) = 0
  <2>1. Unread(AnswersOf(s)) = {}
    BY <1>1 DEF Unread
  <2>2. InRing(AnswersOf(s)) = 0
    BY <2>1, FS_EmptySet DEF InRing
  <2> QED
    BY <1>1, <2>2, HowManyEmpty DEF Held
<1>4. do_write = FALSE /\ \A s \in Registers : doubtful[s] = {} /\ s # regAddr
  BY RegisterAssumption DEF Init, RegisterAssumption
<1>5. ASSUME NEW s \in Registers PROVE Held(s) <= 1
  <2>1. Held(s) = 0
    BY <1>3
  <2> QED
    BY <2>1
<1>6. DoubtInv
  <2> SUFFICES ASSUME NEW s \in Registers
               PROVE  /\ doubtful[s] = {} /\ s # regAddr /\ Held(s) <= 1 /\ Held(s) = 0
    BY DEF DoubtInv
  <2> QED
    BY <1>3, <1>4, <1>5
<1> QED
  BY <1>2, <1>6 DEF PortInv

\* With nothing about, nothing is in doubt.
LEMMA FreshPort ==
    ASSUME TypeOK, Fresh
    PROVE  PortInv'
<1> PICK r \in Registers : Call(r)
  BY DEF Fresh
<1>1. \A s \in Registers : Held(s)' = 0
  BY CallOwes DEF Fresh
<1>2. /\ cwr' = cwr /\ crd' = cwr /\ reader' = FALSE /\ answers' = << >>
      /\ cwr \in Nat
  BY DEF Call, lineVars, Fresh, Quiet, TypeOK
<1>3. top' = cwr /\ Len(answers') = 0
  BY <1>2, EmptySeq DEF top
<1>4. ValueInv'
  BY <1>2, <1>3 DEF ValueInv
<1>5. /\ doubtful' = [s \in Registers |-> {}] /\ regAddr' = r /\ regs' = regs
      /\ may' = {regs[r]} \cup doubtful'[r]
  BY DEF Call, lineVars, Fresh
<1>6. DoubtInv'
  <2> SUFFICES ASSUME NEW s \in Registers
               PROVE  /\ doubtful'[s] = {} /\ (s = regAddr' => regs'[s] \in may')
                      /\ Held(s)' = 0 /\ Held(s)' <= 1
    BY DEF DoubtInv
  <2> QED
    BY <1>1, <1>5
<1> QED
  BY <1>4, <1>6 DEF PortInv

\* Answers in doubt stay so until nothing is about, and the answers to one
\* request are no more than one.
LEMMA DoubtStep ==
    ASSUME RingFits, TypeOK, OwedInv, PortInv, ~Fresh, [Next]_vars
    PROVE  DoubtInv'
<1> SUFFICES ASSUME NEW s \in Registers
             PROVE  /\ doubtful'[s] # {} => regs'[s] \in doubtful'[s]
                    /\ s = regAddr' => regs'[s] \in may' /\ doubtful'[s] \in {{}, may'}
                    /\ doubtful'[s] = {} =>
                         /\ Held(s)' <= 1
                         /\ s # regAddr' => Held(s)' = 0
                         /\ (caller' = "try" /\ i' = 0 /\ do_write') => Held(s)' = 0
  BY DEF DoubtInv
<1>1. Held(s) \in Nat /\ i \in Nat
  BY OwedType DEF TypeOK
<1>2. /\ doubtful[s] # {} => regs[s] \in doubtful[s]
      /\ s = regAddr => regs[s] \in may /\ doubtful[s] \in {{}, may}
      /\ doubtful[s] = {} =>
           /\ Held(s) <= 1
           /\ s # regAddr => Held(s) = 0
           /\ (caller = "try" /\ i = 0 /\ do_write) => Held(s) = 0
  BY DEF PortInv, DoubtInv
<1>3. ASSUME \/ AfterTimeout \/ WokenForNothing \/ Expire \/ SpuriousWakeup
             \/ Try /\ ~do_write
             \/ UNCHANGED vars
      PROVE  /\ UNCHANGED <<doubtful, regs, may, regAddr>> /\ Held(s)' = Held(s)
             /\ caller' = "try" /\ i' = 0 /\ do_write' => caller = "try" /\ i = 0 /\ do_write
  <2>1. UNCHANGED <<cwr, crd, ring, reader, requests, answers>>
    BY <1>3 DEF AfterTimeout, WokenForNothing, Expire, SpuriousWakeup, Try,
                vars, callVars, ringVars, lineVars, countVars
  <2>2. Held(s)' = Held(s)
    BY <2>1, KeepsOwed DEF top
  <2> QED
    BY <1>1, <1>3, <2>2 DEF AfterTimeout, WokenForNothing, Expire, SpuriousWakeup, Try,
                NextTry, vars, callVars, lineVars, portVars
<1>4. CASE Try /\ do_write
  <2>1. Held(s)' = Held(s) + (IF s = regAddr THEN 1 ELSE 0)
    BY <1>4, TryOwes
  <2>2. UNCHANGED <<regs, may, regAddr, i>> /\ caller' = "wait" /\ caller = "try"
    BY <1>4 DEF Try
  <2>3. CASE i = 0
    BY <1>1, <1>2, <1>4, <2>1, <2>2, <2>3 DEF Try
  <2>4. CASE i # 0 /\ s # regAddr
    BY <1>1, <1>2, <1>4, <2>1, <2>2, <2>4 DEF Try, TypeOK
  <2>5. CASE i # 0 /\ s = regAddr
    <3>1. doubtful'[s] = doubtful[s] \cup may
      BY <1>1, <1>4, <2>5 DEF Try, TypeOK
    <3>2. doubtful'[s] = may /\ regs[s] \in may
      BY <1>2, <2>5, <3>1
    <3> QED
      BY <2>2, <3>2
  <2> QED
    BY <2>3, <2>4, <2>5
<1>5. CASE GiveUp
  <2>1. UNCHANGED <<cwr, crd, ring, reader, requests, answers, regs>>
    BY <1>5 DEF GiveUp, ringVars, lineVars
  <2>2. Held(s)' = Held(s)
    BY <2>1, KeepsOwed DEF top
  <2>3. s # regAddr' /\ caller' = "idle"
    BY <1>5, RegisterAssumption DEF GiveUp, Leave, RegisterAssumption
  <2>4. doubtful'[s] = IF s = regAddr THEN doubtful[s] \cup may ELSE doubtful[s]
    BY <1>5 DEF GiveUp, TypeOK
  <2> QED
    BY <1>2, <2>1, <2>2, <2>3, <2>4
<1>6. CASE Answered
  <2>1. Held(s)' = Held(s) - (IF ring[Slot(crd)] \in AnswersOf(s) THEN 1 ELSE 0)
    BY <1>6, ReadOwes DEF Answered, lineVars
  <2>2. ring[Slot(crd)] \in AnswersOf(regAddr)
    BY <1>6, ReadIsKnown DEF PortInv
  <2>3. ring[Slot(crd)] \in AnswersOf(s) <=> s = regAddr
    BY <2>2 DEF AnswersOf
  <2>4. s # regAddr' /\ caller' = "idle" /\ UNCHANGED <<regs, doubtful>>
    BY <1>6, RegisterAssumption DEF Answered, Leave, RegisterAssumption, lineVars
  <2>5. s = regAddr => Held(s) # 0
    <3>1. crd \in crd .. (top - 1)
      BY <1>6 DEF TypeOK, Answered, HasAnswer, top
    <3> QED
      BY <2>3, <3>1, AboutIsHeld
  <2> QED
    BY <1>1, <1>2, <2>1, <2>3, <2>4, <2>5
<1>7. CASE OlderAnswer
  <2>1. Held(s)' = Held(s) - (IF ring[Slot(crd)] \in AnswersOf(s) THEN 1 ELSE 0)
    BY <1>7, ReadOwes DEF OlderAnswer, lineVars
  <2>2. Held(s) = 0 => ring[Slot(crd)] \notin AnswersOf(s)
    <3>1. crd \in crd .. (top - 1)
      BY <1>7 DEF TypeOK, OlderAnswer, HasAnswer, top
    <3> QED
      BY <3>1, AboutIsHeld
  <2>3. do_write' = FALSE /\ UNCHANGED <<regs, doubtful, may, regAddr>>
    BY <1>7 DEF OlderAnswer, lineVars, portVars
  <2> QED
    BY <1>1, <1>2, <2>1, <2>2, <2>3
<1>8. ASSUME NEW r \in Registers, Call(r)
      PROVE  /\ doubtful'[s] # {} => regs'[s] \in doubtful'[s]
             /\ s = regAddr' => regs'[s] \in may' /\ doubtful'[s] \in {{}, may'}
             /\ doubtful'[s] = {} => Held(s)' = 0
  <2>1. Held(s)' \in Nat /\ Held(s)' <= Held(s) /\ (Quiet => Held(s)' = 0)
    BY <1>8, CallOwes
  <2>2. s # regAddr
    BY <1>8, RegisterAssumption DEF Call, TypeOK, RegisterAssumption
  <2>3. regAddr' = r /\ regs' = regs /\ may' = {regs[r]} \cup doubtful'[r]
    BY <1>8 DEF Call, lineVars
  <2>4. CASE Quiet
    <3>1. doubtful'[s] = {}
      BY <1>8, <2>4 DEF Call
    <3> QED
      BY <2>1, <2>3, <2>4, <3>1
  <2>5. CASE ~Quiet
    <3>1. doubtful' = doubtful
      BY <1>8, <2>5 DEF Call
    <3>2. s = r => doubtful'[s] \in {{}, may'} /\ regs'[s] \in may'
      BY <1>2, <2>3, <3>1
    <3> QED
      BY <1>1, <1>2, <2>1, <2>2, <2>3, <3>1, <3>2
  <2> QED
    BY <2>4, <2>5
<1>9. ASSUME NEW r \in Registers, NEW v \in Values, WriteRegister(r, v)
      PROVE  /\ UNCHANGED <<doubtful, regs, may, callVars>> /\ Held(s)' = Held(s)
  BY <1>9, WriteOwes DEF WriteRegister, portVars
<1>10. CASE ServeRead
  <2>1. Held(s)' = Held(s)
    BY <1>10, ServeOwes DEF Board
  <2> QED
    BY <1>2, <1>10, <2>1 DEF ServeRead, callVars, portVars
<1>11. CASE ServeWrite
  <2>1. Held(s)' = Held(s)
    BY <1>11, ServeOwes DEF Board
  <2>2. PICK r \in Registers, v \in Values :
          /\ regs' = [regs EXCEPT ![r] = v]
          /\ may' = IF regAddr = r THEN may \cup {v} ELSE may
          /\ doubtful' = [doubtful EXCEPT ![r] = IF @ = {} THEN {} ELSE @ \cup {v}]
    <3> DEFINE e == Head(requests)
    <3>1. e \in Requests
      BY <1>11, FirstAndRest DEF ServeWrite, TypeOK
    <3>2. e.addr \in Registers /\ e.data \in Values
      BY <3>1 DEF Requests
    <3>3. /\ regs' = [regs EXCEPT ![e.addr] = e.data]
          /\ may' = IF regAddr = e.addr THEN may \cup {e.data} ELSE may
          /\ doubtful' = [doubtful EXCEPT ![e.addr] = IF @ = {} THEN {} ELSE @ \cup {e.data}]
      BY <1>11 DEF ServeWrite
    <3> QED
      BY <3>2, <3>3
  <2>3. UNCHANGED callVars
    BY <1>11 DEF ServeWrite
  <2>4. CASE s # r
    <3>1. regs'[s] = regs[s] /\ doubtful'[s] = doubtful[s] /\ (s = regAddr => may' = may)
      BY <2>2, <2>4 DEF TypeOK
    <3> QED
      BY <1>2, <2>1, <2>3, <3>1 DEF callVars
  <2>5. CASE s = r
    <3>1. /\ regs'[s] = v /\ (s = regAddr => may' = may \cup {v})
          /\ doubtful'[s] = IF doubtful[s] = {} THEN {} ELSE doubtful[s] \cup {v}
      BY <2>2, <2>5 DEF TypeOK
    <3>2. s = regAddr => doubtful'[s] \in {{}, may'}
      BY <1>2, <3>1
    <3> QED
      BY <1>2, <2>1, <2>3, <3>1, <3>2 DEF callVars
  <2> QED
    BY <2>4, <2>5
<1>12. CASE LoseRequest \/ DecodeAnswer \/ LoseAnswer
  <2>1. ~LoseRequest => cwr - crd < QSize
    BY <1>12, RoomInRing DEF DecodeAnswer, LoseAnswer
  <2>2. Held(s)' \in Nat /\ Held(s)' <= Held(s)
    BY <1>1, <1>12, <2>1, LoseRequestOwes, DecodeOwes, LoseAnswerOwes
  <2>3. UNCHANGED <<callVars, regs, portVars>>
    BY <1>12 DEF LoseRequest, DecodeAnswer, LoseAnswer
  <2> QED
    BY <1>1, <1>2, <2>2, <2>3 DEF callVars, portVars
<1>13. CASE SendCommandResponse
  <2>1. Held(s)' = Held(s)
    BY <1>13, KeepsOwed DEF SendCommandResponse, top, lineVars, TypeOK
  <2> QED
    BY <1>2, <1>13, <2>1 DEF SendCommandResponse, Signalled, MutexFree, lineVars, portVars
<1> QED
  BY <1>2, <1>3, <1>4, <1>5, <1>6, <1>7, <1>8, <1>9, <1>10, <1>11, <1>12, <1>13
     DEF Next, Configurer, Board, callVars

\* What is about stays known.
LEMMA ValueStep ==
    ASSUME RingFits, TypeOK, TryInv, OwedInv, PortInv, DoubtInv', [Next]_vars
    PROVE  ValueInv'
<1>1. ASSUME KnownAnswers \subseteq KnownAnswers',
             top' = top, crd' \in crd .. top, UNCHANGED <<ring, answers>>
      PROVE  ValueInv'
  <2>1. \A n \in crd' .. (top' - 1) : n \in crd .. (top - 1)
    BY <1>1, OwedType DEF TypeOK
  <2>2. \A n \in crd .. (top - 1) : ring'[Slot(n)] \in KnownAnswers'
    BY <1>1 DEF PortInv, ValueInv
  <2>3. \A k \in 1 .. Len(answers') : answers'[k] \in KnownAnswers'
    BY <1>1 DEF PortInv, ValueInv
  <2> QED
    BY <2>1, <2>2, <2>3 DEF ValueInv, Slot
<1>2. ASSUME UNCHANGED <<regAddr, may, doubtful>>
      PROVE  KnownAnswers' = KnownAnswers
  BY <1>2 DEF KnownAnswers, Known
<1>3. top \in Nat /\ crd \in Nat /\ crd <= top /\ cwr \in Nat /\ crd <= cwr
  BY OwedType DEF TypeOK
<1>4. CASE \/ AfterTimeout \/ WokenForNothing \/ Expire \/ SpuriousWakeup \/ LoseRequest
           \/ OlderAnswer \/ UNCHANGED vars \/ SendCommandResponse
           \/ \E r \in Registers, v \in Values : WriteRegister(r, v)
  <2>1. UNCHANGED <<regAddr, may, doubtful, ring, answers>>
    BY <1>4 DEF AfterTimeout, WokenForNothing, Expire, SpuriousWakeup, LoseRequest, OlderAnswer,
                vars, callVars, ringVars, lineVars, portVars, SendCommandResponse, WriteRegister
  <2>2. top' = top /\ crd' \in crd .. top
    <3>1. CASE OlderAnswer
      BY <1>3, <3>1 DEF OlderAnswer, HasAnswer, top
    <3>2. CASE SendCommandResponse
      BY <1>3, <3>2 DEF SendCommandResponse, top
    <3>3. CASE ~OlderAnswer /\ ~SendCommandResponse
      <4>1. UNCHANGED <<cwr, crd, reader>>
        BY <1>4, <3>3 DEF AfterTimeout, WokenForNothing, Expire, SpuriousWakeup, LoseRequest,
                vars, ringVars, WriteRegister
      <4> QED
        BY <1>3, <4>1 DEF top
    <3> QED
      BY <3>1, <3>2, <3>3
  <2> QED
    BY <1>1, <1>2, <2>1, <2>2
<1>5. CASE Try
  <2>1. KnownAnswers \subseteq KnownAnswers'
    BY <1>5 DEF Try, KnownAnswers, Known, TypeOK
  <2> QED
    BY <1>1, <1>3, <1>5, <2>1 DEF Try, ringVars, top
<1>6. CASE GiveUp
  <2>1. ASSUME NEW e \in Answers, e.data \in Known(e.addr)
        PROVE  e.data \in Known(e.addr)'
    <3>1. e.addr \in Registers
      BY DEF Answers
    <3>2. e.addr # regAddr'
      BY <1>6, <3>1, RegisterAssumption DEF GiveUp, Leave, RegisterAssumption
    <3>3. doubtful'[e.addr] = IF e.addr = regAddr THEN doubtful[e.addr] \cup may
                              ELSE doubtful[e.addr]
      BY <1>6, <3>1 DEF GiveUp, TypeOK
    <3> QED
      BY <2>1, <3>2, <3>3 DEF Known
  <2>2. KnownAnswers \subseteq KnownAnswers'
    BY <2>1 DEF KnownAnswers
  <2> QED
    BY <1>1, <1>3, <1>6, <2>2 DEF GiveUp, ringVars, lineVars, top
<1>7. CASE ServeWrite
  <2>1. KnownAnswers \subseteq KnownAnswers'
    BY <1>7 DEF ServeWrite, KnownAnswers, Known, TypeOK, callVars
  <2> QED
    BY <1>1, <1>3, <1>7, <2>1 DEF ServeWrite, ringVars, top
<1>8. CASE ServeRead
  <2> DEFINE a == [addr |-> Head(requests).addr, data |-> regs[Head(requests).addr]]
  <2>1. a \in KnownAnswers /\ KnownAnswers' = KnownAnswers
    BY <1>2, <1>8, ServedIsKnown DEF PortInv, ServeRead, callVars, portVars
  <2>2. answers' = Append(answers, a) /\ UNCHANGED <<ringVars>> /\ answers \in Seq(Answers)
        /\ a \in Answers
    BY <1>8, <2>1 DEF ServeRead, TypeOK, KnownAnswers
  <2> HIDE DEF a
  <2>3. \A k \in 1 .. Len(answers') : answers'[k] \in KnownAnswers
    BY <2>1, <2>2, AppendProperties, LenProperties DEF PortInv, ValueInv
  <2>4. \A n \in crd' .. (top' - 1) : ring'[Slot(n)] \in KnownAnswers
    BY <2>2 DEF PortInv, ValueInv, ringVars, top
  <2> QED
    BY <2>1, <2>3, <2>4 DEF ValueInv, Slot
<1>9. ASSUME answers # << >>
      PROVE  /\ Head(answers) \in KnownAnswers
             /\ \A k \in 1 .. Len(Tail(answers)) : Tail(answers)[k] \in KnownAnswers
  <2>1. /\ answers \in Seq(Answers) /\ Len(answers) \in Nat /\ Len(answers) >= 1
        /\ Head(answers) = answers[1] /\ Len(Tail(answers)) = Len(answers) - 1
        /\ \A k \in 1 .. Len(Tail(answers)) : Tail(answers)[k] = answers[k + 1]
    BY <1>9, HeadTailProperties, EmptySeq DEF TypeOK
  <2> QED
    BY <2>1 DEF PortInv, ValueInv
<1>10. CASE DecodeAnswer \/ LoseAnswer
  <2>1. cwr - crd < QSize
    BY <1>10, RoomInRing DEF DecodeAnswer, LoseAnswer
  <2>2. KnownAnswers' = KnownAnswers
    BY <1>2, <1>10 DEF DecodeAnswer, LoseAnswer, callVars, portVars
  <2>3. \A k \in 1 .. Len(answers') : answers'[k] \in KnownAnswers
    BY <1>9, <1>10 DEF DecodeAnswer, LoseAnswer
  <2>4. \A n \in crd .. (cwr - 1) : ring'[Slot(n)] = ring[Slot(n)]
    BY <1>10, <2>1, UnreadSlotKept DEF DecodeAnswer, LoseAnswer
  <2>5. \A n \in crd .. (cwr - 1) : ring'[Slot(n)] \in KnownAnswers
    BY <1>3, <1>10, <2>4 DEF DecodeAnswer, LoseAnswer, PortInv, ValueInv, top
  <2>6. \A n \in crd' .. (top' - 1) : ring'[Slot(n)] \in KnownAnswers
    <3>1. CASE LoseAnswer
      BY <2>5, <3>1 DEF LoseAnswer, top
    <3>2. CASE DecodeAnswer
      <4>1. ring'[Slot(cwr)] = Head(answers)
        BY <1>3, <3>2, SlotType DEF DecodeAnswer, TypeOK
      <4>2. crd' = crd /\ top' = cwr + 1
        BY <3>2 DEF DecodeAnswer, top
      <4> QED
        BY <1>3, <1>9, <2>5, <3>2, <4>1, <4>2 DEF DecodeAnswer
    <3> QED
      BY <1>10, <3>1, <3>2
  <2> QED
    BY <2>2, <2>3, <2>6 DEF ValueInv, Slot
<1>11. CASE Answered
  <2>1. TypeOK'
    BY TypeStep
  <2>2. (TypeOK => \A s \in Registers : Held(s) = 0 =>
           /\ \A n \in crd .. (top - 1) : ring[Slot(n)] \notin AnswersOf(s)
           /\ \A k \in 1 .. Len(answers) : answers[k] \notin AnswersOf(s)
           /\ \A k \in 1 .. Len(requests) : requests[k] \notin ReadsOf(s))'
    BY AboutIsHeld, PTL
  <2>3. ASSUME NEW e \in KnownAnswers, \A s \in Registers : Held(s)' = 0 => e \notin AnswersOf(s)
        PROVE  e \in KnownAnswers'
    <3> DEFINE s == e.addr
    <3>1. e \in Answers /\ s \in Registers /\ e.data \in Known(s) /\ e \in AnswersOf(s)
      BY DEF KnownAnswers, Answers, AnswersOf
    <3>2. Held(s)' # 0 /\ s # regAddr' /\ doubtful' = doubtful
      BY <1>11, <2>3, <3>1, RegisterAssumption DEF Answered, Leave, RegisterAssumption
    <3>3. doubtful[s] # {}
      BY <3>1, <3>2 DEF DoubtInv
    <3>4. e.data \in doubtful[s]
      BY <3>1, <3>3 DEF Known, PortInv, DoubtInv
    <3> QED
      BY <3>1, <3>2, <3>4 DEF KnownAnswers, Known
  <2>4. /\ crd' = crd + 1 /\ top' = top /\ UNCHANGED <<ring, answers>>
    BY <1>11 DEF Answered, lineVars, top
  <2>5. \A n \in crd' .. (top' - 1) : ring'[Slot(n)] \in KnownAnswers
    BY <1>3, <2>4 DEF PortInv, ValueInv
  <2>6. \A n \in crd' .. (top' - 1) : ring'[Slot(n)] \in KnownAnswers'
    <3> TAKE n \in crd' .. (top' - 1)
    <3>1. \A s \in Registers : Held(s)' = 0 => ring'[Slot(n)] \notin AnswersOf(s)
      BY <2>1, <2>2 DEF Slot, AnswersOf
    <3> QED
      BY <2>3, <2>5, <3>1
  <2>7. \A k \in 1 .. Len(answers') : answers'[k] \in KnownAnswers'
    <3> TAKE k \in 1 .. Len(answers')
    <3>1. \A s \in Registers : Held(s)' = 0 => answers'[k] \notin AnswersOf(s)
      BY <2>1, <2>2 DEF AnswersOf
    <3> QED
      BY <2>3, <2>4, <3>1 DEF PortInv, ValueInv
  <2> QED
    BY <2>6, <2>7 DEF ValueInv, Slot
<1>12. ASSUME NEW r \in Registers, Call(r)
       PROVE  ValueInv'
  <2>1. crd' = cwr /\ top' = top /\ UNCHANGED <<ring, answers, reader, cwr>>
    BY <1>12 DEF Call, lineVars, top
  <2>2. CASE Quiet
    <3>1. crd' > top' - 1 /\ Len(answers') = 0
      BY <1>3, <2>1, <2>2, EmptySeq DEF Quiet, top
    <3> QED
      BY <1>3, <2>1, <3>1 DEF ValueInv
  <2>3. CASE ~Quiet
    <3>1. KnownAnswers \subseteq KnownAnswers'
      BY <1>12, <2>3, RegisterAssumption
         DEF Call, KnownAnswers, Known, Answers, TypeOK, RegisterAssumption
    <3> QED
      BY <1>1, <1>3, <2>1, <3>1 DEF top
  <2> QED
    BY <2>2, <2>3
<1> QED
  BY <1>4, <1>5, <1>6, <1>7, <1>8, <1>10, <1>11, <1>12 DEF Next, Configurer, Board

-----------------------------------------------------------------------------
(* The protocol implements the register port.                              *)

LEMMA InitImplements == Init => RP!Init
<1> SUFFICES ASSUME Init PROVE RP!Init
  OBVIOUS
<1>1. regs \in [Registers -> Values]
  BY RegisterAssumption DEF Init, RegisterAssumption
<1> QED
  BY <1>1 DEF Init, RP!Init

\* Each step is one of the port, or none.
LEMMA StepImplements ==
    ASSUME RingFits, TypeOK, OwedInv, PortInv, [Next]_vars
    PROVE  [RP!Next]_(RP!vars)
<1> USE DEF RP!vars
<1>1. \A r \in Registers : r # NoRegister
  BY RegisterAssumption DEF RegisterAssumption
<1>2. ASSUME NEW r \in Registers, Call(r)
      PROVE  RP!Begin(r)
  BY <1>2 DEF Call, TypeOK, RP!Begin, RP!NothingDoubtful, lineVars
<1>3. CASE Try
  <2>1. CASE do_write /\ i > 0
    <3>1. RP!Repeat
      BY <1>1, <1>3, <2>1 DEF Try, TypeOK, RP!Repeat
    <3> QED
      BY <3>1 DEF RP!Next
  <2>2. CASE ~(do_write /\ i > 0)
    BY <1>3, <2>2 DEF Try
  <2> QED
    BY <2>1, <2>2
<1>4. CASE GiveUp
  <2>1. RP!GiveUp
    BY <1>1, <1>4 DEF GiveUp, Leave, TypeOK, RP!GiveUp, lineVars
  <2> QED
    BY <2>1 DEF RP!Next
<1>5. CASE Answered
  <2> DEFINE v == ring[Slot(crd)].data
  <2>1. v \in may
    BY <1>5, ReadIsKnown DEF PortInv
  <2>2. v \in Values /\ regAddr # NoRegister
    BY <1>1, <1>5, <2>1 DEF TypeOK, Answered
  <2>3. RP!Return(v)
    BY <1>5, <2>1, <2>2 DEF Answered, Leave, RP!Return, lineVars
  <2> QED
    BY <2>2, <2>3 DEF RP!Next
<1>6. CASE ServeWrite
  <2> DEFINE e == Head(requests)
  <2>1. e \in Requests
    BY <1>6, FirstAndRest DEF ServeWrite, TypeOK
  <2>2. e.addr \in Registers /\ e.data \in Values
    BY <2>1 DEF Requests
  <2>3. RP!Put(e.addr, e.data)
    BY <1>6 DEF ServeWrite, RP!Put, callVars
  <2> QED
    BY <2>2, <2>3 DEF RP!Next
<1>7. CASE \/ AfterTimeout \/ WokenForNothing \/ OlderAnswer \/ Expire \/ SpuriousWakeup
           \/ \E r \in Registers, v \in Values : WriteRegister(r, v)
           \/ ServeRead \/ LoseRequest \/ DecodeAnswer \/ LoseAnswer \/ SendCommandResponse
           \/ UNCHANGED vars
  BY <1>7 DEF AfterTimeout, WokenForNothing, OlderAnswer, Expire, SpuriousWakeup, WriteRegister,
     ServeRead, LoseRequest, DecodeAnswer, LoseAnswer, SendCommandResponse,
     vars, callVars, ringVars, lineVars, portVars
<1> QED
  BY <1>2, <1>3, <1>4, <1>5, <1>6, <1>7 DEF Next, Configurer, Board, RP!Next

\* What a read returns is a value its register has had since the read began,
\* or, after a repeated request, since the read before it began: whatever is
\* lost or late, answers that nobody waited for and answers for other
\* registers never come out as the value of this one.  All that until timeouts
\* that came early and spurious wakeups are as many as the ring has slots.
THEOREM ReadsImplementPort == Spec => ImplementsPort
<1>1. TypeOK /\ TryInv /\ OwedInv /\ PortFits /\ [Next]_vars => PortFits'
  <2> SUFFICES ASSUME TypeOK, TryInv, OwedInv, PortFits, [Next]_vars, RingFits'
               PROVE  PortInv'
    BY DEF PortFits
  <2>1. CASE Fresh
    BY <2>1, FreshPort
  <2>2. CASE ~Fresh
    <3>1. RingFits /\ PortInv
      BY <2>2, TroubleGrows DEF PortFits
    <3>2. DoubtInv'
      BY <2>2, <3>1, DoubtStep
    <3> QED
      BY <3>1, <3>2, ValueStep DEF PortInv
  <2> QED
    BY <2>1, <2>2
<1>2. TypeOK /\ OwedInv /\ PortFits /\ [Next]_vars => [RingFits => RP!Next]_(RP!vars)
  BY StepImplements DEF PortFits
<1>3. Spec => [](TypeOK /\ TryInv /\ OwedInv /\ PortFits)
  <2>1. Init => PortFits
    BY InitPort DEF PortFits
  <2> QED
    BY <2>1, OwedCorrect, <1>1, PTL DEF Spec
<1> QED
  BY InitImplements, <1>2, <1>3, PTL DEF Spec, ImplementsPort

=============================================================================
