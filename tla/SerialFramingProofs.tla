-------------------------- MODULE SerialFramingProofs --------------------------
(***************************************************************************)
(* What holds of every word, every sample and every line: a word comes out *)
(* of its three bytes as it went in, with its flags; the CRC is that of    *)
(* x16 + x12 + x5 + 1 and finds any damage of a single word;               *)
(* adjustdata computes what its comment says; and Acquire, whatever is     *)
(* sent and damaged, keeps its buffers in order, hands on only frames that *)
(* were sent, in order and once, and loses few.                            *)
(***************************************************************************)
EXTENDS SerialFraming, FiniteSetTheorems, SequenceTheorems, WellFoundedInduction, TLAPS

-----------------------------------------------------------------------------
(* Samples.                                                                *)

Top == 65535        \* of 16 bits, and the number of their values
Wrap == 65536

\* The only facts about the two that are used.
LEMMA SixteenBits == Top \in Int /\ Wrap = Top + 1 /\ Top > 0
BY SMT DEF Top, Wrap

\* What fits into 16 bits is stored unchanged.
LEMMA NoWrap ==
    ASSUME NEW n \in Int, NEW top \in Int, 0 <= n, n <= top
    PROVE  n % (top + 1) = n
BY SMT

\* Whatever the startup script says, the polarity is one of three.
LEMMA PolarityType == \A typed \in Int : Polarity(typed) \in {-1, 0, 1}
BY DEF Polarity

Sample == 0 .. Top

LEMMA NegativeAdjusted ==
    ASSUME NEW ch \in Sample, NEW ps \in Sample
    PROVE  /\ AdjustData(-1, ch, ps) = (IF ps > ch THEN (Top + ch) - ps ELSE Top)
           /\ AdjustData(-1, ch, ps) \in Sample
<1> DEFINE n == IF ps > ch THEN (Top + ch) - ps ELSE Top
<1>1. ch \in Int /\ ps \in Int /\ 0 <= ch /\ 0 <= ps /\ ch <= Top /\ ps <= Top
  BY SixteenBits DEF Sample
<1>2. n \in Int /\ 0 <= n /\ n <= Top
  BY <1>1, SixteenBits
<1>3. n % (Top + 1) = n
  BY <1>2, SixteenBits, NoWrap
<1>4. AdjustData(-1, ch, ps) = n % Wrap
  BY SMT DEF AdjustData, Top, Wrap
<1> QED
  BY <1>2, <1>3, <1>4, SixteenBits DEF Sample

LEMMA PositiveAdjusted ==
    ASSUME NEW ch \in Sample, NEW ps \in Sample
    PROVE  /\ AdjustData(1, ch, ps) = (IF ps < ch THEN ch - ps ELSE 0)
           /\ AdjustData(1, ch, ps) \in Sample
<1> DEFINE n == IF ps < ch THEN ch - ps ELSE 0
<1>1. ch \in Int /\ ps \in Int /\ 0 <= ch /\ 0 <= ps /\ ch <= Top /\ ps <= Top
  BY SixteenBits DEF Sample
<1>2. n \in Int /\ 0 <= n /\ n <= Top
  BY <1>1, SixteenBits
<1>3. n % (Top + 1) = n
  BY <1>2, SixteenBits, NoWrap
<1>4. AdjustData(1, ch, ps) = n % Wrap
  BY SMT DEF AdjustData, Wrap
<1> QED
  BY <1>2, <1>3, <1>4, SixteenBits DEF Sample

\* The comment in adjustdata, with the maximum spelt out.
LEMMA DocumentedValues ==
    ASSUME NEW ch \in Sample, NEW ps \in Sample
    PROVE  /\ DocumentedSample(1, ch, ps) = (IF ps < ch THEN ch - ps ELSE 0)
           /\ DocumentedSample(-1, ch, ps) = (IF ps > ch THEN (Top + ch) - ps ELSE Top)
<1>1. ch \in Int /\ ps \in Int
  BY SixteenBits DEF Sample
<1>2. DocumentedSample(1, ch, ps) = (IF ps < ch THEN ch - ps ELSE 0)
  BY <1>1, SMT DEF DocumentedSample
<1>3. DocumentedSample(-1, ch, ps) = (IF ps > ch THEN (Top + ch) - ps ELSE Top)
  BY <1>1, SMT DEF DocumentedSample, Top
<1> QED
  BY <1>2, <1>3

\* adjustdata computes what its comment says, for every sample, and the
\* 16 bits it stores never wrap; polarity 0 leaves the channel as it is.
THEOREM AdjustedAsDocumented ==
    \A typed \in Int, ch \in Sample, ps \in Sample :
        LET p == Polarity(typed)
        IN  /\ AdjustData(p, ch, ps) = IF p = 0 THEN ch ELSE DocumentedSample(p, ch, ps)
            /\ AdjustData(p, ch, ps) \in Sample
<1> SUFFICES ASSUME NEW typed \in Int, NEW ch \in Sample, NEW ps \in Sample,
                    NEW p \in {-1, 0, 1}
             PROVE  /\ AdjustData(p, ch, ps) = IF p = 0 THEN ch ELSE DocumentedSample(p, ch, ps)
                    /\ AdjustData(p, ch, ps) \in Sample
  BY PolarityType
<1>1. CASE p = 0
  BY <1>1 DEF AdjustData
<1>2. CASE p = 1
  <2>1. AdjustData(1, ch, ps) = DocumentedSample(1, ch, ps) /\ AdjustData(1, ch, ps) \in Sample
    BY PositiveAdjusted, DocumentedValues
  <2>2. p # 0
    BY <1>2
  <2> QED
    BY <1>2, <2>1, <2>2, Zenon
<1>3. CASE p = -1
  <2>1. AdjustData(-1, ch, ps) = DocumentedSample(-1, ch, ps) /\ AdjustData(-1, ch, ps) \in Sample
    BY NegativeAdjusted, DocumentedValues
  <2>2. p # 0
    BY <1>3
  <2> QED
    BY <1>3, <2>1, <2>2, Zenon
<1> QED
  BY <1>1, <1>2, <1>3

-----------------------------------------------------------------------------
(* Words in bytes.                                                         *)

\* The bytes of a word, spelt out.
LEMMA PackedBytes ==
    ASSUME NEW w \in Word, NEW flags \in SUBSET {4, 5, 6}
    PROVE  /\ PackWord(w, flags)[1] = {7} \cup flags \cup (w \cap 0..3)
           /\ PackWord(w, flags)[2] = {k - 4 : k \in w \cap 4..9}
           /\ PackWord(w, flags)[3] = {6} \cup {k - 10 : k \in w \cap 10..15}
BY DEF PackWord

\* A word goes over the line in three bytes that tell where they belong, and
\* comes out as it went in, whatever the word and its flags.
THEOREM WordsComeBack ==
    \A w \in Word, flags \in SUBSET {4, 5, 6} :
        LET b == PackWord(w, flags)
        IN  /\ FIRST(b[1]) /\ SECOND(b[2]) /\ THIRD(b[3])
            /\ UnpackWord(b[1], b[2], b[3]) = w
            /\ SOFR(b[1]) <=> 6 \in flags
            /\ EOFR(b[1]) <=> 5 \in flags
            /\ COMMAND(b[1]) <=> 4 \in flags
<1> SUFFICES ASSUME NEW w \in Word, NEW flags \in SUBSET {4, 5, 6}, NEW b,
                    b = PackWord(w, flags)
             PROVE  /\ FIRST(b[1]) /\ SECOND(b[2]) /\ THIRD(b[3])
                    /\ UnpackWord(b[1], b[2], b[3]) = w
                    /\ SOFR(b[1]) <=> 6 \in flags
                    /\ EOFR(b[1]) <=> 5 \in flags
                    /\ COMMAND(b[1]) <=> 4 \in flags
  OBVIOUS
<1>1. /\ b[1] = {7} \cup flags \cup (w \cap 0..3)
      /\ b[2] = {k - 4 : k \in w \cap 4..9}
      /\ b[3] = {6} \cup {k - 10 : k \in w \cap 10..15}
  BY PackedBytes
<1>2. FIRST(b[1]) /\ SECOND(b[2]) /\ THIRD(b[3])
  <2>1. \A k \in b[2] : k \in 0..5
    BY <1>1
  <2>2. \A k \in b[3] : k = 6 \/ k \in 0..5
    BY <1>1
  <2> QED
    BY <1>1, <2>1, <2>2 DEF FIRST, SECOND, THIRD
<1>3. /\ SOFR(b[1]) <=> 6 \in flags
      /\ EOFR(b[1]) <=> 5 \in flags
      /\ COMMAND(b[1]) <=> 4 \in flags
  BY <1>1 DEF SOFR, EOFR, COMMAND
<1>4. b[1] \cap 0..3 = w \cap 0..3
  BY <1>1
<1>5. {k + 4 : k \in b[2] \cap 0..5} = w \cap 4..9
  <2>1. \A k \in {j + 4 : j \in b[2] \cap 0..5} : k \in w \cap 4..9
    BY <1>1
  <2>2. ASSUME NEW k \in w \cap 4..9
        PROVE  k \in {j + 4 : j \in b[2] \cap 0..5}
    <3>1. k - 4 \in b[2] \cap 0..5 /\ k = (k - 4) + 4
      BY <1>1
    <3> QED
      BY <3>1
  <2> QED
    BY <2>1, <2>2
<1>6. {k + 10 : k \in b[3] \cap 0..5} = w \cap 10..15
  <2>1. \A k \in {j + 10 : j \in b[3] \cap 0..5} : k \in w \cap 10..15
    BY <1>1
  <2>2. ASSUME NEW k \in w \cap 10..15
        PROVE  k \in {j + 10 : j \in b[3] \cap 0..5}
    <3>1. k - 10 \in b[3] \cap 0..5 /\ k = (k - 10) + 10
      BY <1>1
    <3> QED
      BY <3>1
  <2> QED
    BY <2>1, <2>2
<1>7. UnpackWord(b[1], b[2], b[3]) = (w \cap 0..3) \cup (w \cap 4..9) \cup (w \cap 10..15)
  BY <1>4, <1>5, <1>6 DEF UnpackWord
<1>8. w = (w \cap 0..3) \cup (w \cap 4..9) \cup (w \cap 10..15)
  <2>1. \A k \in w : k \in 0..15
    BY DEF Word, Bit
  <2>2. \A k \in 0..15 : k \in 0..3 \/ k \in 4..9 \/ k \in 10..15
    BY SMT
  <2> QED
    BY <2>1, <2>2, Zenon
<1> QED
  BY <1>2, <1>3, <1>7, <1>8

-----------------------------------------------------------------------------
(* Induction and recursion, over sets and functions instead of operators.  *)

LEMMA Induction ==
    ASSUME NEW S, 0 \in S, \A n \in Nat : n \in S => n + 1 \in S
    PROVE  Nat \subseteq S
<1> DEFINE Bad == Nat \ S
<1>1. SUFFICES ASSUME Bad # {}
               PROVE  FALSE
  OBVIOUS
<1>2. \E k \in Bad : \A n \in Bad : ~(<<n, k>> \in OpToRel(<, Nat))
  BY <1>1, Bad \subseteq Nat, NatLessThanWellFounded, WFMin, Zenon
<1>3. PICK k \in Bad : \A n \in Bad : ~(<<n, k>> \in OpToRel(<, Nat))
  BY <1>2
<1>4. OpToRel(<, Nat) = {p \in Nat \X Nat : p[1] < p[2]}
  BY Zenon DEF OpToRel
<1>5. k \in Nat /\ k # 0 /\ k - 1 \in Nat /\ k - 1 < k
  OBVIOUS
<1>6. <<k - 1, k>> \in OpToRel(<, Nat)
  BY <1>4, <1>5
<1>7. k - 1 \in S
  BY <1>3, <1>5, <1>6
<1> QED
  BY <1>5, <1>7

\* step maps a value in S, and the number of the step, to the next.
IsStep(step, m, S) == step \in [S \X (1 .. m) -> S]

\* f is what the steps make of s0.
Follows(f, s0, step, m, S) ==
    /\ f \in [0 .. m -> S]
    /\ f[0] = s0
    /\ \A n \in 1 .. m : f[n] = step[<<f[n - 1], n>>]

\* A function on 0 .. m may be defined by its first value and a step.
LEMMA Recursion ==
    ASSUME NEW S, NEW s0 \in S, NEW m \in Nat, NEW step, IsStep(step, m, S)
    PROVE  \E f : Follows(f, s0, step, m, S)
<1> DEFINE Good(k, f) == f[0] = s0 /\ \A n \in 1 .. k : f[n] = step[<<f[n - 1], n>>]
           Reached == {k \in Nat : k <= m => \E f \in [0 .. k -> S] : Good(k, f)}
<1> USE DEF IsStep
<1>1. 0 \in Reached
  <2>1. [n \in 0 .. 0 |-> s0] \in [0 .. 0 -> S] /\ Good(0, [n \in 0 .. 0 |-> s0])
    OBVIOUS
  <2> QED
    BY <2>1
<1>2. ASSUME NEW k \in Nat, k \in Reached
      PROVE  k + 1 \in Reached
  <2>1. SUFFICES ASSUME k + 1 <= m
                 PROVE  \E g \in [0 .. k + 1 -> S] : Good(k + 1, g)
    OBVIOUS
  <2>2. PICK f \in [0 .. k -> S] : Good(k, f)
    BY <1>2, <2>1
  <2>3. f[k] \in S /\ k + 1 \in 1 .. m /\ step[<<f[k], k + 1>>] \in S
    BY <2>1
  <2> DEFINE g == [n \in 0 .. k + 1 |-> IF n = k + 1 THEN step[<<f[k], k + 1>>] ELSE f[n]]
  <2>4. g \in [0 .. k + 1 -> S]
    BY <2>3
  <2>5. g[0] = s0
    BY <2>2
  <2>6. ASSUME NEW n \in 1 .. k + 1
        PROVE  g[n] = step[<<g[n - 1], n>>]
    <3>1. CASE n = k + 1
      <4>1. n - 1 = k /\ k \in 0 .. k + 1 /\ k # k + 1
        BY <3>1
      <4>2. g[n] = step[<<f[k], k + 1>>] /\ g[k] = f[k]
        BY <3>1, <4>1
      <4> HIDE DEF g
      <4> QED
        BY <3>1, <4>1, <4>2
    <3>2. CASE n # k + 1
      <4>1. n \in 1 .. k /\ n - 1 \in 0 .. k /\ n - 1 # k + 1 /\ n - 1 \in 0 .. k + 1
        BY <3>2
      <4>2. g[n] = f[n] /\ g[n - 1] = f[n - 1]
        BY <3>2, <4>1
      <4>3. f[n] = step[<<f[n - 1], n>>]
        BY <2>2, <4>1
      <4> HIDE DEF g
      <4> QED
        BY <4>2, <4>3
    <3> QED
      BY <3>1, <3>2
  <2> HIDE DEF g
  <2> QED
    BY <2>4, <2>5, <2>6
<1> HIDE DEF Reached
<1>3. m \in Reached
  BY <1>1, <1>2, Induction
<1>4. PICK f \in [0 .. m -> S] : Good(m, f)
  BY <1>3 DEF Reached
<1> QED
  BY <1>4 DEF Follows

-----------------------------------------------------------------------------
(* The CRC.                                                                *)

Differ(p, q) == ~(p <=> q)

\* Whether the bits of s are odd in number, bit by bit.
OddBits(s) ==
    Differ(0 \in s, Differ(1 \in s, Differ(2 \in s, Differ(3 \in s,
    Differ(4 \in s, Differ(5 \in s, Differ(6 \in s, Differ(7 \in s,
    Differ(8 \in s, Differ(9 \in s, Differ(10 \in s, Differ(11 \in s,
    Differ(12 \in s, Differ(13 \in s, Differ(14 \in s, 15 \in s)))))))))))))))

LEMMA OddNumber ==
    ASSUME NEW s \in Word
    PROVE  Cardinality(s) % 2 = 1 <=> OddBits(s)
<1> DEFINE Low(n) == {k \in s : k < n}
           odd(n) == Cardinality(Low(n)) % 2 = 1
<1>0. s \subseteq Bit /\ \A k \in s : k \in Int /\ 0 <= k /\ k < 16
  BY DEF Word, Bit
<1>1. IsFiniteSet(s)
  <2>1. IsFiniteSet(Bit)
    BY FS_Interval, 0 \in Int, 15 \in Int, Zenon DEF Bit
  <2> QED
    BY <1>0, <2>1, FS_Subset
<1>2. \A n \in 0 .. 16 : IsFiniteSet(Low(n)) /\ Cardinality(Low(n)) \in Nat
  <2>1. \A n \in 0 .. 16 : IsFiniteSet(Low(n))
    BY <1>1, FS_Subset
  <2> HIDE DEF Low
  <2> QED
    BY <2>1, FS_CardinalityType
<1>3. ~odd(0)
  <2>1. Low(0) = {}
    BY <1>0
  <2> QED
    BY <2>1, FS_EmptySet
<1>4. ASSUME NEW n \in 0 .. 15
      PROVE  odd(n + 1) <=> Differ(n \in s, odd(n))
  <2>0. n \in 0 .. 16 /\ n + 1 \in 0 .. 16
    OBVIOUS
  <2>1. CASE n \notin s
    <3>1. Low(n + 1) = Low(n)
      BY <1>0, <2>1
    <3> HIDE DEF Low
    <3> QED
      BY <2>1, <3>1 DEF Differ
  <2>2. CASE n \in s
    <3>1. Low(n + 1) = Low(n) \cup {n} /\ n \notin Low(n)
      <4>1. \A k \in s : k < n + 1 <=> k < n \/ k = n
        BY <1>0
      <4>2. \A k : k \in Low(n + 1) <=> k \in Low(n) \/ k = n
        BY <2>2, <4>1
      <4>3. n \notin Low(n)
        OBVIOUS
      <4> HIDE DEF Low
      <4> QED
        BY <4>2, <4>3
    <3> HIDE DEF Low
    <3>2. Cardinality(Low(n) \cup {n}) = Cardinality(Low(n)) + 1
      BY <1>2, <2>0, <3>1, FS_AddElement
    <3>3. \A m \in Nat : (m + 1) % 2 = 1 <=> ~(m % 2 = 1)
      OBVIOUS
    <3> QED
      BY <1>2, <2>0, <2>2, <3>1, <3>2, <3>3 DEF Differ
  <2> QED
    BY <2>1, <2>2
<1>5. Low(16) = s
  BY <1>0
<1> HIDE DEF odd
<1>6. /\ odd(1) <=> Differ(0 \in s, odd(0))
      /\ odd(2) <=> Differ(1 \in s, odd(1))
      /\ odd(3) <=> Differ(2 \in s, odd(2))
      /\ odd(4) <=> Differ(3 \in s, odd(3))
      /\ odd(5) <=> Differ(4 \in s, odd(4))
      /\ odd(6) <=> Differ(5 \in s, odd(5))
      /\ odd(7) <=> Differ(6 \in s, odd(6))
      /\ odd(8) <=> Differ(7 \in s, odd(7))
      /\ odd(9) <=> Differ(8 \in s, odd(8))
      /\ odd(10) <=> Differ(9 \in s, odd(9))
      /\ odd(11) <=> Differ(10 \in s, odd(10))
      /\ odd(12) <=> Differ(11 \in s, odd(11))
      /\ odd(13) <=> Differ(12 \in s, odd(12))
      /\ odd(14) <=> Differ(13 \in s, odd(13))
      /\ odd(15) <=> Differ(14 \in s, odd(14))
      /\ odd(16) <=> Differ(15 \in s, odd(15))
  <2>1. \A n \in 0 .. 15 : odd(n + 1) <=> Differ(n \in s, odd(n))
    BY <1>4
  <2>2. 0 + 1 = 1 /\ 1 + 1 = 2 /\ 2 + 1 = 3 /\ 3 + 1 = 4 /\ 4 + 1 = 5 /\ 5 + 1 = 6 /\ 6 + 1 = 7 /\ 7 + 1 = 8
        /\ 8 + 1 = 9 /\ 9 + 1 = 10 /\ 10 + 1 = 11 /\ 11 + 1 = 12 /\ 12 + 1 = 13 /\ 13 + 1 = 14 /\ 14 + 1 = 15 /\ 15 + 1 = 16
    OBVIOUS
  <2> QED
    BY <2>1, <2>2
<1>7. odd(16) <=> OddBits(s)
  BY <1>3, <1>6 DEF Differ, OddBits
<1> QED
  BY <1>5, <1>7 DEF odd

\* A register that shifts a word in from the top, bit by bit.  Fed(n) is what
\* step n feeds back.
Shifts(crc, word) ==
    CHOOSE c : c = [i \in 0 .. 16 |->
                       IF i = 0 THEN crc ELSE ShiftIn(c[i - 1], (16 - i) \in word)]

Fed(crc, word, n) == Differ(15 \in Shifts(crc, word)[n - 1], (16 - n) \in word)

LEMMA ShiftInBits ==
    ASSUME NEW crc \in Word, NEW b \in BOOLEAN
    PROVE  /\ ShiftIn(crc, b) \in Word
           /\ \A k \in Bit : k \in ShiftIn(crc, b)
                 <=> Differ(k - 1 \in crc, k \in {0, 5, 12} /\ Differ(15 \in crc, b))
<1> DEFINE shifted == {k + 1 : k \in crc \ {15}}
<1>1. \A k \in crc : k \in 0 .. 15
  BY DEF Word, Bit
<1>2. \A k \in Bit : k \in shifted <=> k - 1 \in crc
  BY <1>1 DEF Bit
<1>3. shifted \subseteq Bit
  BY <1>1 DEF Bit
<1>4. {0, 5, 12} \subseteq Bit
  BY DEF Bit
<1> HIDE DEF shifted
<1>5. ShiftIn(crc, b) = IF Differ(15 \in crc, b) THEN Xor(shifted, {0, 5, 12}) ELSE shifted
  BY DEF ShiftIn, shifted, Differ
<1>6. CASE Differ(15 \in crc, b)
  <2>1. ShiftIn(crc, b) = (shifted \ {0, 5, 12}) \cup ({0, 5, 12} \ shifted)
    BY <1>5, <1>6 DEF Xor
  <2>2. ShiftIn(crc, b) \in Word
    BY <1>3, <1>4, <2>1 DEF Word
  <2>3. \A k : k \in ShiftIn(crc, b) <=> Differ(k \in shifted, k \in {0, 5, 12})
    BY <2>1 DEF Differ
  <2> QED
    BY <1>2, <1>6, <2>2, <2>3 DEF Differ
<1>7. CASE ~Differ(15 \in crc, b)
  <2>1. ShiftIn(crc, b) = shifted
    BY <1>5, <1>7
  <2> QED
    BY <1>2, <1>3, <1>7, <2>1 DEF Word, Differ
<1> QED
  BY <1>6, <1>7

LEMMA ShiftsUnfold ==
    ASSUME NEW crc \in Word, NEW word
    PROVE  LET c == Shifts(crc, word)
           IN  /\ c[0] = crc
               /\ \A n \in 1 .. 16 : c[n] = ShiftIn(c[n - 1], (16 - n) \in word)
               /\ \A n \in 0 .. 16 : c[n] \in Word
<1> DEFINE Next1(v, n) == ShiftIn(v, (16 - n) \in word)
           step == [p \in Word \X (1 .. 16) |-> Next1(p[1], p[2])]
           Eq(f) == f = [n \in 0 .. 16 |-> IF n = 0 THEN crc ELSE Next1(f[n - 1], n)]
<1>1. \A v \in Word : \A n \in 1 .. 16 : Next1(v, n) \in Word
  <2>1. \A n \in 1 .. 16 : ((16 - n) \in word) \in BOOLEAN
    OBVIOUS
  <2> QED
    BY <2>1, ShiftInBits
<1>2. step \in [Word \X (1 .. 16) -> Word]
  <2> HIDE DEF Next1
  <2> QED
    BY <1>1
<1>3. PICK f : Follows(f, crc, step, 16, Word)
  <2>1. IsStep(step, 16, Word)
    BY <1>2 DEF IsStep
  <2> HIDE DEF step
  <2> QED
    BY <2>1, Recursion
<1>4. Eq(f)
  <2>1. ASSUME NEW n \in 1 .. 16
        PROVE  step[<<f[n - 1], n>>] = Next1(f[n - 1], n)
    <3> HIDE DEF Next1
    <3>1. n - 1 \in 0 .. 16
      OBVIOUS
    <3>2. <<f[n - 1], n>> \in Word \X (1 .. 16)
      BY <1>3, <3>1 DEF Follows
    <3> QED
      BY <3>2
  <2> HIDE DEF step, Next1
  <2>2. ASSUME NEW n \in 0 .. 16
        PROVE  f[n] = IF n = 0 THEN crc ELSE Next1(f[n - 1], n)
    <3>1. n # 0 => n \in 1 .. 16
      OBVIOUS
    <3> QED
      BY <1>3, <2>1, <3>1 DEF Follows
  <2>3. f = [n \in 0 .. 16 |-> f[n]]
    BY <1>3 DEF Follows
  <2> QED
    BY <2>2, <2>3
<1> DEFINE c == Shifts(crc, word)
<1>5. Eq(c)
  <2>1. c = CHOOSE g : Eq(g)
    BY DEF Shifts
  <2> HIDE DEF Eq, c
  <2> QED
    BY <1>4, <2>1
<1>6. c[0] = crc /\ \A n \in 1 .. 16 : c[n] = Next1(c[n - 1], n)
  <2> HIDE DEF Next1
  <2>1. \A n \in 1 .. 16 : n \in 0 .. 16 /\ n # 0
    OBVIOUS
  <2> QED
    BY <1>5, <2>1
<1> HIDE DEF c
<1>7. \A n \in 0 .. 16 : c[n] \in Word
  <2> DEFINE Typed == {n \in Nat : n <= 16 => c[n] \in Word}
  <2> HIDE DEF Next1
  <2>1. 0 \in Typed
    BY <1>6
  <2>2. \A n \in Nat : n \in Typed => n + 1 \in Typed
    BY <1>1, <1>6
  <2> HIDE DEF Typed
  <2>3. Nat \subseteq Typed
    BY <2>1, <2>2, Induction
  <2> QED
    BY <2>3 DEF Typed
<1> QED
  BY <1>6, <1>7 DEF c

\* The steps that feed back.
FedSteps(crc, word) == {n \in 1 .. 16 : Fed(crc, word, n)}

\* What is in the register after n steps: bit k was in it n places below, or
\* was fed back at 0, 5 or 12 and has moved up since.
Register(crc, word, n) ==
    \A k \in Bit : k \in Shifts(crc, word)[n] <=>
        LET F == FedSteps(crc, word)
        IN  Differ(k - n \in crc,
            Differ(n - k \in F,
            Differ(k >= 5 /\ n - k + 5 \in F, k >= 12 /\ n - k + 12 \in F)))

LEMMA RegisterHolds ==
    ASSUME NEW crc \in Word, NEW word
    PROVE  \A n \in 0 .. 16 : Register(crc, word, n)
<1> DEFINE c == Shifts(crc, word)
           F == FedSteps(crc, word)
           Right == {n \in Nat : n <= 16 => Register(crc, word, n)}
<1>1. /\ c[0] = crc
      /\ \A n \in 1 .. 16 : c[n] = ShiftIn(c[n - 1], (16 - n) \in word)
      /\ \A n \in 0 .. 16 : c[n] \in Word
  BY ShiftsUnfold
<1>2. F \subseteq 1 .. 16
  BY DEF FedSteps
<1>3. \A k \in crc : k \in Bit
  BY DEF Word
<1>4. 0 \in Right
  <2>1. ASSUME NEW k \in Bit
        PROVE  /\ k - 0 = k /\ 0 - k \notin F
               /\ k >= 5 => 0 - k + 5 \notin F
               /\ k >= 12 => 0 - k + 12 \notin F
    <3> HIDE DEF F
    <3> QED
      BY <1>2 DEF Bit
  <2> QED
    BY <1>1, <2>1 DEF Register, Differ
<1>5. ASSUME NEW n \in Nat, n \in Right
      PROVE  n + 1 \in Right
  <2>1. SUFFICES ASSUME n + 1 <= 16
                 PROVE  Register(crc, word, n + 1)
    OBVIOUS
  <2>2. /\ n \in 0 .. 16 /\ n + 1 \in 1 .. 16 /\ (n + 1) - 1 = n /\ 16 - (n + 1) = 15 - n
        /\ Register(crc, word, n)
    BY <1>5, <2>1
  <2> DEFINE b == (15 - n) \in word
  <2>3. c[n + 1] = ShiftIn(c[n], b) /\ c[n] \in Word /\ b \in BOOLEAN
    BY <1>1, <2>2
  <2>4. n + 1 \in F <=> Differ(15 \in c[n], b)
    BY <2>2 DEF FedSteps, Fed
  <2> HIDE DEF b, c, F
  <2>5. \A k \in Bit : k \in c[n + 1] <=> Differ(k - 1 \in c[n], k \in {0, 5, 12} /\ n + 1 \in F)
    BY <2>3, <2>4, ShiftInBits
  <2>6. SUFFICES ASSUME NEW k \in Bit
                 PROVE  k \in c[n + 1] <=>
                           Differ(k - (n + 1) \in crc,
                           Differ((n + 1) - k \in F,
                           Differ(k >= 5 /\ (n + 1) - k + 5 \in F,
                                  k >= 12 /\ (n + 1) - k + 12 \in F)))
    BY DEF Register, c, F
  <2>7. CASE k = 0
    <3>1. k - 1 \notin Bit /\ k - (n + 1) \notin Bit /\ (n + 1) - k = n + 1
      BY <2>7 DEF Bit
    <3>2. k - 1 \notin c[n] /\ k - (n + 1) \notin crc
      BY <1>3, <2>3, <3>1 DEF Word
    <3> QED
      BY <2>5, <2>7, <3>1, <3>2 DEF Differ
  <2>8. CASE k # 0
    <3>1. /\ k - 1 \in Bit /\ (k - 1) - n = k - (n + 1) /\ n - (k - 1) = (n + 1) - k
          /\ n - (k - 1) + 5 = (n + 1) - k + 5 /\ n - (k - 1) + 12 = (n + 1) - k + 12
      BY <2>8 DEF Bit
    <3>2. k - 1 \in c[n] <=>
             Differ(k - (n + 1) \in crc,
             Differ((n + 1) - k \in F,
             Differ(k - 1 >= 5 /\ (n + 1) - k + 5 \in F,
                    k - 1 >= 12 /\ (n + 1) - k + 12 \in F)))
      BY <2>2, <3>1 DEF Register, c, F
    <3>3. CASE k = 5
      <4>1. (n + 1) - k + 5 = n + 1 /\ ~(k - 1 >= 5) /\ ~(k - 1 >= 12) /\ ~(k >= 12)
        BY <3>3
      <4> QED
        BY <2>5, <3>2, <3>3, <4>1 DEF Differ
    <3>4. CASE k = 12
      <4>1. (n + 1) - k + 12 = n + 1 /\ k - 1 >= 5 /\ ~(k - 1 >= 12) /\ k >= 5
        BY <3>4
      <4> QED
        BY <2>5, <3>2, <3>4, <4>1 DEF Differ
    <3>5. CASE k \notin {5, 12}
      <4>1. (k - 1 >= 5 <=> k >= 5) /\ (k - 1 >= 12 <=> k >= 12) /\ k \notin {0, 5, 12}
        BY <2>8, <3>5 DEF Bit
      <4> QED
        BY <2>5, <3>2, <4>1 DEF Differ
    <3> QED
      BY <3>3, <3>4, <3>5
  <2> QED
    BY <2>7, <2>8
<1> HIDE DEF Right
<1>6. Nat \subseteq Right
  BY <1>4, <1>5, Induction
<1> QED
  BY <1>6 DEF Right

\* What is fed back is what CRC and word differ in, and what was fed back
\* 4 and 11 steps before.
LEMMA FedBack ==
    ASSUME NEW crc \in Word, NEW word, NEW n \in 1 .. 16
    PROVE  LET F == FedSteps(crc, word)
           IN  n \in F <=> Differ(16 - n \in Xor(crc, word), Differ(n - 11 \in F, n - 4 \in F))
<1> DEFINE F == FedSteps(crc, word)
<1>1. n \in F <=> Differ(15 \in Shifts(crc, word)[n - 1], (16 - n) \in word)
  BY DEF FedSteps, Fed
<1>2. Register(crc, word, n - 1)
  BY RegisterHolds
<1>3. /\ 15 \in Bit /\ 15 - (n - 1) = 16 - n /\ (n - 1) - 15 = n - 16
      /\ (n - 1) - 15 + 5 = n - 11 /\ (n - 1) - 15 + 12 = n - 4
  BY DEF Bit
<1>4. n - 16 \notin F
  BY DEF FedSteps
<1> HIDE DEF F
<1>5. 15 \in Shifts(crc, word)[n - 1] <=>
         Differ(16 - n \in crc, Differ(n - 11 \in F, n - 4 \in F))
  <2>1. 15 \in Shifts(crc, word)[n - 1] <=>
           Differ(15 - (n - 1) \in crc,
           Differ((n - 1) - 15 \in F,
           Differ((n - 1) - 15 + 5 \in F, (n - 1) - 15 + 12 \in F)))
    BY <1>2, <1>3 DEF Register, F
  <2> QED
    BY <1>3, <1>4, <2>1 DEF Differ
<1>6. 16 - n \in Xor(crc, word) <=> Differ(16 - n \in crc, 16 - n \in word)
  BY DEF Xor, Differ
<1> QED
  BY <1>1, <1>5, <1>6 DEF Differ, F

\* The steps that feed back, spelt out.
FeedsBack(d, F) ==
    /\ 1 \in F <=> 15 \in d
    /\ 2 \in F <=> 14 \in d
    /\ 3 \in F <=> 13 \in d
    /\ 4 \in F <=> 12 \in d
    /\ 5 \in F <=> Differ(11 \in d, 1 \in F)
    /\ 6 \in F <=> Differ(10 \in d, 2 \in F)
    /\ 7 \in F <=> Differ(9 \in d, 3 \in F)
    /\ 8 \in F <=> Differ(8 \in d, 4 \in F)
    /\ 9 \in F <=> Differ(7 \in d, 5 \in F)
    /\ 10 \in F <=> Differ(6 \in d, 6 \in F)
    /\ 11 \in F <=> Differ(5 \in d, 7 \in F)
    /\ 12 \in F <=> Differ(4 \in d, Differ(1 \in F, 8 \in F))
    /\ 13 \in F <=> Differ(3 \in d, Differ(2 \in F, 9 \in F))
    /\ 14 \in F <=> Differ(2 \in d, Differ(3 \in F, 10 \in F))
    /\ 15 \in F <=> Differ(1 \in d, Differ(4 \in F, 11 \in F))
    /\ 16 \in F <=> Differ(0 \in d, Differ(5 \in F, 12 \in F))

LEMMA AllFedBack ==
    ASSUME NEW crc \in Word, NEW word
    PROVE  FeedsBack(Xor(crc, word), FedSteps(crc, word))
<1> DEFINE d == Xor(crc, word)
           F == FedSteps(crc, word)
<1>1. \A n \in 1 .. 16 : n \in F <=> Differ(16 - n \in d, Differ(n - 11 \in F, n - 4 \in F))
  BY FedBack
<1>2. F \subseteq 1 .. 16
  BY DEF FedSteps
<1>3. \A n \in -15 .. 0 : n \notin F
  BY <1>2
<1> HIDE DEF d, F
<1>4. 1 \in F <=> 15 \in d
  <2>1. 1 \in 1 .. 16 /\ 16 - 1 = 15 /\ 1 - 11 = -10 /\ 1 - 4 = -3
    OBVIOUS
  <2>2. -10 \notin F /\ -3 \notin F
    BY <1>3
  <2> QED
    BY <1>1, <2>1, <2>2 DEF Differ
<1>5. 2 \in F <=> 14 \in d
  <2>1. 2 \in 1 .. 16 /\ 16 - 2 = 14 /\ 2 - 11 = -9 /\ 2 - 4 = -2
    OBVIOUS
  <2>2. -9 \notin F /\ -2 \notin F
    BY <1>3
  <2> QED
    BY <1>1, <2>1, <2>2 DEF Differ
<1>6. 3 \in F <=> 13 \in d
  <2>1. 3 \in 1 .. 16 /\ 16 - 3 = 13 /\ 3 - 11 = -8 /\ 3 - 4 = -1
    OBVIOUS
  <2>2. -8 \notin F /\ -1 \notin F
    BY <1>3
  <2> QED
    BY <1>1, <2>1, <2>2 DEF Differ
<1>7. 4 \in F <=> 12 \in d
  <2>1. 4 \in 1 .. 16 /\ 16 - 4 = 12 /\ 4 - 11 = -7 /\ 4 - 4 = 0
    OBVIOUS
  <2>2. -7 \notin F /\ 0 \notin F
    BY <1>3
  <2> QED
    BY <1>1, <2>1, <2>2 DEF Differ
<1>8. 5 \in F <=> Differ(11 \in d, 1 \in F)
  <2>1. 5 \in 1 .. 16 /\ 16 - 5 = 11 /\ 5 - 11 = -6 /\ 5 - 4 = 1
    OBVIOUS
  <2>2. -6 \notin F
    BY <1>3
  <2> QED
    BY <1>1, <2>1, <2>2 DEF Differ
<1>9. 6 \in F <=> Differ(10 \in d, 2 \in F)
  <2>1. 6 \in 1 .. 16 /\ 16 - 6 = 10 /\ 6 - 11 = -5 /\ 6 - 4 = 2
    OBVIOUS
  <2>2. -5 \notin F
    BY <1>3
  <2> QED
    BY <1>1, <2>1, <2>2 DEF Differ
<1>10. 7 \in F <=> Differ(9 \in d, 3 \in F)
  <2>1. 7 \in 1 .. 16 /\ 16 - 7 = 9 /\ 7 - 11 = -4 /\ 7 - 4 = 3
    OBVIOUS
  <2>2. -4 \notin F
    BY <1>3
  <2> QED
    BY <1>1, <2>1, <2>2 DEF Differ
<1>11. 8 \in F <=> Differ(8 \in d, 4 \in F)
  <2>1. 8 \in 1 .. 16 /\ 16 - 8 = 8 /\ 8 - 11 = -3 /\ 8 - 4 = 4
    OBVIOUS
  <2>2. -3 \notin F
    BY <1>3
  <2> QED
    BY <1>1, <2>1, <2>2 DEF Differ
<1>12. 9 \in F <=> Differ(7 \in d, 5 \in F)
  <2>1. 9 \in 1 .. 16 /\ 16 - 9 = 7 /\ 9 - 11 = -2 /\ 9 - 4 = 5
    OBVIOUS
  <2>2. -2 \notin F
    BY <1>3
  <2> QED
    BY <1>1, <2>1, <2>2 DEF Differ
<1>13. 10 \in F <=> Differ(6 \in d, 6 \in F)
  <2>1. 10 \in 1 .. 16 /\ 16 - 10 = 6 /\ 10 - 11 = -1 /\ 10 - 4 = 6
    OBVIOUS
  <2>2. -1 \notin F
    BY <1>3
  <2> QED
    BY <1>1, <2>1, <2>2 DEF Differ
<1>14. 11 \in F <=> Differ(5 \in d, 7 \in F)
  <2>1. 11 \in 1 .. 16 /\ 16 - 11 = 5 /\ 11 - 11 = 0 /\ 11 - 4 = 7
    OBVIOUS
  <2>2. 0 \notin F
    BY <1>3
  <2> QED
    BY <1>1, <2>1, <2>2 DEF Differ
<1>15. 12 \in F <=> Differ(4 \in d, Differ(1 \in F, 8 \in F))
  <2>1. 12 \in 1 .. 16 /\ 16 - 12 = 4 /\ 12 - 11 = 1 /\ 12 - 4 = 8
    OBVIOUS
  <2> QED
    BY <1>1, <2>1
<1>16. 13 \in F <=> Differ(3 \in d, Differ(2 \in F, 9 \in F))
  <2>1. 13 \in 1 .. 16 /\ 16 - 13 = 3 /\ 13 - 11 = 2 /\ 13 - 4 = 9
    OBVIOUS
  <2> QED
    BY <1>1, <2>1
<1>17. 14 \in F <=> Differ(2 \in d, Differ(3 \in F, 10 \in F))
  <2>1. 14 \in 1 .. 16 /\ 16 - 14 = 2 /\ 14 - 11 = 3 /\ 14 - 4 = 10
    OBVIOUS
  <2> QED
    BY <1>1, <2>1
<1>18. 15 \in F <=> Differ(1 \in d, Differ(4 \in F, 11 \in F))
  <2>1. 15 \in 1 .. 16 /\ 16 - 15 = 1 /\ 15 - 11 = 4 /\ 15 - 4 = 11
    OBVIOUS
  <2> QED
    BY <1>1, <2>1
<1>19. 16 \in F <=> Differ(0 \in d, Differ(5 \in F, 12 \in F))
  <2>1. 16 \in 1 .. 16 /\ 16 - 16 = 0 /\ 16 - 11 = 5 /\ 16 - 4 = 12
    OBVIOUS
  <2> QED
    BY <1>1, <2>1
<1> QED
  BY <1>4, <1>5, <1>6, <1>7, <1>8, <1>9, <1>10, <1>11, <1>12, <1>13, <1>14, <1>15, <1>16, <1>17, <1>18, <1>19 DEF FeedsBack, d, F

\* The register at the end.
LEMMA LastRegister ==
    ASSUME NEW crc \in Word, NEW word
    PROVE  LET F == FedSteps(crc, word)
           IN  /\ PolynomialCrc(crc, word) \in Word
               /\ \A k \in Bit : k \in PolynomialCrc(crc, word) <=>
                     Differ(16 - k \in F, Differ(k >= 5 /\ 21 - k \in F, k >= 12 /\ 28 - k \in F))
<1> DEFINE c == Shifts(crc, word)
           F == FedSteps(crc, word)
<1>1. PolynomialCrc(crc, word) = c[16]
  BY Zenon DEF PolynomialCrc, Shifts
<1>2. c[16] \in Word
  BY ShiftsUnfold, 16 \in 0 .. 16
<1>3. Register(crc, word, 16)
  BY RegisterHolds, 16 \in 0 .. 16
<1>4. ASSUME NEW k \in Bit
      PROVE  k \in c[16] <=> Differ(16 - k \in F, Differ(k >= 5 /\ 21 - k \in F, k >= 12 /\ 28 - k \in F))
  <2>1. k - 16 \notin crc
    BY DEF Word, Bit
  <2>2. 16 - k + 5 = 21 - k /\ 16 - k + 12 = 28 - k
    BY DEF Bit
  <2>3. k \in c[16] <=>
           Differ(k - 16 \in crc,
           Differ(16 - k \in F, Differ(k >= 5 /\ 16 - k + 5 \in F, k >= 12 /\ 16 - k + 12 \in F)))
    BY <1>3 DEF Register
  <2> HIDE DEF c, F
  <2> QED
    BY <2>1, <2>2, <2>3 DEF Differ
<1> QED
  BY <1>1, <1>2, <1>4

\* The bits of the polynomial's CRC, spelt out.
LastBits(p, F) ==
    /\ 0 \in p <=> 16 \in F
    /\ 1 \in p <=> 15 \in F
    /\ 2 \in p <=> 14 \in F
    /\ 3 \in p <=> 13 \in F
    /\ 4 \in p <=> 12 \in F
    /\ 5 \in p <=> Differ(11 \in F, 16 \in F)
    /\ 6 \in p <=> Differ(10 \in F, 15 \in F)
    /\ 7 \in p <=> Differ(9 \in F, 14 \in F)
    /\ 8 \in p <=> Differ(8 \in F, 13 \in F)
    /\ 9 \in p <=> Differ(7 \in F, 12 \in F)
    /\ 10 \in p <=> Differ(6 \in F, 11 \in F)
    /\ 11 \in p <=> Differ(5 \in F, 10 \in F)
    /\ 12 \in p <=> Differ(4 \in F, Differ(9 \in F, 16 \in F))
    /\ 13 \in p <=> Differ(3 \in F, Differ(8 \in F, 15 \in F))
    /\ 14 \in p <=> Differ(2 \in F, Differ(7 \in F, 14 \in F))
    /\ 15 \in p <=> Differ(1 \in F, Differ(6 \in F, 13 \in F))

LEMMA AllLastBits ==
    ASSUME NEW crc \in Word, NEW word
    PROVE  LastBits(PolynomialCrc(crc, word), FedSteps(crc, word))
<1> DEFINE p == PolynomialCrc(crc, word)
           F == FedSteps(crc, word)
<1>1. \A k \in Bit : k \in p
         <=> Differ(16 - k \in F, Differ(k >= 5 /\ 21 - k \in F, k >= 12 /\ 28 - k \in F))
  BY LastRegister
<1> HIDE DEF p, F
<1>2. 0 \in p <=> 16 \in F
  <2>1. 0 \in Bit /\ 16 - 0 = 16 /\ 21 - 0 = 21 /\ 28 - 0 = 28 /\ ~(0 >= 5) /\ ~(0 >= 12)
    BY DEF Bit
  <2> QED
    BY <1>1, <2>1 DEF Differ
<1>3. 1 \in p <=> 15 \in F
  <2>1. 1 \in Bit /\ 16 - 1 = 15 /\ 21 - 1 = 20 /\ 28 - 1 = 27 /\ ~(1 >= 5) /\ ~(1 >= 12)
    BY DEF Bit
  <2> QED
    BY <1>1, <2>1 DEF Differ
<1>4. 2 \in p <=> 14 \in F
  <2>1. 2 \in Bit /\ 16 - 2 = 14 /\ 21 - 2 = 19 /\ 28 - 2 = 26 /\ ~(2 >= 5) /\ ~(2 >= 12)
    BY DEF Bit
  <2> QED
    BY <1>1, <2>1 DEF Differ
<1>5. 3 \in p <=> 13 \in F
  <2>1. 3 \in Bit /\ 16 - 3 = 13 /\ 21 - 3 = 18 /\ 28 - 3 = 25 /\ ~(3 >= 5) /\ ~(3 >= 12)
    BY DEF Bit
  <2> QED
    BY <1>1, <2>1 DEF Differ
<1>6. 4 \in p <=> 12 \in F
  <2>1. 4 \in Bit /\ 16 - 4 = 12 /\ 21 - 4 = 17 /\ 28 - 4 = 24 /\ ~(4 >= 5) /\ ~(4 >= 12)
    BY DEF Bit
  <2> QED
    BY <1>1, <2>1 DEF Differ
<1>7. 5 \in p <=> Differ(11 \in F, 16 \in F)
  <2>1. 5 \in Bit /\ 16 - 5 = 11 /\ 21 - 5 = 16 /\ 28 - 5 = 23 /\ 5 >= 5 /\ ~(5 >= 12)
    BY DEF Bit
  <2> QED
    BY <1>1, <2>1 DEF Differ
<1>8. 6 \in p <=> Differ(10 \in F, 15 \in F)
  <2>1. 6 \in Bit /\ 16 - 6 = 10 /\ 21 - 6 = 15 /\ 28 - 6 = 22 /\ 6 >= 5 /\ ~(6 >= 12)
    BY DEF Bit
  <2> QED
    BY <1>1, <2>1 DEF Differ
<1>9. 7 \in p <=> Differ(9 \in F, 14 \in F)
  <2>1. 7 \in Bit /\ 16 - 7 = 9 /\ 21 - 7 = 14 /\ 28 - 7 = 21 /\ 7 >= 5 /\ ~(7 >= 12)
    BY DEF Bit
  <2> QED
    BY <1>1, <2>1 DEF Differ
<1>10. 8 \in p <=> Differ(8 \in F, 13 \in F)
  <2>1. 8 \in Bit /\ 16 - 8 = 8 /\ 21 - 8 = 13 /\ 28 - 8 = 20 /\ 8 >= 5 /\ ~(8 >= 12)
    BY DEF Bit
  <2> QED
    BY <1>1, <2>1 DEF Differ
<1>11. 9 \in p <=> Differ(7 \in F, 12 \in F)
  <2>1. 9 \in Bit /\ 16 - 9 = 7 /\ 21 - 9 = 12 /\ 28 - 9 = 19 /\ 9 >= 5 /\ ~(9 >= 12)
    BY DEF Bit
  <2> QED
    BY <1>1, <2>1 DEF Differ
<1>12. 10 \in p <=> Differ(6 \in F, 11 \in F)
  <2>1. 10 \in Bit /\ 16 - 10 = 6 /\ 21 - 10 = 11 /\ 28 - 10 = 18 /\ 10 >= 5 /\ ~(10 >= 12)
    BY DEF Bit
  <2> QED
    BY <1>1, <2>1 DEF Differ
<1>13. 11 \in p <=> Differ(5 \in F, 10 \in F)
  <2>1. 11 \in Bit /\ 16 - 11 = 5 /\ 21 - 11 = 10 /\ 28 - 11 = 17 /\ 11 >= 5 /\ ~(11 >= 12)
    BY DEF Bit
  <2> QED
    BY <1>1, <2>1 DEF Differ
<1>14. 12 \in p <=> Differ(4 \in F, Differ(9 \in F, 16 \in F))
  <2>1. 12 \in Bit /\ 16 - 12 = 4 /\ 21 - 12 = 9 /\ 28 - 12 = 16 /\ 12 >= 5 /\ 12 >= 12
    BY DEF Bit
  <2> QED
    BY <1>1, <2>1 DEF Differ
<1>15. 13 \in p <=> Differ(3 \in F, Differ(8 \in F, 15 \in F))
  <2>1. 13 \in Bit /\ 16 - 13 = 3 /\ 21 - 13 = 8 /\ 28 - 13 = 15 /\ 13 >= 5 /\ 13 >= 12
    BY DEF Bit
  <2> QED
    BY <1>1, <2>1 DEF Differ
<1>16. 14 \in p <=> Differ(2 \in F, Differ(7 \in F, 14 \in F))
  <2>1. 14 \in Bit /\ 16 - 14 = 2 /\ 21 - 14 = 7 /\ 28 - 14 = 14 /\ 14 >= 5 /\ 14 >= 12
    BY DEF Bit
  <2> QED
    BY <1>1, <2>1 DEF Differ
<1>17. 15 \in p <=> Differ(1 \in F, Differ(6 \in F, 13 \in F))
  <2>1. 15 \in Bit /\ 16 - 15 = 1 /\ 21 - 15 = 6 /\ 28 - 15 = 13 /\ 15 >= 5 /\ 15 >= 12
    BY DEF Bit
  <2> QED
    BY <1>1, <2>1 DEF Differ
<1> QED
  BY <1>2, <1>3, <1>4, <1>5, <1>6, <1>7, <1>8, <1>9, <1>10, <1>11, <1>12, <1>13, <1>14, <1>15, <1>16, <1>17 DEF LastBits, p, F

\* The table of CRC() is the polynomial x16 + x12 + x5 + 1, which is 0x1021 and
\* not the 0x0421 that its comment also gives, for every CRC and every word: the
\* steps of the polynomial that feed back (FeedsBack) put together are the taps
\* of the table.
THEOREM TableIsPolynomial ==
    \A crc, word \in Word : NextCrc(crc, word) = PolynomialCrc(crc, word)
<1> SUFFICES ASSUME NEW crc \in Word, NEW word \in Word
             PROVE  NextCrc(crc, word) = PolynomialCrc(crc, word)
  OBVIOUS
<1> DEFINE d == Xor(crc, word)
           F == FedSteps(crc, word)
           poly == PolynomialCrc(crc, word)
<1>1. d \in Word
  BY DEF Xor, Word
<1>2. FeedsBack(d, F)
  BY AllFedBack
<1>3. poly \in Word /\ LastBits(poly, F)
  BY LastRegister, AllLastBits
<1>4. NextCrc(crc, word) = {k \in Bit : Cardinality(CrcTaps[k + 1] \cap d) % 2 = 1}
  BY DEF NextCrc
<1> HIDE DEF d, F, poly
<1>5. \A k \in Bit : Cardinality(CrcTaps[k + 1] \cap d) % 2 = 1 <=> OddBits(CrcTaps[k + 1] \cap d)
  <2>1. \A k \in Bit : CrcTaps[k + 1] \cap d \in Word
    BY <1>1 DEF Word
  <2> QED
    BY <2>1, OddNumber
<1>6. 0 \in poly <=> OddBits(CrcTaps[0 + 1] \cap d)
  <2>1. CrcTaps[0 + 1] = {0, 4, 8, 11, 12}
    BY DEF CrcTaps
  <2>2. OddBits(CrcTaps[0 + 1] \cap d) <=> Differ(0 \in d, Differ(4 \in d, Differ(8 \in d, Differ(11 \in d, 12 \in d))))
    BY <2>1 DEF OddBits, Differ
  <2> QED
    BY <1>2, <1>3, <2>2 DEF FeedsBack, LastBits, Differ
<1>7. 1 \in poly <=> OddBits(CrcTaps[1 + 1] \cap d)
  <2>1. CrcTaps[1 + 1] = {1, 5, 9, 12, 13}
    BY DEF CrcTaps
  <2>2. OddBits(CrcTaps[1 + 1] \cap d) <=> Differ(1 \in d, Differ(5 \in d, Differ(9 \in d, Differ(12 \in d, 13 \in d))))
    BY <2>1 DEF OddBits, Differ
  <2> QED
    BY <1>2, <1>3, <2>2 DEF FeedsBack, LastBits, Differ
<1>8. 2 \in poly <=> OddBits(CrcTaps[2 + 1] \cap d)
  <2>1. CrcTaps[2 + 1] = {2, 6, 10, 13, 14}
    BY DEF CrcTaps
  <2>2. OddBits(CrcTaps[2 + 1] \cap d) <=> Differ(2 \in d, Differ(6 \in d, Differ(10 \in d, Differ(13 \in d, 14 \in d))))
    BY <2>1 DEF OddBits, Differ
  <2> QED
    BY <1>2, <1>3, <2>2 DEF FeedsBack, LastBits, Differ
<1>9. 3 \in poly <=> OddBits(CrcTaps[3 + 1] \cap d)
  <2>1. CrcTaps[3 + 1] = {3, 7, 11, 14, 15}
    BY DEF CrcTaps
  <2>2. OddBits(CrcTaps[3 + 1] \cap d) <=> Differ(3 \in d, Differ(7 \in d, Differ(11 \in d, Differ(14 \in d, 15 \in d))))
    BY <2>1 DEF OddBits, Differ
  <2> QED
    BY <1>2, <1>3, <2>2 DEF FeedsBack, LastBits, Differ
<1>10. 4 \in poly <=> OddBits(CrcTaps[4 + 1] \cap d)
  <2>1. CrcTaps[4 + 1] = {4, 8, 12, 15}
    BY DEF CrcTaps
  <2>2. OddBits(CrcTaps[4 + 1] \cap d) <=> Differ(4 \in d, Differ(8 \in d, Differ(12 \in d, 15 \in d)))
    BY <2>1 DEF OddBits, Differ
  <2> QED
    BY <1>2, <1>3, <2>2 DEF FeedsBack, LastBits, Differ
<1>11. 5 \in poly <=> OddBits(CrcTaps[5 + 1] \cap d)
  <2>1. CrcTaps[5 + 1] = {0, 4, 5, 8, 9, 11, 12, 13}
    BY DEF CrcTaps
  <2>2. OddBits(CrcTaps[5 + 1] \cap d) <=> Differ(0 \in d, Differ(4 \in d, Differ(5 \in d, Differ(8 \in d, Differ(9 \in d, Differ(11 \in d, Differ(12 \in d, 13 \in d)))))))
    BY <2>1 DEF OddBits, Differ
  <2> QED
    BY <1>2, <1>3, <2>2 DEF FeedsBack, LastBits, Differ
<1>12. 6 \in poly <=> OddBits(CrcTaps[6 + 1] \cap d)
  <2>1. CrcTaps[6 + 1] = {1, 5, 6, 9, 10, 12, 13, 14}
    BY DEF CrcTaps
  <2>2. OddBits(CrcTaps[6 + 1] \cap d) <=> Differ(1 \in d, Differ(5 \in d, Differ(6 \in d, Differ(9 \in d, Differ(10 \in d, Differ(12 \in d, Differ(13 \in d, 14 \in d)))))))
    BY <2>1 DEF OddBits, Differ
  <2> QED
    BY <1>2, <1>3, <2>2 DEF FeedsBack, LastBits, Differ
<1>13. 7 \in poly <=> OddBits(CrcTaps[7 + 1] \cap d)
  <2>1. CrcTaps[7 + 1] = {2, 6, 7, 10, 11, 13, 14, 15}
    BY DEF CrcTaps
  <2>2. OddBits(CrcTaps[7 + 1] \cap d) <=> Differ(2 \in d, Differ(6 \in d, Differ(7 \in d, Differ(10 \in d, Differ(11 \in d, Differ(13 \in d, Differ(14 \in d, 15 \in d)))))))
    BY <2>1 DEF OddBits, Differ
  <2> QED
    BY <1>2, <1>3, <2>2 DEF FeedsBack, LastBits, Differ
<1>14. 8 \in poly <=> OddBits(CrcTaps[8 + 1] \cap d)
  <2>1. CrcTaps[8 + 1] = {3, 7, 8, 11, 12, 14, 15}
    BY DEF CrcTaps
  <2>2. OddBits(CrcTaps[8 + 1] \cap d) <=> Differ(3 \in d, Differ(7 \in d, Differ(8 \in d, Differ(11 \in d, Differ(12 \in d, Differ(14 \in d, 15 \in d))))))
    BY <2>1 DEF OddBits, Differ
  <2> QED
    BY <1>2, <1>3, <2>2 DEF FeedsBack, LastBits, Differ
<1>15. 9 \in poly <=> OddBits(CrcTaps[9 + 1] \cap d)
  <2>1. CrcTaps[9 + 1] = {4, 8, 9, 12, 13, 15}
    BY DEF CrcTaps
  <2>2. OddBits(CrcTaps[9 + 1] \cap d) <=> Differ(4 \in d, Differ(8 \in d, Differ(9 \in d, Differ(12 \in d, Differ(13 \in d, 15 \in d)))))
    BY <2>1 DEF OddBits, Differ
  <2> QED
    BY <1>2, <1>3, <2>2 DEF FeedsBack, LastBits, Differ
<1>16. 10 \in poly <=> OddBits(CrcTaps[10 + 1] \cap d)
  <2>1. CrcTaps[10 + 1] = {5, 9, 10, 13, 14}
    BY DEF CrcTaps
  <2>2. OddBits(CrcTaps[10 + 1] \cap d) <=> Differ(5 \in d, Differ(9 \in d, Differ(10 \in d, Differ(13 \in d, 14 \in d))))
    BY <2>1 DEF OddBits, Differ
  <2> QED
    BY <1>2, <1>3, <2>2 DEF FeedsBack, LastBits, Differ
<1>17. 11 \in poly <=> OddBits(CrcTaps[11 + 1] \cap d)
  <2>1. CrcTaps[11 + 1] = {6, 10, 11, 14, 15}
    BY DEF CrcTaps
  <2>2. OddBits(CrcTaps[11 + 1] \cap d) <=> Differ(6 \in d, Differ(10 \in d, Differ(11 \in d, Differ(14 \in d, 15 \in d))))
    BY <2>1 DEF OddBits, Differ
  <2> QED
    BY <1>2, <1>3, <2>2 DEF FeedsBack, LastBits, Differ
<1>18. 12 \in poly <=> OddBits(CrcTaps[12 + 1] \cap d)
  <2>1. CrcTaps[12 + 1] = {0, 4, 7, 8, 15}
    BY DEF CrcTaps
  <2>2. OddBits(CrcTaps[12 + 1] \cap d) <=> Differ(0 \in d, Differ(4 \in d, Differ(7 \in d, Differ(8 \in d, 15 \in d))))
    BY <2>1 DEF OddBits, Differ
  <2> QED
    BY <1>2, <1>3, <2>2 DEF FeedsBack, LastBits, Differ
<1>19. 13 \in poly <=> OddBits(CrcTaps[13 + 1] \cap d)
  <2>1. CrcTaps[13 + 1] = {1, 5, 8, 9}
    BY DEF CrcTaps
  <2>2. OddBits(CrcTaps[13 + 1] \cap d) <=> Differ(1 \in d, Differ(5 \in d, Differ(8 \in d, 9 \in d)))
    BY <2>1 DEF OddBits, Differ
  <2> QED
    BY <1>2, <1>3, <2>2 DEF FeedsBack, LastBits, Differ
<1>20. 14 \in poly <=> OddBits(CrcTaps[14 + 1] \cap d)
  <2>1. CrcTaps[14 + 1] = {2, 6, 9, 10}
    BY DEF CrcTaps
  <2>2. OddBits(CrcTaps[14 + 1] \cap d) <=> Differ(2 \in d, Differ(6 \in d, Differ(9 \in d, 10 \in d)))
    BY <2>1 DEF OddBits, Differ
  <2> QED
    BY <1>2, <1>3, <2>2 DEF FeedsBack, LastBits, Differ
<1>21. 15 \in poly <=> OddBits(CrcTaps[15 + 1] \cap d)
  <2>1. CrcTaps[15 + 1] = {3, 7, 10, 11}
    BY DEF CrcTaps
  <2>2. OddBits(CrcTaps[15 + 1] \cap d) <=> Differ(3 \in d, Differ(7 \in d, Differ(10 \in d, 11 \in d)))
    BY <2>1 DEF OddBits, Differ
  <2> QED
    BY <1>2, <1>3, <2>2 DEF FeedsBack, LastBits, Differ
<1>22. \A k \in Bit : k \in poly <=> OddBits(CrcTaps[k + 1] \cap d)
  <2>1. \A k \in Bit : \/ k = 0 \/ k = 1 \/ k = 2 \/ k = 3 \/ k = 4 \/ k = 5 \/ k = 6 \/ k = 7
                       \/ k = 8 \/ k = 9 \/ k = 10 \/ k = 11 \/ k = 12 \/ k = 13 \/ k = 14 \/ k = 15
    BY DEF Bit
  <2> DEFINE Same(k) == k \in poly <=> OddBits(CrcTaps[k + 1] \cap d)
  <2>2. /\ Same(0) /\ Same(1) /\ Same(2) /\ Same(3) /\ Same(4) /\ Same(5) /\ Same(6) /\ Same(7)
        /\ Same(8) /\ Same(9) /\ Same(10) /\ Same(11) /\ Same(12) /\ Same(13) /\ Same(14) /\ Same(15)
    BY <1>6, <1>7, <1>8, <1>9, <1>10, <1>11, <1>12, <1>13, <1>14, <1>15, <1>16, <1>17, <1>18, <1>19, <1>20, <1>21
  <2> HIDE DEF Same
  <2>3. \A k \in Bit : Same(k)
    BY <2>1, <2>2, Zenon
  <2> QED
    BY <2>3 DEF Same
<1> QED
  BY <1>3, <1>4, <1>5, <1>22 DEF Word, poly

\* The CRC of a frame, word by word.
CrcSteps(c, words) ==
    /\ c[0] = Bit
    /\ \A n \in 1 .. Len(words) : c[n] = NextCrc(c[n - 1], words[n])
    /\ \A n \in 0 .. Len(words) : c[n] \in Word

LEMMA CrcUnfold ==
    ASSUME NEW words \in Seq(Word)
    PROVE  \E c : CrcSteps(c, words) /\ CRC(words) = c[Len(words)]
<1> DEFINE Next1(v, n) == NextCrc(v, words[n])
           m == Len(words)
           step == [p \in Word \X (1 .. m) |-> Next1(p[1], p[2])]
           Eq(f) == f = [n \in 0 .. m |-> IF n = 0 THEN Bit ELSE Next1(f[n - 1], n)]
<1>0. m \in Nat /\ Bit \in Word
  BY LenProperties DEF Word
<1>1. \A v \in Word : \A n \in 1 .. m : Next1(v, n) \in Word
  BY DEF NextCrc, Word
<1> HIDE DEF m
<1>2. step \in [Word \X (1 .. m) -> Word]
  <2> HIDE DEF Next1
  <2> QED
    BY <1>1
<1>3. PICK f : Follows(f, Bit, step, m, Word)
  <2>1. IsStep(step, m, Word)
    BY <1>2 DEF IsStep
  <2> HIDE DEF step
  <2> QED
    BY <1>0, <2>1, Recursion
<1>4. Eq(f)
  <2>1. ASSUME NEW n \in 1 .. m
        PROVE  step[<<f[n - 1], n>>] = Next1(f[n - 1], n)
    <3> HIDE DEF Next1
    <3>1. n - 1 \in 0 .. m
      BY <1>0
    <3>2. <<f[n - 1], n>> \in Word \X (1 .. m)
      BY <1>3, <3>1 DEF Follows
    <3> QED
      BY <3>2
  <2> HIDE DEF step, Next1
  <2>2. ASSUME NEW n \in 0 .. m
        PROVE  f[n] = IF n = 0 THEN Bit ELSE Next1(f[n - 1], n)
    <3>1. n # 0 => n \in 1 .. m
      BY <1>0
    <3> QED
      BY <1>3, <2>1, <3>1 DEF Follows
  <2>3. f = [n \in 0 .. m |-> f[n]]
    BY <1>3 DEF Follows
  <2> QED
    BY <2>2, <2>3
<1> DEFINE c == CHOOSE g : Eq(g)
<1>5. Eq(c)
  <2> HIDE DEF Eq
  <2> QED
    BY <1>4
<1>6. CRC(words) = c[m]
  BY Zenon DEF CRC, m
<1> HIDE DEF c
<1>7. c[0] = Bit /\ \A n \in 1 .. m : c[n] = Next1(c[n - 1], n)
  <2> HIDE DEF Next1
  <2>1. \A n \in 1 .. m : n \in 0 .. m /\ n # 0
    BY <1>0
  <2>2. 0 \in 0 .. m
    BY <1>0
  <2> QED
    BY <1>5, <2>1, <2>2
<1>8. \A n \in 0 .. m : c[n] \in Word
  <2>1. \A v, w : NextCrc(v, w) \in Word
    BY DEF NextCrc, Word
  <2>2. \A n \in 0 .. m : n = 0 \/ n \in 1 .. m
    BY <1>0
  <2> QED
    BY <1>0, <1>7, <2>1, <2>2
<1>9. CrcSteps(c, words)
  BY <1>7, <1>8 DEF CrcSteps, m
<1> QED
  BY <1>6, <1>9 DEF m

LEMMA CrcType ==
    ASSUME NEW words \in Seq(Word)
    PROVE  CRC(words) \in Word
<1>1. PICK c : CrcSteps(c, words) /\ CRC(words) = c[Len(words)]
  BY CrcUnfold
<1>2. Len(words) \in 0 .. Len(words)
  BY LenProperties
<1> QED
  BY <1>1, <1>2 DEF CrcSteps

\* Equal CRCs are fed by equal differences of CRC and word.
LEMMA CrcInjective ==
    ASSUME NEW c1 \in Word, NEW w1 \in Word, NEW c2 \in Word, NEW w2 \in Word,
           NextCrc(c1, w1) = NextCrc(c2, w2)
    PROVE  Xor(c1, w1) = Xor(c2, w2)
<1> DEFINE d1 == Xor(c1, w1)
           d2 == Xor(c2, w2)
           F1 == FedSteps(c1, w1)
           F2 == FedSteps(c2, w2)
           p == PolynomialCrc(c1, w1)
<1>1. d1 \in Word /\ d2 \in Word
  BY DEF Xor, Word
<1>2. p = PolynomialCrc(c2, w2)
  BY TableIsPolynomial
<1>3. LastBits(p, F1) /\ LastBits(p, F2)
  BY <1>2, AllLastBits
<1>4. FeedsBack(d1, F1) /\ FeedsBack(d2, F2)
  BY AllFedBack
<1> HIDE DEF d1, d2, F1, F2, p
<1>5. /\ 16 \in F1 <=> 16 \in F2
      /\ 15 \in F1 <=> 15 \in F2
      /\ 14 \in F1 <=> 14 \in F2
      /\ 13 \in F1 <=> 13 \in F2
      /\ 12 \in F1 <=> 12 \in F2
      /\ 11 \in F1 <=> 11 \in F2
      /\ 10 \in F1 <=> 10 \in F2
      /\ 9 \in F1 <=> 9 \in F2
      /\ 8 \in F1 <=> 8 \in F2
      /\ 7 \in F1 <=> 7 \in F2
      /\ 6 \in F1 <=> 6 \in F2
      /\ 5 \in F1 <=> 5 \in F2
      /\ 4 \in F1 <=> 4 \in F2
      /\ 3 \in F1 <=> 3 \in F2
      /\ 2 \in F1 <=> 2 \in F2
      /\ 1 \in F1 <=> 1 \in F2
  BY <1>3 DEF LastBits, Differ
<1>6. /\ 0 \in d1 <=> 0 \in d2
      /\ 1 \in d1 <=> 1 \in d2
      /\ 2 \in d1 <=> 2 \in d2
      /\ 3 \in d1 <=> 3 \in d2
      /\ 4 \in d1 <=> 4 \in d2
      /\ 5 \in d1 <=> 5 \in d2
      /\ 6 \in d1 <=> 6 \in d2
      /\ 7 \in d1 <=> 7 \in d2
      /\ 8 \in d1 <=> 8 \in d2
      /\ 9 \in d1 <=> 9 \in d2
      /\ 10 \in d1 <=> 10 \in d2
      /\ 11 \in d1 <=> 11 \in d2
      /\ 12 \in d1 <=> 12 \in d2
      /\ 13 \in d1 <=> 13 \in d2
      /\ 14 \in d1 <=> 14 \in d2
      /\ 15 \in d1 <=> 15 \in d2
  BY <1>4, <1>5 DEF FeedsBack, Differ
<1>7. \A k \in Bit : k \in d1 <=> k \in d2
  <2>1. \A k \in Bit : \/ k = 0 \/ k = 1 \/ k = 2 \/ k = 3 \/ k = 4 \/ k = 5 \/ k = 6 \/ k = 7
                       \/ k = 8 \/ k = 9 \/ k = 10 \/ k = 11 \/ k = 12 \/ k = 13 \/ k = 14 \/ k = 15
    BY DEF Bit
  <2> QED
    BY <1>6, <2>1
<1> QED
  BY <1>1, <1>7 DEF Word, d1, d2

\* Words that differ in one place have different CRCs: from there on the CRC
\* is another, and stays so.
LEMMA OneWordTells ==
    ASSUME NEW u \in Seq(Word), NEW v \in Seq(Word), Len(u) = Len(v),
           NEW m \in 1 .. Len(u), u[m] # v[m],
           \A k \in 1 .. Len(u) : k # m => u[k] = v[k]
    PROVE  CRC(u) # CRC(v)
<1> DEFINE n == Len(u)
<1>1. n \in Nat /\ \A k \in 1 .. n : u[k] \in Word /\ v[k] \in Word
  BY LenProperties, ElementOfSeq
<1>2. PICK c : CrcSteps(c, u) /\ CRC(u) = c[n]
  BY CrcUnfold
<1>3. PICK d : CrcSteps(d, v) /\ CRC(v) = d[n]
  BY CrcUnfold
<1>4. /\ c[0] = Bit /\ d[0] = Bit
      /\ \A k \in 1 .. n : c[k] = NextCrc(c[k - 1], u[k]) /\ d[k] = NextCrc(d[k - 1], v[k])
      /\ \A k \in 0 .. n : c[k] \in Word /\ d[k] \in Word
  BY <1>2, <1>3 DEF CrcSteps
<1> DEFINE Right == {k \in Nat : k <= n => (c[k] = d[k] <=> k < m)}
<1>5. ASSUME NEW a \in Word, NEW b \in Word, NEW x \in Word, NEW y \in Word, Xor(a, x) = Xor(b, y)
      PROVE  a = b <=> x = y
  <2>1. \A k : (k \in a <=> k \notin x) <=> (k \in b <=> k \notin y)
    BY <1>5 DEF Xor
  <2>2. ASSUME a = b
        PROVE  x = y
    <3>1. \A k : k \in x <=> k \in y
      BY <2>1, <2>2
    <3> QED
      BY <3>1
  <2>3. ASSUME x = y
        PROVE  a = b
    <3>1. \A k : k \in a <=> k \in b
      BY <2>1, <2>3
    <3> QED
      BY <3>1
  <2> QED
    BY <2>2, <2>3
<1> HIDE DEF n
<1>6. 0 \in Right
  BY <1>1, <1>4
<1>7. ASSUME NEW k \in Nat, k \in Right
      PROVE  k + 1 \in Right
  <2>1. SUFFICES ASSUME k + 1 <= n
                 PROVE  c[k + 1] = d[k + 1] <=> k + 1 < m
    OBVIOUS
  <2>2. /\ k + 1 \in 1 .. n /\ (k + 1) - 1 = k /\ k \in 0 .. n
        /\ c[k] = d[k] <=> k < m
    BY <1>1, <1>7, <2>1
  <2>3. c[k + 1] = NextCrc(c[k], u[k + 1]) /\ d[k + 1] = NextCrc(d[k], v[k + 1])
    BY <1>4, <2>2
  <2>4. c[k] \in Word /\ d[k] \in Word /\ u[k + 1] \in Word /\ v[k + 1] \in Word
    BY <1>1, <1>4, <2>2
  <2>5. CASE k + 1 < m
    <3>1. c[k] = d[k] /\ u[k + 1] = v[k + 1]
      BY <2>2, <2>5 DEF n
    <3> QED
      BY <2>3, <2>5, <3>1
  <2>6. CASE ~(k + 1 < m)
    <3>1. ~(c[k] = d[k] <=> u[k + 1] = v[k + 1])
      <4>1. CASE k + 1 = m
        <5>1. k < m
          BY <4>1
        <5> QED
          BY <2>2, <4>1, <5>1
      <4>2. CASE k + 1 # m
        <5>1. ~(k < m) /\ u[k + 1] = v[k + 1]
          BY <2>2, <2>6, <4>2 DEF n
        <5> QED
          BY <2>2, <5>1
      <4> QED
        BY <4>1, <4>2
    <3>2. Xor(c[k], u[k + 1]) # Xor(d[k], v[k + 1])
      BY <1>5, <2>4, <3>1
    <3>3. c[k + 1] # d[k + 1]
      BY <2>3, <2>4, <3>2, CrcInjective
    <3> QED
      BY <2>6, <3>3
  <2> QED
    BY <2>5, <2>6
<1> HIDE DEF Right
<1>8. n \in Right
  BY <1>1, <1>6, <1>7, Induction
<1>9. ~(n < m)
  BY <1>1 DEF n
<1> QED
  BY <1>1, <1>2, <1>3, <1>8, <1>9 DEF Right

\* The CRC at the end of a frame finds any damage of a single word, of its own
\* too.
THEOREM CrcFindsDamage ==
    ASSUME NEW n \in Nat \ {0}, NEW w \in [1 .. n -> Word], NEW p \in [1 .. n -> Word],
           CRC(Front(w)) = Last(w), CRC(Front(p)) = Last(p),
           NEW m \in 1 .. n, \A k \in 1 .. n : k # m => p[k] = w[k]
    PROVE  p = w
<1>1. w \in Seq(Word) /\ p \in Seq(Word) /\ Len(w) = n /\ Len(p) = n
  OBVIOUS
<1>2. Last(w) = w[n] /\ Last(p) = p[n] /\ n \in 1 .. n
  BY <1>1 DEF Last
<1> DEFINE u == Front(w)
           v == Front(p)
<1>3. /\ u \in Seq(Word) /\ Len(u) = n - 1
      /\ v \in Seq(Word) /\ Len(v) = n - 1
      /\ \A k \in 1 .. n - 1 : u[k] = w[k] /\ v[k] = p[k]
  <2>1. u = SubSeq(w, 1, n - 1) /\ v = SubSeq(p, 1, n - 1)
    BY <1>1 DEF Front
  <2>2. 1 \in Int /\ n - 1 \in Int /\ \A k \in 1 .. n - 1 : w[k] \in Word /\ p[k] \in Word
    OBVIOUS
  <2>3. /\ SubSeq(w, 1, n - 1) \in Seq(Word)
        /\ Len(SubSeq(w, 1, n - 1)) = IF 1 <= n - 1 THEN n - 1 - 1 + 1 ELSE 0
        /\ \A k \in 1 .. n - 1 - 1 + 1 : SubSeq(w, 1, n - 1)[k] = w[1 + k - 1]
    BY <2>2, SubSeqProperties
  <2>4. /\ SubSeq(p, 1, n - 1) \in Seq(Word)
        /\ Len(SubSeq(p, 1, n - 1)) = IF 1 <= n - 1 THEN n - 1 - 1 + 1 ELSE 0
        /\ \A k \in 1 .. n - 1 - 1 + 1 : SubSeq(p, 1, n - 1)[k] = p[1 + k - 1]
    BY <2>2, SubSeqProperties
  <2>5. n - 1 - 1 + 1 = n - 1 /\ \A k \in 1 .. n - 1 : 1 + k - 1 = k
    OBVIOUS
  <2>6. IF 1 <= n - 1 THEN n - 1 - 1 + 1 = n - 1 ELSE n - 1 = 0
    OBVIOUS
  <2> HIDE DEF u, v
  <2> QED
    BY <2>1, <2>3, <2>4, <2>5, <2>6
<1> HIDE DEF u, v
<1>4. p[m] = w[m]
  <2> SUFFICES ASSUME p[m] # w[m]
               PROVE  FALSE
    OBVIOUS
  <2>1. CASE m = n
    <3>1. u = v
      <4>1. \A k \in 1 .. n - 1 : k \in 1 .. n /\ k # m
        BY <2>1
      <4>2. \A k \in 1 .. n - 1 : u[k] = v[k]
        BY <1>3, <4>1
      <4> QED
        BY <1>3, <4>2, SeqEqual
    <3> QED
      BY <1>2, <2>1, <3>1 DEF u, v
  <2>2. CASE m # n
    <3>1. p[n] = w[n]
      BY <1>2, <2>2
    <3>2. m \in 1 .. n - 1 /\ \A k \in 1 .. n - 1 : k \in 1 .. n
      BY <2>2
    <3>3. v[m] # u[m] /\ \A k \in 1 .. Len(v) : k # m => v[k] = u[k]
      BY <1>3, <3>2
    <3>4. CRC(v) # CRC(u)
      BY <1>3, <3>2, <3>3, OneWordTells
    <3> QED
      BY <1>2, <3>1, <3>4 DEF u, v
  <2> QED
    BY <2>1, <2>2
<1> QED
  BY <1>4

-----------------------------------------------------------------------------
(* Sequences one behind the other.                                         *)

Flat(seqs) ==
    CHOOSE f : f = [i \in 1 .. Len(seqs) |->
                       IF i = 1 THEN seqs[i] ELSE f[i - 1] \o seqs[i]]

LEMMA FlatUnfold ==
    ASSUME NEW S, NEW seqs \in Seq(Seq(S))
    PROVE  LET f == Flat(seqs)
           IN  /\ \A n \in 1 .. Len(seqs) :
                     /\ f[n] \in Seq(S)
                     /\ f[n] = IF n = 1 THEN seqs[n] ELSE f[n - 1] \o seqs[n]
               /\ FlattenSeq(seqs) = IF Len(seqs) = 0 THEN << >> ELSE f[Len(seqs)]
<1> DEFINE Next1(v, n) == IF n = 1 THEN seqs[n] ELSE v \o seqs[n]
           m == Len(seqs)
           step == [p \in Seq(S) \X (1 .. m) |-> Next1(p[1], p[2])]
           Eq(f) == f = [n \in 1 .. m |-> IF n = 1 THEN seqs[n] ELSE f[n - 1] \o seqs[n]]
<1>0. m \in Nat /\ \A n \in 1 .. m : seqs[n] \in Seq(S)
  BY LenProperties, ElementOfSeq
<1>00. << >> \in Seq(S)
  BY EmptySeq
<1>1. \A v \in Seq(S) : \A n \in 1 .. m : Next1(v, n) \in Seq(S)
  <2> HIDE DEF m
  <2> QED
    BY <1>0, ConcatProperties
<1> HIDE DEF m
<1>2. step \in [Seq(S) \X (1 .. m) -> Seq(S)]
  <2> HIDE DEF Next1
  <2> QED
    BY <1>1
<1>3. PICK h : Follows(h, << >>, step, m, Seq(S))
  <2>1. IsStep(step, m, Seq(S))
    BY <1>2 DEF IsStep
  <2> HIDE DEF step
  <2> QED
    BY <1>0, <1>00, <2>1, Recursion
<1>4. \A n \in 1 .. m : h[n] = Next1(h[n - 1], n)
  <2>1. ASSUME NEW n \in 1 .. m
        PROVE  step[<<h[n - 1], n>>] = Next1(h[n - 1], n)
    <3> HIDE DEF Next1
    <3>1. n - 1 \in 0 .. m
      BY <1>0
    <3>2. <<h[n - 1], n>> \in Seq(S) \X (1 .. m)
      BY <1>3, <3>1 DEF Follows
    <3> QED
      BY <3>2
  <2> HIDE DEF step, Next1
  <2> QED
    BY <1>3, <2>1 DEF Follows
<1> DEFINE k == [n \in 1 .. m |-> h[n]]
<1>5. Eq(k)
  <2>1. ASSUME NEW n \in 1 .. m
        PROVE  k[n] = IF n = 1 THEN seqs[n] ELSE k[n - 1] \o seqs[n]
    <3>1. n # 1 => n - 1 \in 1 .. m
      BY <1>0
    <3> QED
      BY <1>4, <3>1
  <2> HIDE DEF step
  <2>2. k = [n \in 1 .. m |-> k[n]]
    OBVIOUS
  <2> HIDE DEF k
  <2> QED
    BY <2>1, <2>2
<1> DEFINE f == Flat(seqs)
<1>6. Eq(f)
  <2>1. f = CHOOSE g : Eq(g)
    BY DEF Flat, m
  <2> HIDE DEF Eq, f
  <2> QED
    BY <1>5, <2>1
<1>7. FlattenSeq(seqs) = IF m = 0 THEN seqs ELSE f[m]
  BY Zenon DEF FlattenSeq, Flat, m
<1>8. m = 0 => seqs = << >>
  BY EmptySeq DEF m
<1> HIDE DEF f
<1>9. \A n \in 1 .. m : f[n] = IF n = 1 THEN seqs[n] ELSE f[n - 1] \o seqs[n]
  BY <1>6
<1>10. \A n \in 1 .. m : f[n] \in Seq(S)
  <2> DEFINE Typed == {n \in Nat : n \in 1 .. m => f[n] \in Seq(S)}
  <2>1. 0 \in Typed
    OBVIOUS
  <2>2. ASSUME NEW n \in Nat, n \in Typed
        PROVE  n + 1 \in Typed
    <3>1. SUFFICES ASSUME n + 1 \in 1 .. m
                   PROVE  f[n + 1] \in Seq(S)
      OBVIOUS
    <3>2. CASE n = 0
      <4>1. n + 1 = 1
        BY <3>2
      <4> QED
        BY <1>0, <1>9, <3>1, <4>1
    <3>3. CASE n # 0
      <4>1. n + 1 # 1 /\ (n + 1) - 1 = n /\ n \in 1 .. m
        BY <1>0, <3>1, <3>3
      <4>2. f[n] \in Seq(S) /\ seqs[n + 1] \in Seq(S)
        BY <1>0, <2>2, <3>1, <4>1
      <4>3. f[n + 1] = f[n] \o seqs[n + 1]
        BY <1>9, <3>1, <4>1
      <4> QED
        BY <4>2, <4>3, ConcatProperties
    <3> QED
      BY <3>2, <3>3
  <2> HIDE DEF Typed
  <2>3. Nat \subseteq Typed
    BY <2>1, <2>2, Induction
  <2> QED
    BY <2>3 DEF Typed
<1> QED
  BY <1>7, <1>8, <1>9, <1>10 DEF f, m

LEMMA FlatType ==
    ASSUME NEW S, NEW seqs \in Seq(Seq(S))
    PROVE  FlattenSeq(seqs) \in Seq(S)
<1>1. Len(seqs) \in Nat /\ (Len(seqs) # 0 => Len(seqs) \in 1 .. Len(seqs))
  BY LenProperties
<1> QED
  BY <1>1, FlatUnfold, EmptySeq

\* Sequences of the same lengths are as long together.
LEMMA FlatLengths ==
    ASSUME NEW S, NEW T, NEW s \in Seq(Seq(S)), NEW t \in Seq(Seq(T)),
           Len(s) = Len(t), \A i \in 1 .. Len(s) : Len(s[i]) = Len(t[i])
    PROVE  Len(FlattenSeq(s)) = Len(FlattenSeq(t))
<1> DEFINE m == Len(s)
           f == Flat(s)
           g == Flat(t)
<1>1. \A n \in 1 .. m : f[n] \in Seq(S) /\ f[n] = IF n = 1 THEN s[n] ELSE f[n - 1] \o s[n]
  BY FlatUnfold
<1>2. \A n \in 1 .. m : g[n] \in Seq(T) /\ g[n] = IF n = 1 THEN t[n] ELSE g[n - 1] \o t[n]
  BY FlatUnfold
<1>3. /\ FlattenSeq(s) = IF m = 0 THEN << >> ELSE f[m]
      /\ FlattenSeq(t) = IF m = 0 THEN << >> ELSE g[m]
  BY FlatUnfold
<1>4. m \in Nat /\ \A n \in 1 .. m : s[n] \in Seq(S) /\ t[n] \in Seq(T) /\ Len(s[n]) = Len(t[n])
  BY LenProperties, ElementOfSeq
<1> HIDE DEF f, g, m
<1>5. \A n \in 1 .. m : Len(f[n]) = Len(g[n])
  <2> DEFINE Same == {n \in Nat : n \in 1 .. m => Len(f[n]) = Len(g[n])}
  <2>1. 0 \in Same
    OBVIOUS
  <2>2. ASSUME NEW n \in Nat, n \in Same
        PROVE  n + 1 \in Same
    <3>1. SUFFICES ASSUME n + 1 \in 1 .. m
                   PROVE  Len(f[n + 1]) = Len(g[n + 1])
      OBVIOUS
    <3>2. CASE n = 0
      <4>1. n + 1 = 1
        BY <3>2
      <4> QED
        BY <1>1, <1>2, <1>4, <3>1, <4>1
    <3>3. CASE n # 0
      <4>1. n + 1 # 1 /\ (n + 1) - 1 = n /\ n \in 1 .. m
        BY <1>4, <3>1, <3>3
      <4>2. Len(f[n]) = Len(g[n]) /\ f[n] \in Seq(S) /\ g[n] \in Seq(T)
        BY <1>1, <1>2, <2>2, <4>1
      <4>3. f[n + 1] = f[n] \o s[n + 1] /\ g[n + 1] = g[n] \o t[n + 1]
        BY <1>1, <1>2, <3>1, <4>1
      <4>4. Len(f[n + 1]) = Len(f[n]) + Len(s[n + 1]) /\ Len(g[n + 1]) = Len(g[n]) + Len(t[n + 1])
        <5>1. s[n + 1] \in Seq(S) /\ t[n + 1] \in Seq(T)
          BY <1>4, <3>1
        <5>2. Len(f[n] \o s[n + 1]) = Len(f[n]) + Len(s[n + 1])
          BY <4>2, <5>1, ConcatProperties
        <5>3. Len(g[n] \o t[n + 1]) = Len(g[n]) + Len(t[n + 1])
          BY <4>2, <5>1, ConcatProperties
        <5> QED
          BY <4>3, <5>2, <5>3
      <4> QED
        BY <1>4, <3>1, <4>2, <4>4
    <3> QED
      BY <3>2, <3>3
  <2> HIDE DEF Same
  <2>3. Nat \subseteq Same
    BY <2>1, <2>2, Induction
  <2> QED
    BY <2>3 DEF Same
<1> QED
  BY <1>3, <1>4, <1>5

-----------------------------------------------------------------------------
(* What is on the wire.                                                    *)

LEMMA PackType ==
    ASSUME NEW w \in Word, NEW flags \in SUBSET {4, 5, 6}
    PROVE  PackWord(w, flags) \in Seq(Byte)
<1>1. {7} \cup flags \cup (w \cap 0..3) \in Byte
  <2>1. 7 \in 0..7 /\ {4, 5, 6} \subseteq 0..7 /\ 0..3 \subseteq 0..7
    OBVIOUS
  <2> QED
    BY <2>1 DEF Byte
<1>2. {k - 4 : k \in w \cap 4..9} \in Byte
  <2>1. \A k \in 4..9 : k - 4 \in 0..7
    OBVIOUS
  <2> QED
    BY <2>1 DEF Byte
<1>3. {6} \cup {k - 10 : k \in w \cap 10..15} \in Byte
  <2>1. \A k \in 10..15 : k - 10 \in 0..7
    OBVIOUS
  <2> QED
    BY <2>1 DEF Byte
<1> QED
  BY <1>1, <1>2, <1>3 DEF PackWord

LEMMA FrameBytesType ==
    ASSUME NEW words \in Seq(Word), NEW cmd \in BOOLEAN
    PROVE  FrameBytes(words, cmd) \in Seq(Byte)
<1> DEFINE packed == [i \in 1..Len(words) |-> PackWord(words[i], Flags(i, Len(words), cmd))]
<1>1. Len(words) \in Nat /\ \A i \in 1..Len(words) : words[i] \in Word
  BY LenProperties, ElementOfSeq
<1>2. \A i \in 1..Len(words) : Flags(i, Len(words), cmd) \in SUBSET {4, 5, 6}
  BY DEF Flags
<1>3. \A i \in 1..Len(words) : packed[i] \in Seq(Byte)
  BY <1>1, <1>2, PackType
<1>4. packed \in Seq(Seq(Byte))
  BY <1>1, <1>3
<1> HIDE DEF packed
<1>5. FlattenSeq(packed) \in Seq(Byte)
  BY <1>4, FlatType
<1> QED
  BY <1>5 DEF FrameBytes, packed

LEMMA WireType ==
    /\ Len(Frames) \in Nat
    /\ Wire \in Seq(Seq(Byte))
    /\ Len(Wire) = Len(Frames)
<1>1. /\ Len(Frames) \in Nat
      /\ \A i \in 1..Len(Frames) : Frames[i] \in [cmd : BOOLEAN, words : Seq(Word)]
  BY FramingAssumption, LenProperties, ElementOfSeq
<1>2. \A i \in 1..Len(Frames) : Frames[i].cmd \in BOOLEAN /\ Frames[i].words \in Seq(Word)
  BY <1>1
<1>3. \A i \in 1..Len(Frames) : WithCrc(Frames[i].words) \in Seq(Word)
  BY <1>2, CrcType, AppendProperties DEF WithCrc
<1>4. \A i \in 1..Len(Frames) : FrameBytes(WithCrc(Frames[i].words), Frames[i].cmd) \in Seq(Byte)
  BY <1>2, <1>3, FrameBytesType
<1> QED
  BY <1>1, <1>4 DEF Wire

\* Every byte is of a frame.
LEMMA BytesAndFrames ==
    /\ AllBytes \in Seq(Byte)
    /\ FrameOf \in Seq(1..Len(Frames))
    /\ Len(FrameOf) = Len(AllBytes)
<1> DEFINE S == 1..Len(Frames)
           numbers == [i \in S |-> [j \in 1..Len(Wire[i]) |-> i]]
<1>1. Len(Frames) \in Nat /\ Wire \in Seq(Seq(Byte)) /\ Len(Wire) = Len(Frames)
  BY WireType
<1>2. \A i \in S : Len(Wire[i]) \in Nat
  <2>1. \A i \in S : Wire[i] \in Seq(Byte)
    BY <1>1, ElementOfSeq
  <2> QED
    BY <2>1, LenProperties
<1>3. \A i \in S : numbers[i] \in Seq(S) /\ Len(numbers[i]) = Len(Wire[i])
  BY <1>2
<1>4. numbers \in Seq(Seq(S)) /\ Len(numbers) = Len(Wire)
  <2> DEFINE value(i) == [j \in 1..Len(Wire[i]) |-> i]
  <2>1. \A i \in S : value(i) \in Seq(S)
    BY <1>3
  <2> HIDE DEF value
  <2>2. [i \in 1..Len(Frames) |-> value(i)] \in Seq(Seq(S)) /\ Len([i \in 1..Len(Frames) |-> value(i)]) = Len(Frames)
    BY <1>1, <2>1
  <2> QED
    BY <1>1, <2>2 DEF value
<1> HIDE DEF S, numbers
<1>5. FlattenSeq(Wire) \in Seq(Byte) /\ FlattenSeq(numbers) \in Seq(S)
  BY <1>1, <1>4, FlatType
<1>6. Len(FlattenSeq(numbers)) = Len(FlattenSeq(Wire))
  <2>1. \A i \in 1..Len(numbers) : Len(numbers[i]) = Len(Wire[i])
    BY <1>1, <1>3, <1>4 DEF S
  <2> QED
    BY <1>1, <1>4, <2>1, FlatLengths
<1> QED
  BY <1>5, <1>6 DEF AllBytes, FrameOf, S, numbers

\* Bytes lost from the middle leave bytes.
LEMMA CutType ==
    ASSUME NEW s \in Seq(Byte), NEW i \in 1..Len(s), NEW n \in Nat
    PROVE  /\ SubSeq(s, 1, i - 1) \in Seq(Byte)
           /\ SubSeq(s, i + n, Len(s)) \in Seq(Byte)
<1>1. Len(s) \in Nat /\ \A k \in 1..Len(s) : s[k] \in Byte
  BY LenProperties, ElementOfSeq
<1>2. i - 1 \in Int /\ i + n \in Int /\ Len(s) \in Int /\ 1 \in Int
  BY <1>1
<1>3. \A k \in 1..(i - 1) : s[k] \in Byte
  BY <1>1
<1>4. \A k \in (i + n)..Len(s) : s[k] \in Byte
  BY <1>1
<1> QED
  BY <1>2, <1>3, <1>4, SubSeqProperties

\* Whatever the fault, bytes are on the line, and it is in a frame or in none.
LEMMA LineType ==
    ASSUME Init
    PROVE  line \in Seq(Byte) /\ hit \in 0..Len(Frames)
<1>1. /\ Len(Frames) \in Nat
      /\ AllBytes \in Seq(Byte)
      /\ Len(AllBytes) \in Nat
      /\ \A i \in 1..Len(AllBytes) : AllBytes[i] \in Byte /\ FrameOf[i] \in 1..Len(Frames)
  BY WireType, BytesAndFrames, LenProperties, ElementOfSeq
<1>2. CASE NoFault
  BY <1>1, <1>2 DEF NoFault
<1>3. ASSUME NEW i \in 1..Len(AllBytes), BitFlipped(i)
      PROVE  line \in Seq(Byte) /\ hit \in 0..Len(Frames)
  <2>1. PICK k \in 0..7 : line = [AllBytes EXCEPT ![i] = Xor(@, {k})] /\ hit = FrameOf[i]
    BY <1>3 DEF BitFlipped
  <2>2. Xor(AllBytes[i], {k}) \in Byte
    BY <1>1 DEF Xor, Byte
  <2>3. line = [AllBytes EXCEPT ![i] = Xor(AllBytes[i], {k})]
    BY <2>1
  <2> QED
    BY <1>1, <2>1, <2>2, <2>3, ExceptSeq
<1>4. ASSUME NEW i \in 1..Len(AllBytes), BytesLost(i)
      PROVE  line \in Seq(Byte) /\ hit \in 0..Len(Frames)
  <2>1. PICK n \in 1..MaxRun : line = Cut(AllBytes, i, n) /\ hit = FrameOf[i]
    BY <1>4 DEF BytesLost
  <2>2. n \in Nat
    BY FramingAssumption
  <2>3. Cut(AllBytes, i, n) \in Seq(Byte)
    BY <1>1, <2>2, CutType, ConcatProperties DEF Cut
  <2> QED
    BY <1>1, <2>1, <2>3
<1>5. ASSUME NEW i \in 1..Len(AllBytes), NoiseRead(i)
      PROVE  line \in Seq(Byte) /\ hit \in 0..Len(Frames)
  <2>1. PICK b \in Noise :
           /\ line = SubSeq(AllBytes, 1, i - 1) \o <<b>> \o SubSeq(AllBytes, i, Len(AllBytes))
           /\ hit = IF i > 1 /\ FrameOf[i - 1] = FrameOf[i] THEN FrameOf[i] ELSE 0
    BY <1>5 DEF NoiseRead
  <2>2. <<b>> \in Seq(Byte)
    BY FramingAssumption
  <2>3. SubSeq(AllBytes, 1, i - 1) \in Seq(Byte) /\ SubSeq(AllBytes, i, Len(AllBytes)) \in Seq(Byte)
    BY <1>1, 0 \in Nat, i + 0 = i, CutType
  <2>4. line \in Seq(Byte)
    BY <2>1, <2>2, <2>3, ConcatProperties
  <2> QED
    BY <1>1, <2>1, <2>4
<1> QED
  BY <1>2, <1>3, <1>4, <1>5 DEF Init

-----------------------------------------------------------------------------
(* The reader.                                                             *)

\* TypeOK, without the delivered frames, as an invariant that a step keeps:
\* the slots are one for each kind of frame, and the first byte of a frame,
\* which says how long it is, stays what it is until the next is looked for.
Kept ==
    /\ Len(sent) = Len(Frames)
    /\ slot = [cmd \in BOOLEAN |-> slot[cmd]]
    /\ mode # "hunt" => Len(rdbuf) > 0

FramingInv == TypeOK /\ Kept

LEMMA FrameLens ==
    /\ \A cmd \in BOOLEAN : FrameLen(cmd) \in 1..16
    /\ Cmd \in BOOLEAN
    /\ Blen = 3 * FrameLen(Cmd)
    /\ Blen \in 3..48
<1>1. \A cmd \in BOOLEAN : FrameLen(cmd) \in 1..16
  BY DEF FrameLen, CRPackets, DataPackets
<1>2. Cmd \in BOOLEAN
  BY DEF Cmd, COMMAND
<1>3. Blen = 3 * FrameLen(Cmd)
  BY DEF Blen
<1>4. FrameLen(Cmd) \in 1..16
  BY <1>1, <1>2
<1> QED
  BY <1>1, <1>2, <1>3, <1>4

LEMMA NumberType ==
    ASSUME NEW cmd, NEW q, Kept
    PROVE  NumberOf(cmd, q) \in 0..Len(Frames)
<1>1. Len(Frames) \in Nat
  BY WireType
<1>2. Len(sent) = Len(Frames)
  BY DEF Kept
<1>3. NumberOf(cmd, q) \in 1..Len(sent) \/ NumberOf(cmd, q) = 0
  BY Zenon DEF NumberOf
<1> QED
  BY <1>1, <1>2, <1>3

LEMMA InitFraming == Init => FramingInv
<1> SUFFICES ASSUME Init
             PROVE  FramingInv
  OBVIOUS
<1>1. line \in Seq(Byte) /\ hit \in 0..Len(Frames)
  BY LineType
<1>2. polarity \in {-1, 0, 1}
  BY PolarityType DEF Init
<1>3. mode = "hunt" /\ rdbuf = << >> /\ delivered = << >>
  BY DEF Init
<1>4. rdbuf \in Seq(Byte) /\ delivered \in Seq(0..Len(Frames))
  BY <1>3, EmptySeq
<1>5. /\ slot = [cmd \in BOOLEAN |-> slot[cmd]]
      /\ \A cmd \in BOOLEAN : slot[cmd] \in [1..FrameLen(cmd) -> Word]
  BY DEF Init, FrameLen, Word
<1>6. Len(sent) = Len(Frames)
  BY WireType DEF Init
<1> QED
  BY <1>1, <1>2, <1>3, <1>4, <1>5, <1>6 DEF FramingInv, TypeOK, Kept

\* A step that leaves slots and delivered frames alone.
LEMMA HuntKeeps == ASSUME FramingInv, Hunt PROVE FramingInv'
<1> USE DEF FramingInv, Hunt
<1>1. line' \in Seq(Byte) /\ Head(line) \in Byte
  BY HeadTailProperties DEF TypeOK
<1>2. UNCHANGED <<sent, hit, polarity, slot, delivered>> /\ mode = "hunt"
  OBVIOUS
<1>3. CASE SOFR(Head(line))
  <2>1. mode' = "read" /\ rdbuf' = <<Head(line)>>
    BY <1>3
  <2>2. rdbuf' \in Seq(Byte) /\ Len(rdbuf') = 1
    BY <1>1, <2>1
  <2>3. 1 < Blen'
    <3>1. FrameLen(Cmd') \in 1..16
      BY DEF FrameLen, CRPackets, DataPackets
    <3> QED
      BY <3>1 DEF Blen
  <2> QED
    BY <1>1, <1>2, <2>1, <2>2, <2>3 DEF TypeOK, Kept, FrameLen
<1>4. CASE ~ SOFR(Head(line))
  <2>1. UNCHANGED <<mode, rdbuf>>
    BY <1>4
  <2> QED
    BY <1>1, <1>2, <2>1 DEF TypeOK, Kept, FrameLen
<1> QED
  BY <1>3, <1>4

\* Reading on never reads more than the frame has.
LEMMA ReadRestKeeps == ASSUME FramingInv, ReadRest PROVE FramingInv'
<1>0. UNCHANGED <<sent, hit, polarity, slot, delivered>> /\ mode = "read" /\ line # << >>
  BY DEF ReadRest
<1>1. /\ line \in Seq(Byte) /\ Len(line) \in Nat /\ Len(line) > 0
      /\ rdbuf \in Seq(Byte) /\ Len(rdbuf) \in Nat /\ Len(rdbuf) > 0 /\ Len(rdbuf) < Blen
  <2>1. line \in Seq(Byte) /\ rdbuf \in Seq(Byte) /\ Len(rdbuf) > 0 /\ Len(rdbuf) < Blen
    BY <1>0 DEF FramingInv, TypeOK, Kept
  <2> QED
    BY <1>0, <2>1, LenProperties, EmptySeq
<1>2. Blen \in Nat
  BY FrameLens
<1> DEFINE n(size) == IF size > Need THEN Need ELSE size
           newrd(size) == IF n(size) > Len(line) THEN Len(line) ELSE n(size)
           got(size) == rdbuf \o SubSeq(line, 1, newrd(size))
<1>3. PICK size \in ReadSizes :
         /\ rdbuf' = got(size)
         /\ line' = SubSeq(line, newrd(size) + 1, Len(line))
         /\ mode' = IF Len(got(size)) < Blen THEN "read"
                    ELSE IF EndIsRight(got(size)) THEN "decode" ELSE "hunt"
  BY Zenon DEF ReadRest
<1>4. /\ newrd(size) \in Nat
      /\ newrd(size) <= Len(line)
      /\ newrd(size) <= Blen - Len(rdbuf)
  <2>1. size \in Nat /\ Need = Blen - Len(rdbuf)
    BY FramingAssumption DEF Need
  <2> QED
    BY <1>1, <1>2, <2>1
<1> DEFINE k == newrd(size)
           more == SubSeq(line, 1, k)
           rest == SubSeq(line, k + 1, Len(line))
<1> HIDE DEF n, newrd
<1>5. more \in Seq(Byte) /\ Len(more) = k /\ rest \in Seq(Byte)
  <2>1. 1 \in Int /\ k \in Int /\ k + 1 \in Int /\ Len(line) \in Int
    BY <1>1, <1>4
  <2>2. \A j \in 1..Len(line) : line[j] \in Byte
    BY <1>1, ElementOfSeq
  <2>3. (\A j \in 1..k : line[j] \in Byte) /\ (\A j \in (k + 1)..Len(line) : line[j] \in Byte)
    BY <1>1, <1>4, <2>2
  <2>4. more \in Seq(Byte) /\ Len(more) = IF 1 <= k THEN k - 1 + 1 ELSE 0
    BY <2>1, <2>3, SubSeqProperties
  <2>5. rest \in Seq(Byte)
    BY <2>1, <2>3, SubSeqProperties
  <2> QED
    BY <1>4, <2>4, <2>5
<1> HIDE DEF more, rest
<1>6. /\ rdbuf' \in Seq(Byte)
      /\ Len(rdbuf') = Len(rdbuf) + k
      /\ rdbuf'[1] = rdbuf[1]
  <2>1. rdbuf' = rdbuf \o more
    BY <1>3 DEF more
  <2>2. 1 \in 1..(Len(rdbuf) + Len(more)) /\ 1 <= Len(rdbuf)
    BY <1>1, <1>4, <1>5
  <2> QED
    BY <1>1, <1>5, <2>1, <2>2, ConcatProperties
<1>7. Blen' = Blen
  BY <1>6 DEF Blen, Cmd
<1>8. Len(rdbuf') <= Blen /\ Len(rdbuf') > 0
  BY <1>1, <1>2, <1>4, <1>6
<1>9. /\ mode' \in {"hunt", "read", "decode", "check"}
      /\ mode' = "read" => Len(rdbuf') < Blen
      /\ mode' \in {"decode", "check"} => Len(rdbuf') = Blen
  <2>1. mode' = IF Len(rdbuf') < Blen THEN "read" ELSE IF EndIsRight(rdbuf') THEN "decode" ELSE "hunt"
    BY <1>3
  <2>2. Len(rdbuf') \in Int
    BY <1>1, <1>4, <1>6
  <2> QED
    BY <1>2, <1>8, <2>1, <2>2
<1>10. line' \in Seq(Byte)
  BY <1>3, <1>5 DEF rest
<1> QED
  BY <1>0, <1>6, <1>7, <1>8, <1>9, <1>10 DEF FramingInv, TypeOK, Kept, FrameLen

\* A slot may be given a frame of its kind.
LEMMA SlotKeeps ==
    ASSUME FramingInv, NEW p \in [1..FrameLen(Cmd) -> Word],
           slot' = [slot EXCEPT ![Cmd] = p]
    PROVE  /\ slot' = [cmd \in BOOLEAN |-> slot'[cmd]]
           /\ \A cmd \in BOOLEAN : slot'[cmd] \in [1..FrameLen(cmd) -> Word]
<1>1. slot = [cmd \in BOOLEAN |-> slot[cmd]] /\ Cmd \in BOOLEAN
  BY FrameLens DEF FramingInv, Kept
<1>2. \A cmd \in BOOLEAN : slot[cmd] \in [1..FrameLen(cmd) -> Word]
  BY DEF FramingInv, TypeOK
<1>3. \A cmd \in BOOLEAN : slot'[cmd] = IF cmd = Cmd THEN p ELSE slot[cmd]
  BY <1>1
<1>4. slot' = [cmd \in BOOLEAN |-> slot'[cmd]]
  BY <1>1
<1>5. ASSUME NEW cmd \in BOOLEAN
      PROVE  slot'[cmd] \in [1..FrameLen(cmd) -> Word]
  <2>1. CASE cmd = Cmd
    <3>1. slot'[cmd] = p
      BY <1>3, <2>1
    <3> QED
      BY <2>1, <3>1
  <2>2. CASE cmd # Cmd
    BY <1>2, <1>3, <2>2
  <2> QED
    BY <2>1, <2>2
<1> QED
  BY <1>4, <1>5

\* A word is made of any three bytes.
LEMMA UnpackType == \A b1, b2, b3 : UnpackWord(b1, b2, b3) \in Word
<1> SUFFICES ASSUME NEW b1, NEW b2, NEW b3
             PROVE  UnpackWord(b1, b2, b3) \in Word
  OBVIOUS
<1>1. b1 \cap 0..3 \subseteq 0..15
  BY SMT
<1>2. {k + 4 : k \in b2 \cap 0..5} \subseteq 0..15
  BY SMT
<1>3. {k + 10 : k \in b3 \cap 0..5} \subseteq 0..15
  BY SMT
<1> QED
  BY <1>1, <1>2, <1>3 DEF UnpackWord, Word, Bit

LEMMA DecodeKeeps == ASSUME FramingInv, Decode PROVE FramingInv'
<1>0. /\ UNCHANGED <<sent, line, hit, polarity, rdbuf, delivered>>
      /\ mode = "decode" /\ mode' \in {"check", "hunt"}
  BY DEF Decode
<1> DEFINE before(i) == \A j \in 1..i : GoodWord(j)
           word(i) == UnpackWord(Chunk(i)[1], Chunk(i)[2], Chunk(i)[3])
           p == [i \in 1..FrameLen(Cmd) |-> IF before(i) THEN word(i) ELSE slot[Cmd][i]]
<1>1. slot' = [slot EXCEPT ![Cmd] = p]
  <2> HIDE DEF before, word
  <2>1. slot' = [slot EXCEPT ![Cmd] = [i \in 1..FrameLen(Cmd) |-> IF before(i) THEN word(i) ELSE @[i]]]
    BY Zenon DEF Decode, before, word
  <2> QED
    BY <2>1
<1>2. p \in [1..FrameLen(Cmd) -> Word]
  <2>1. slot[Cmd] \in [1..FrameLen(Cmd) -> Word]
    BY FrameLens DEF FramingInv, TypeOK
  <2>2. \A i \in 1..FrameLen(Cmd) : word(i) \in Word
    BY UnpackType
  <2> HIDE DEF before, word
  <2> QED
    BY <2>1, <2>2
<1> HIDE DEF p
<1>3. /\ slot' = [cmd \in BOOLEAN |-> slot'[cmd]]
      /\ \A cmd \in BOOLEAN : slot'[cmd] \in [1..FrameLen(cmd) -> Word]
  BY <1>1, <1>2, SlotKeeps
<1>4. Blen' = Blen /\ Len(rdbuf) = Blen /\ Len(rdbuf) > 0
  BY <1>0 DEF FramingInv, TypeOK, Kept, Blen, Cmd
<1> QED
  BY <1>0, <1>3, <1>4 DEF FramingInv, TypeOK, Kept, FrameLen

LEMMA DeliverKeeps == ASSUME FramingInv, Deliver PROVE FramingInv'
<1> DEFINE p == slot[Cmd]
           q == IF Cmd THEN p ELSE Adjusted(p)
<1>0. UNCHANGED <<sent, line, hit, polarity, rdbuf>> /\ mode = "check" /\ mode' = "hunt"
  BY DEF Deliver
<1>1. \/ slot' = [slot EXCEPT ![Cmd] = q] /\ delivered' = Append(delivered, NumberOf(Cmd, q))
      \/ UNCHANGED <<slot, delivered>>
  BY DEF Deliver
<1>2. q \in [1..FrameLen(Cmd) -> Word]
  <2>1. p \in [1..FrameLen(Cmd) -> Word]
    BY FrameLens DEF FramingInv, TypeOK
  <2>2. CASE Cmd
    BY <2>1, <2>2
  <2>3. CASE ~Cmd
    <3>1. FrameLen(Cmd) = DataPackets
      BY <2>3 DEF FrameLen
    <3>2. \A n : Bits(n) \in Word
      BY DEF Bits, Word
    <3>3. Adjusted(p) \in [1..DataPackets -> Word]
      BY <2>1, <3>1, <3>2 DEF Adjusted
    <3> QED
      BY <2>3, <3>1, <3>3
  <2> QED
    BY <2>2, <2>3
<1> HIDE DEF p, q
<1>3. /\ slot' = [cmd \in BOOLEAN |-> slot'[cmd]]
      /\ \A cmd \in BOOLEAN : slot'[cmd] \in [1..FrameLen(cmd) -> Word]
      /\ delivered' \in Seq(0..Len(Frames))
  <2>1. CASE slot' = [slot EXCEPT ![Cmd] = q] /\ delivered' = Append(delivered, NumberOf(Cmd, q))
    <3>1. NumberOf(Cmd, q) \in 0..Len(Frames) /\ delivered \in Seq(0..Len(Frames))
      BY NumberType DEF FramingInv, TypeOK
    <3> QED
      BY <1>2, <2>1, <3>1, SlotKeeps, AppendProperties
  <2>2. CASE UNCHANGED <<slot, delivered>>
    BY <2>2 DEF FramingInv, TypeOK, Kept
  <2> QED
    BY <1>1, <2>1, <2>2
<1> QED
  BY <1>0, <1>3 DEF FramingInv, TypeOK, Kept, FrameLen

LEMMA NextFraming == FramingInv /\ [Next]_vars => FramingInv'
<1> SUFFICES ASSUME FramingInv, [Next]_vars
             PROVE  FramingInv'
  OBVIOUS
<1>1. CASE Hunt
  BY <1>1, HuntKeeps
<1>2. CASE ReadRest
  BY <1>2, ReadRestKeeps
<1>3. CASE Decode
  BY <1>3, DecodeKeeps
<1>4. CASE Deliver
  BY <1>4, DeliverKeeps
<1>5. CASE UNCHANGED vars
  BY <1>5 DEF vars, FramingInv, TypeOK, Kept, Blen, Cmd, FrameLen
<1> QED
  BY <1>1, <1>2, <1>3, <1>4, <1>5 DEF Next

THEOREM Framing == Spec => []FramingInv
<1>1. Init => FramingInv
  BY InitFraming
<1>2. FramingInv /\ [Next]_vars => FramingInv'
  BY NextFraming
<1> QED
  BY <1>1, <1>2, PTL DEF Spec

\* Acquire never reads beyond the frame it is in, its buffers hold words
\* however damaged the bytes are, and a frame is decoded only when it is there
\* in full: whatever is sent, wherever the fault is.
THEOREM TypeCorrect == Spec => []TypeOK
<1>1. FramingInv => TypeOK
  BY DEF FramingInv
<1> QED
  BY <1>1, Framing, PTL

\* The table of CRC() takes every word that arrives, damaged or not, into the
\* CRC as the polynomial x16 + x12 + x5 + 1 does.
THEOREM TableOnTheLine == Spec => []CrcIsPolynomial
<1>1. FramingInv => CrcIsPolynomial
  <2> SUFFICES ASSUME FramingInv, NEW i \in 2..FrameLen(Cmd)
               PROVE  NextCrc(slot[Cmd][i - 1], slot[Cmd][i])
                          = PolynomialCrc(slot[Cmd][i - 1], slot[Cmd][i])
    BY DEF CrcIsPolynomial
  <2>1. slot[Cmd] \in [1..FrameLen(Cmd) -> Word]
    BY FrameLens DEF FramingInv, TypeOK
  <2>2. i \in 1..FrameLen(Cmd) /\ i - 1 \in 1..FrameLen(Cmd)
    BY FrameLens
  <2> QED
    BY <2>1, <2>2, TableIsPolynomial
<1> QED
  BY <1>1, Framing, PTL

-----------------------------------------------------------------------------
(* Where the parts of a flattened sequence are.                            *)

\* How long the first n are together.
EndOf(seqs, n) == IF n = 0 THEN 0 ELSE Len(Flat(seqs)[n])

LEMMA FlatParts ==
    ASSUME NEW S, NEW seqs \in Seq(Seq(S))
    PROVE  /\ EndOf(seqs, 0) = 0
           /\ \A n \in 0 .. Len(seqs) : EndOf(seqs, n) \in Nat
           /\ \A n \in 1 .. Len(seqs) : /\ seqs[n] \in Seq(S) /\ Len(seqs[n]) \in Nat
                                        /\ EndOf(seqs, n) = EndOf(seqs, n - 1) + Len(seqs[n])
           /\ Len(FlattenSeq(seqs)) = EndOf(seqs, Len(seqs))
           /\ \A n \in 1 .. Len(seqs) : \A j \in 1 .. Len(seqs[n]) :
                 FlattenSeq(seqs)[EndOf(seqs, n - 1) + j] = seqs[n][j]
<1> DEFINE m == Len(seqs)
           f == Flat(seqs)
           e(n) == EndOf(seqs, n)
<1>1. \A n \in 1 .. m : f[n] \in Seq(S) /\ f[n] = IF n = 1 THEN seqs[n] ELSE f[n - 1] \o seqs[n]
  BY FlatUnfold
<1>2. FlattenSeq(seqs) = IF m = 0 THEN << >> ELSE f[m]
  BY FlatUnfold
<1>3. m \in Nat /\ \A n \in 1 .. m : seqs[n] \in Seq(S) /\ Len(seqs[n]) \in Nat
  BY LenProperties, ElementOfSeq
<1>4. e(0) = 0 /\ \A n \in 1 .. m : e(n) = Len(f[n])
  BY <1>3 DEF EndOf
<1>5. \A n \in 0 .. m : e(n) \in Nat
  <2>1. \A n \in 0 .. m : n = 0 \/ n \in 1 .. m
    BY <1>3
  <2> HIDE DEF e, f, m
  <2> QED
    BY <1>1, <1>4, <2>1, LenProperties
<1> HIDE DEF e, f, m
\* One more part behind the others.
<1>6. ASSUME NEW n \in 1 .. m
      PROVE  /\ e(n) = e(n - 1) + Len(seqs[n])
             /\ \A j \in 1 .. Len(seqs[n]) : f[n][e(n - 1) + j] = seqs[n][j]
             /\ n # 1 => \A j \in 1 .. e(n - 1) : f[n][j] = f[n - 1][j]
  <2>1. CASE n = 1
    <3>1. f[n] = seqs[n] /\ e(n) = Len(f[n]) /\ e(n - 1) = 0
      BY <1>1, <1>4, <2>1
    <3>2. \A j \in 1 .. Len(seqs[n]) : e(n - 1) + j = j
      BY <1>3, <3>1
    <3> QED
      BY <1>3, <2>1, <3>1, <3>2
  <2>2. CASE n # 1
    <3>1. n - 1 \in 1 .. m /\ n - 1 \in 0 .. m
      BY <1>3, <2>2
    <3>0. e(n - 1) \in Nat /\ Len(seqs[n]) \in Nat
      BY <1>3, <1>5, <3>1
    <3>2. /\ f[n] = f[n - 1] \o seqs[n] /\ f[n - 1] \in Seq(S) /\ seqs[n] \in Seq(S)
          /\ e(n) = Len(f[n]) /\ e(n - 1) = Len(f[n - 1])
          /\ e(n - 1) \in Nat /\ Len(seqs[n]) \in Nat
      BY <1>1, <1>3, <1>4, <2>2, <3>0, <3>1
    <3>3. /\ Len(f[n]) = Len(f[n - 1]) + Len(seqs[n])
          /\ \A j \in 1 .. Len(f[n - 1]) + Len(seqs[n]) :
                f[n][j] = IF j <= Len(f[n - 1]) THEN f[n - 1][j] ELSE seqs[n][j - Len(f[n - 1])]
      <4> DEFINE Joined(c, a, b) ==
                    /\ Len(c) = Len(a) + Len(b)
                    /\ \A j \in 1 .. Len(a) + Len(b) :
                          c[j] = IF j <= Len(a) THEN a[j] ELSE b[j - Len(a)]
      <4>1. \A a, b \in Seq(S) : Joined(a \o b, a, b)
        BY ConcatProperties
      <4> HIDE DEF Joined
      <4>2. Joined(f[n], f[n - 1], seqs[n])
        BY <3>2, <4>1
      <4> QED
        BY <4>2 DEF Joined
    <3>4. ASSUME NEW j \in 1 .. Len(seqs[n])
          PROVE  f[n][e(n - 1) + j] = seqs[n][j]
      <4>1. /\ e(n - 1) + j \in 1 .. e(n - 1) + Len(seqs[n])
            /\ ~(e(n - 1) + j <= e(n - 1)) /\ (e(n - 1) + j) - e(n - 1) = j
        BY <3>0
      <4> QED
        BY <3>2, <3>3, <4>1
    <3>5. ASSUME NEW j \in 1 .. e(n - 1)
          PROVE  f[n][j] = f[n - 1][j]
      <4>1. j \in 1 .. e(n - 1) + Len(seqs[n]) /\ j <= e(n - 1)
        BY <3>0
      <4> QED
        BY <3>2, <3>3, <4>1
    <3> QED
      BY <3>2, <3>3, <3>4, <3>5
  <2> QED
    BY <2>1, <2>2
<1> DEFINE Placed(n, k) == /\ e(k) <= e(n)
                           /\ \A j \in 1 .. Len(seqs[k]) : f[n][e(k - 1) + j] = seqs[k][j]
           Right == {n \in Nat : n \in 1 .. m => \A k \in 1 .. n : Placed(n, k)}
<1>7. 0 \in Right
  OBVIOUS
<1>8. ASSUME NEW n \in Nat, n \in Right
      PROVE  n + 1 \in Right
  <2>1. SUFFICES ASSUME n + 1 \in 1 .. m, NEW k \in 1 .. n + 1
                 PROVE  Placed(n + 1, k)
    OBVIOUS
  <2>2. (n + 1) - 1 = n /\ n \in 0 .. m /\ k \in 1 .. m /\ k - 1 \in 0 .. m
    BY <1>3, <2>1
  <2>3. e(n) \in Nat /\ e(k) \in Nat /\ e(k - 1) \in Nat /\ Len(seqs[k]) \in Nat
    BY <1>3, <1>5, <2>2
  <2>4. CASE k = n + 1
    BY <1>5, <1>6, <2>1, <2>2, <2>4
  <2>5. CASE k # n + 1
    <3>1. k \in 1 .. n /\ n \in 1 .. m /\ n + 1 # 1
      BY <1>3, <2>1, <2>5
    <3>2. Placed(n, k)
      BY <1>8, <3>1
    <3>3. e(n) <= e(n + 1)
      <4>1. e(n + 1) = e(n) + Len(seqs[n + 1]) /\ Len(seqs[n + 1]) \in Nat
        BY <1>3, <1>6, <2>1, <2>2
      <4> QED
        BY <2>3, <4>1
    <3>4. e(k) <= e(n + 1)
      BY <2>1, <2>3, <1>5, <3>2, <3>3
    <3>5. e(k) = e(k - 1) + Len(seqs[k])
      BY <1>6, <2>2
    <3>6. ASSUME NEW j \in 1 .. Len(seqs[k])
          PROVE  f[n + 1][e(k - 1) + j] = seqs[k][j]
      <4>1. e(k - 1) + j \in 1 .. e(n)
        BY <2>3, <3>2, <3>5
      <4>2. f[n + 1][e(k - 1) + j] = f[n][e(k - 1) + j]
        BY <1>6, <2>1, <2>2, <3>1, <4>1
      <4> QED
        BY <3>2, <4>2
    <3> QED
      BY <3>4, <3>6
  <2> QED
    BY <2>4, <2>5
<1> HIDE DEF Right
<1>9. Nat \subseteq Right
  BY <1>7, <1>8, Induction
<1>10. \A n \in 1 .. m : \A j \in 1 .. Len(seqs[n]) : FlattenSeq(seqs)[e(n - 1) + j] = seqs[n][j]
  <2>1. ASSUME NEW n \in 1 .. m
        PROVE  \A j \in 1 .. Len(seqs[n]) : FlattenSeq(seqs)[e(n - 1) + j] = seqs[n][j]
    <3>1. m \in Nat /\ m \in 1 .. m /\ m # 0
      BY <1>3
    <3>2. Placed(m, n)
      BY <1>9, <3>1 DEF Right
    <3> QED
      BY <1>2, <3>1, <3>2
  <2> QED
    BY <2>1
<1>11. Len(FlattenSeq(seqs)) = e(m)
  <2>1. CASE m = 0
    BY <1>2, <1>4, <2>1, EmptySeq
  <2>2. CASE m # 0
    <3>1. m \in 1 .. m
      BY <1>3, <2>2
    <3> QED
      BY <1>2, <1>4, <2>2, <3>1
  <2> QED
    BY <2>1, <2>2
<1> QED
  BY <1>3, <1>4, <1>5, <1>6, <1>10, <1>11 DEF e, m

\* Every place is in one of the parts.
LEMMA FlatLocated ==
    ASSUME NEW S, NEW seqs \in Seq(Seq(S)), NEW g \in 1 .. Len(FlattenSeq(seqs))
    PROVE  \E n \in 1 .. Len(seqs) : \E j \in 1 .. Len(seqs[n]) : g = EndOf(seqs, n - 1) + j
<1> DEFINE m == Len(seqs)
           e(n) == EndOf(seqs, n)
           Found == \E n \in 1 .. m : \E j \in 1 .. Len(seqs[n]) : g = e(n - 1) + j
           Right == {n \in Nat : n <= m /\ g <= e(n) => Found}
<1>1. /\ e(0) = 0
      /\ \A n \in 0 .. m : e(n) \in Nat
      /\ \A n \in 1 .. m : Len(seqs[n]) \in Nat /\ e(n) = e(n - 1) + Len(seqs[n])
      /\ Len(FlattenSeq(seqs)) = e(m)
  BY FlatParts
<1>2. m \in Nat
  BY LenProperties
<1> HIDE DEF e, m
<1>3. 0 \in Right
  BY <1>1
<1>4. ASSUME NEW n \in Nat, n \in Right
      PROVE  n + 1 \in Right
  <2>1. SUFFICES ASSUME n + 1 <= m, g <= e(n + 1), ~(g <= e(n))
                 PROVE  Found
    BY <1>2, <1>4
  <2>2. n + 1 \in 1 .. m /\ (n + 1) - 1 = n /\ n \in 0 .. m
    BY <1>2, <2>1
  <2>3. e(n + 1) = e(n) + Len(seqs[n + 1]) /\ e(n) \in Nat /\ Len(seqs[n + 1]) \in Nat
    BY <1>1, <2>2
  <2>4. g \in Int
    BY <1>1, <1>2
  <2>5. g - e(n) \in 1 .. Len(seqs[n + 1]) /\ g = e(n) + (g - e(n))
    BY <2>1, <2>3, <2>4
  <2> QED
    BY <2>2, <2>5
<1> HIDE DEF Right, Found
<1>5. m \in Right
  BY <1>2, <1>3, <1>4, Induction
<1>6. g <= e(m)
  BY <1>1
<1> QED
  BY <1>2, <1>5, <1>6 DEF Right, Found, e, m

-----------------------------------------------------------------------------
(* The bytes of the frames.                                                *)

\* b are the n words, three bytes each.
Packs(b, words, n, cmd) ==
    /\ Len(b) = 3 * n
    /\ \A k \in 1 .. n, t \in 1 .. 3 :
          b[3 * (k - 1) + t] = PackWord(words[k], Flags(k, n, cmd))[t]

LEMMA FramePacked ==
    ASSUME NEW words \in Seq(Word), NEW cmd \in BOOLEAN
    PROVE  Packs(FrameBytes(words, cmd), words, Len(words), cmd)
<1> DEFINE n == Len(words)
           pack(k) == PackWord(words[k], Flags(k, n, cmd))
           packed == [k \in 1 .. n |-> pack(k)]
           e(k) == EndOf(packed, k)
<1>1. n \in Nat /\ \A k \in 1 .. n : words[k] \in Word
  BY LenProperties, ElementOfSeq
<1>2. ASSUME NEW k \in 1 .. n
      PROVE  pack(k) \in Seq(Byte) /\ Len(pack(k)) = 3
  <2>1. Flags(k, n, cmd) \in SUBSET {4, 5, 6}
    BY DEF Flags
  <2>2. pack(k) \in Seq(Byte)
    BY <1>1, <2>1, PackType
  <2>3. Len(pack(k)) = 3
    BY DEF PackWord
  <2> QED
    BY <2>2, <2>3
<1> HIDE DEF n, pack
<1>3. packed \in Seq(Seq(Byte)) /\ Len(packed) = n /\ \A k \in 1 .. n : packed[k] = pack(k)
  BY <1>1, <1>2
<1> HIDE DEF packed
<1>4. /\ e(0) = 0
      /\ \A k \in 1 .. n : e(k) = e(k - 1) + Len(packed[k])
      /\ Len(FlattenSeq(packed)) = e(n)
      /\ \A k \in 1 .. n : \A t \in 1 .. Len(packed[k]) : FlattenSeq(packed)[e(k - 1) + t] = packed[k][t]
  BY <1>3, FlatParts
<1> HIDE DEF e
<1>5. \A k \in 0 .. n : e(k) = 3 * k
  <2> DEFINE Right == {k \in Nat : k <= n => e(k) = 3 * k}
  <2>1. 0 \in Right
    BY <1>4
  <2>2. ASSUME NEW k \in Nat, k \in Right
        PROVE  k + 1 \in Right
    <3>1. SUFFICES ASSUME k + 1 <= n
                   PROVE  e(k + 1) = 3 * (k + 1)
      OBVIOUS
    <3>2. k + 1 \in 1 .. n /\ (k + 1) - 1 = k /\ e(k) = 3 * k
      BY <1>1, <2>2, <3>1
    <3>3. e(k + 1) = e(k) + Len(packed[k + 1]) /\ packed[k + 1] = pack(k + 1)
      BY <1>3, <1>4, <3>2
    <3>4. Len(packed[k + 1]) = 3
      BY <1>2, <1>3, <3>2
    <3>5. e(k + 1) = 3 * k + 3
      BY <3>2, <3>3, <3>4
    <3> QED
      BY <3>5
  <2> HIDE DEF Right
  <2>3. Nat \subseteq Right
    BY <2>1, <2>2, Induction
  <2> QED
    BY <1>1, <2>3 DEF Right
<1>6. FrameBytes(words, cmd) = FlattenSeq(packed)
  BY DEF FrameBytes, packed, pack, n
<1>7. Len(FlattenSeq(packed)) = 3 * n
  BY <1>1, <1>4, <1>5
<1>8. ASSUME NEW k \in 1 .. n, NEW t \in 1 .. 3
      PROVE  FlattenSeq(packed)[3 * (k - 1) + t] = pack(k)[t]
  <2>1. k - 1 \in 0 .. n /\ e(k - 1) = 3 * (k - 1)
    BY <1>1, <1>5
  <2>2. packed[k] = pack(k) /\ t \in 1 .. Len(packed[k])
    BY <1>2, <1>3
  <2> QED
    BY <1>4, <2>1, <2>2
<1> QED
  BY <1>6, <1>7, <1>8 DEF Packs, pack, n

NF == Len(Frames)

\* Frame i as it is sent, its kind and length, and the bytes before it.
Sent(i) == WithCrc(Frames[i].words)
Kind(i) == Frames[i].cmd
Size(i) == FrameLen(Kind(i))
Before(i) == EndOf(Wire, i - 1)

\* Byte t of word k of frame i.
At(i, k, t) == Before(i) + 3 * (k - 1) + t

LEMMA FrameFacts ==
    ASSUME NEW i \in 1 .. NF
    PROVE  /\ Kind(i) \in BOOLEAN
           /\ Size(i) \in {4, 16}
           /\ Sent(i) \in Seq(Word)
           /\ Len(Sent(i)) = Size(i)
           /\ Frames[i].words \in Seq(Word)
<1>1. Frames[i] \in [cmd : BOOLEAN, words : Seq(Word)]
  BY FramingAssumption, ElementOfSeq DEF NF
<1>2. Kind(i) \in BOOLEAN /\ Frames[i].words \in Seq(Word)
  BY <1>1 DEF Kind
<1>3. Size(i) \in {4, 16}
  BY DEF Size, FrameLen, CRPackets, DataPackets
<1>4. Sent(i) \in Seq(Word) /\ Len(Sent(i)) = Len(Frames[i].words) + 1
  BY <1>2, CrcType, AppendProperties DEF Sent, WithCrc
<1>5. Len(Frames[i].words) = Size(i) - 1
  BY FramingAssumption DEF NF, Size, Kind, FrameLen
<1> QED
  BY <1>2, <1>3, <1>4, <1>5

LEMMA WireFacts ==
    /\ NF \in Nat
    /\ \A i \in 1 .. NF : Before(i) \in Nat /\ Before(i + 1) = Before(i) + 3 * Size(i)
    /\ \A i \in 1 .. NF : Len(Wire[i]) = 3 * Size(i)
    /\ Before(1) = 0
    /\ Before(NF + 1) = Len(AllBytes)
    /\ \A i \in 1 .. NF, k, t \in Int :
          k \in 1 .. Size(i) /\ t \in 1 .. 3 =>
             /\ AllBytes[At(i, k, t)] = PackWord(Sent(i)[k], Flags(k, Size(i), Kind(i)))[t]
             /\ FrameOf[At(i, k, t)] = i
<1>1. NF \in Nat /\ Wire \in Seq(Seq(Byte)) /\ Len(Wire) = NF
  BY WireType DEF NF
<1>2. /\ EndOf(Wire, 0) = 0
      /\ \A n \in 0 .. NF : EndOf(Wire, n) \in Nat
      /\ \A n \in 1 .. NF : EndOf(Wire, n) = EndOf(Wire, n - 1) + Len(Wire[n])
      /\ Len(AllBytes) = EndOf(Wire, NF)
      /\ \A n \in 1 .. NF : \A j \in 1 .. Len(Wire[n]) :
            AllBytes[EndOf(Wire, n - 1) + j] = Wire[n][j]
  BY <1>1, FlatParts DEF AllBytes
<1>3. ASSUME NEW i \in 1 .. NF
      PROVE  /\ Len(Wire[i]) = 3 * Size(i)
             /\ \A k \in 1 .. Size(i), t \in 1 .. 3 :
                   Wire[i][3 * (k - 1) + t] = PackWord(Sent(i)[k], Flags(k, Size(i), Kind(i)))[t]
  <2>1. Wire[i] = FrameBytes(Sent(i), Kind(i))
    BY DEF Wire, Sent, Kind, NF
  <2>2. Sent(i) \in Seq(Word) /\ Kind(i) \in BOOLEAN /\ Len(Sent(i)) = Size(i)
    BY FrameFacts
  <2>3. Packs(Wire[i], Sent(i), Size(i), Kind(i))
    BY <2>1, <2>2, FramePacked
  <2> QED
    BY <2>3 DEF Packs
<1>4. \A i \in 1 .. NF : Size(i) \in Nat
  BY FrameFacts
<1>5. ASSUME NEW i \in 1 .. NF, NEW k \in 1 .. Size(i), NEW t \in 1 .. 3
      PROVE  3 * (k - 1) + t \in 1 .. Len(Wire[i])
  <2>1. Size(i) \in Nat /\ Len(Wire[i]) = 3 * Size(i)
    BY <1>3, <1>4
  <2> QED
    BY <2>1
<1>6. ASSUME NEW i \in 1 .. NF
      PROVE  Before(i) \in Nat /\ Before(i + 1) = Before(i) + 3 * Size(i)
  <2>1. i - 1 \in 0 .. NF /\ (i + 1) - 1 = i
    BY <1>1
  <2> QED
    BY <1>2, <1>3, <2>1 DEF Before
<1>7. Before(1) = 0 /\ Before(NF + 1) = Len(AllBytes)
  <2>1. 1 - 1 = 0 /\ (NF + 1) - 1 = NF
    BY <1>1
  <2> QED
    BY <1>2, <2>1 DEF Before
<1>8. ASSUME NEW i \in 1 .. NF, NEW k \in 1 .. Size(i), NEW t \in 1 .. 3
      PROVE  AllBytes[At(i, k, t)] = PackWord(Sent(i)[k], Flags(k, Size(i), Kind(i)))[t]
  <2>1. At(i, k, t) = EndOf(Wire, i - 1) + (3 * (k - 1) + t)
    BY <1>4, <1>6 DEF At, Before
  <2> QED
    BY <1>2, <1>3, <1>5, <2>1
\* The numbers of the frames lie as their bytes do.
<1> DEFINE S == 1 .. NF
           numbers == [i \in S |-> [j \in 1 .. Len(Wire[i]) |-> i]]
<1>9. numbers \in Seq(Seq(S)) /\ Len(numbers) = NF /\ \A i \in S : Len(numbers[i]) = Len(Wire[i])
  <2> DEFINE value(i) == [j \in 1 .. Len(Wire[i]) |-> i]
  <2>1. \A i \in S : Len(Wire[i]) \in Nat
    BY <1>3, <1>4
  <2>2. \A i \in S : value(i) \in Seq(S) /\ Len(value(i)) = Len(Wire[i])
    BY <2>1
  <2> HIDE DEF value
  <2>3. [i \in 1 .. NF |-> value(i)] \in Seq(Seq(S)) /\ Len([i \in 1 .. NF |-> value(i)]) = NF
    BY <1>1, <2>2
  <2>4. \A i \in S : [l \in 1 .. NF |-> value(l)][i] = value(i)
    OBVIOUS
  <2>5. numbers = [i \in 1 .. NF |-> value(i)]
    BY DEF value
  <2> HIDE DEF numbers
  <2> QED
    BY <2>2, <2>3, <2>4, <2>5
<1>10. \A i \in S : \A j \in 1 .. Len(Wire[i]) : numbers[i][j] = i
  OBVIOUS
<1>11. FrameOf = FlattenSeq(numbers)
  BY DEF FrameOf, NF
<1> HIDE DEF numbers
<1>12. /\ EndOf(numbers, 0) = 0
       /\ \A n \in 1 .. NF : EndOf(numbers, n) = EndOf(numbers, n - 1) + Len(numbers[n])
       /\ \A n \in 1 .. NF : \A j \in 1 .. Len(numbers[n]) :
             FrameOf[EndOf(numbers, n - 1) + j] = numbers[n][j]
  <2>1. /\ EndOf(numbers, 0) = 0
        /\ \A n \in 1 .. Len(numbers) : EndOf(numbers, n) = EndOf(numbers, n - 1) + Len(numbers[n])
        /\ \A n \in 1 .. Len(numbers) : \A j \in 1 .. Len(numbers[n]) :
              FlattenSeq(numbers)[EndOf(numbers, n - 1) + j] = numbers[n][j]
    <3>1. numbers \in Seq(Seq(S))
      BY <1>9
    <3> HIDE DEF S
    <3> QED
      BY <3>1, FlatParts
  <2> QED
    BY <1>9, <1>11, <2>1
<1>13. \A n \in 0 .. NF : EndOf(numbers, n) = EndOf(Wire, n)
  <2> DEFINE Right == {n \in Nat : n <= NF => EndOf(numbers, n) = EndOf(Wire, n)}
  <2>1. 0 \in Right
    BY <1>2, <1>12
  <2>2. ASSUME NEW n \in Nat, n \in Right
        PROVE  n + 1 \in Right
    <3>1. SUFFICES ASSUME n + 1 <= NF
                   PROVE  EndOf(numbers, n + 1) = EndOf(Wire, n + 1)
      OBVIOUS
    <3>2. n + 1 \in 1 .. NF /\ (n + 1) - 1 = n /\ EndOf(numbers, n) = EndOf(Wire, n)
      BY <1>1, <2>2, <3>1
    <3> QED
      BY <1>2, <1>9, <1>12, <3>2
  <2> HIDE DEF Right
  <2>3. Nat \subseteq Right
    BY <2>1, <2>2, Induction
  <2> QED
    BY <1>1, <2>3 DEF Right
<1>14. ASSUME NEW i \in 1 .. NF, NEW k \in 1 .. Size(i), NEW t \in 1 .. 3
       PROVE  FrameOf[At(i, k, t)] = i
  <2>1. At(i, k, t) = EndOf(Wire, i - 1) + (3 * (k - 1) + t)
    BY <1>4, <1>6 DEF At, Before
  <2>2. EndOf(numbers, i - 1) = EndOf(Wire, i - 1)
    <3>1. i - 1 \in 0 .. NF
      BY <1>1
    <3> QED
      BY <1>13, <3>1
  <2>3. 3 * (k - 1) + t \in 1 .. Len(Wire[i]) /\ Len(numbers[i]) = Len(Wire[i])
    BY <1>5, <1>9
  <2> QED
    BY <1>10, <1>12, <2>1, <2>2, <2>3
<1>15. /\ \A i \in 1 .. NF : Before(i) \in Nat /\ Before(i + 1) = Before(i) + 3 * Size(i)
       /\ \A i \in 1 .. NF : Len(Wire[i]) = 3 * Size(i)
  BY <1>3, <1>6
<1>16. \A i \in 1 .. NF, k, t \in Int :
          k \in 1 .. Size(i) /\ t \in 1 .. 3 =>
             /\ AllBytes[At(i, k, t)] = PackWord(Sent(i)[k], Flags(k, Size(i), Kind(i)))[t]
             /\ FrameOf[At(i, k, t)] = i
  BY <1>8, <1>14
<1> QED
  BY <1>1, <1>7, <1>15, <1>16, Zenon

\* What the bytes of word k of frame i say.
LEMMA ByteFlags ==
    ASSUME NEW i \in 1 .. NF, NEW k \in 1 .. Size(i)
    PROVE  LET b1 == AllBytes[At(i, k, 1)]
               b2 == AllBytes[At(i, k, 2)]
               b3 == AllBytes[At(i, k, 3)]
           IN  /\ FIRST(b1) /\ SECOND(b2) /\ THIRD(b3)
               /\ SOFR(b1) <=> k = 1
               /\ EOFR(b1) <=> k = Size(i)
               /\ COMMAND(b1) <=> Kind(i)
               /\ UnpackWord(b1, b2, b3) = Sent(i)[k]
<1> DEFINE w == Sent(i)[k]
           flags == Flags(k, Size(i), Kind(i))
           b == PackWord(w, flags)
<1>1. /\ Kind(i) \in BOOLEAN /\ Size(i) \in Nat
      /\ Sent(i) \in Seq(Word) /\ Len(Sent(i)) = Size(i)
  BY FrameFacts
<1>2. w \in Word
  BY <1>1, ElementOfSeq
<1>3. /\ flags \in SUBSET {4, 5, 6}
      /\ 6 \in flags <=> k = 1
      /\ 5 \in flags <=> k = Size(i)
      /\ 4 \in flags <=> Kind(i)
  BY <1>1 DEF Flags
<1>4. /\ AllBytes[At(i, k, 1)] = b[1]
      /\ AllBytes[At(i, k, 2)] = b[2]
      /\ AllBytes[At(i, k, 3)] = b[3]
  <2>0. k \in Int
    BY <1>1
  <2>1. ASSUME NEW t \in 1 .. 3
        PROVE  AllBytes[At(i, k, t)] = b[t]
    BY <2>0, t \in Int, WireFacts
  <2> QED
    BY <2>1
<1> HIDE DEF w, flags
<1>5. /\ FIRST(b[1]) /\ SECOND(b[2]) /\ THIRD(b[3])
      /\ UnpackWord(b[1], b[2], b[3]) = w
      /\ SOFR(b[1]) <=> 6 \in flags
      /\ EOFR(b[1]) <=> 5 \in flags
      /\ COMMAND(b[1]) <=> 4 \in flags
  BY <1>2, <1>3, WordsComeBack
<1> HIDE DEF b
<1> QED
  BY <1>3, <1>4, <1>5 DEF w

\* The numbers in which bytes are found.
LEMMA Numbers ==
    /\ NF \in Nat
    /\ \A i \in 1 .. NF : Size(i) \in {4, 16} /\ Before(i) \in Nat
    /\ \A i \in 1 .. NF, k, t \in Int : At(i, k, t) \in Int /\ At(i, k, t) = Before(i) + 3 * (k - 1) + t
    /\ \A i \in 1 .. NF : i # NF => /\ i + 1 \in 1 .. NF
                                    /\ Before(i + 1) = Before(i) + 3 * Size(i)
    /\ \A i \in 1 .. NF : i = NF => Len(AllBytes) = Before(i) + 3 * Size(i)
    /\ Len(AllBytes) \in Nat
<1>1. /\ NF \in Nat
      /\ \A i \in 1 .. NF : Before(i) \in Nat /\ Before(i + 1) = Before(i) + 3 * Size(i)
      /\ Before(NF + 1) = Len(AllBytes)
  BY WireFacts
<1>2. \A i \in 1 .. NF : Size(i) \in {4, 16}
  BY FrameFacts
<1>3. \A i \in 1 .. NF, k, t \in Int : At(i, k, t) \in Int /\ At(i, k, t) = Before(i) + 3 * (k - 1) + t
  BY <1>1 DEF At
<1>4. Len(AllBytes) \in Nat
  BY BytesAndFrames, LenProperties
<1> QED
  BY <1>1, <1>2, <1>3, <1>4

\* Every byte is one of the three of a word.
LEMMA Somewhere ==
    ASSUME NEW g \in 1 .. Len(AllBytes)
    PROVE  \E i \in 1 .. NF : \E k \in 1 .. Size(i) : \E t \in 1 .. 3 : g = At(i, k, t)
<1>1. Wire \in Seq(Seq(Byte)) /\ Len(Wire) = NF
  BY WireType DEF NF
<1>2. PICK i \in 1 .. NF : \E j \in 1 .. Len(Wire[i]) : g = EndOf(Wire, i - 1) + j
  BY <1>1, FlatLocated DEF AllBytes
<1>3. PICK j \in 1 .. Len(Wire[i]) : g = Before(i) + j
  BY <1>2 DEF Before
<1>4. Size(i) \in Nat /\ Before(i) \in Nat /\ j \in 1 .. 3 * Size(i)
  <2>1. Size(i) \in {4, 16} /\ Before(i) \in Nat
    BY Numbers
  <2>2. Len(Wire[i]) = 3 * Size(i)
    BY WireFacts
  <2> QED
    BY <1>3, <2>1, <2>2
<1> DEFINE k == (j + 2) \div 3
           t == j - 3 * (k - 1)
<1>5. k \in 1 .. Size(i) /\ t \in 1 .. 3 /\ j = 3 * (k - 1) + t
  BY <1>4
<1>6. g = At(i, k, t)
  BY <1>3, <1>4, <1>5 DEF At
<1> QED
  BY <1>5, <1>6

\* Frames lie one behind the other.
LEMMA BeforeGrows ==
    ASSUME NEW i \in 1 .. NF, NEW j \in 1 .. NF, i < j
    PROVE  Before(i) < Before(j)
<1> DEFINE Right == {n \in Nat : n \in 1 .. NF /\ i < n => Before(i) < Before(n)}
<1>1. 0 \in Right
  OBVIOUS
<1>2. ASSUME NEW n \in Nat, n \in Right
      PROVE  n + 1 \in Right
  <2>1. SUFFICES ASSUME n + 1 \in 1 .. NF, i < n + 1
                 PROVE  Before(i) < Before(n + 1)
    OBVIOUS
  <2>2. n \in 1 .. NF /\ n # NF /\ (i < n \/ i = n)
    BY <2>1, Numbers
  <2>3. Before(n + 1) = Before(n) + 3 * Size(n) /\ Before(n) \in Nat /\ Size(n) \in {4, 16} /\ Before(i) \in Nat
    BY <2>2, Numbers
  <2>4. Before(i) < Before(n) \/ Before(i) = Before(n)
    BY <1>2, <2>2
  <2> QED
    BY <2>3, <2>4
<1> HIDE DEF Right
<1>3. j \in Nat
  BY Numbers
<1>4. j \in Right
  BY <1>1, <1>2, <1>3, Induction
<1> QED
  BY <1>4 DEF Right

-----------------------------------------------------------------------------
(* What Acquire accepts.                                                   *)

\* The bytes of L from s on pass the checks of ReadRest and Decode.
Length(L, s) == FrameLen(COMMAND(L[s]))

Passes(L, s) ==
    LET n == Length(L, s)
    IN  /\ s \in 1 .. Len(L) /\ s + 3 * n - 1 <= Len(L)
        /\ SOFR(L[s]) /\ EOFR(L[s + 3 * (n - 1)])
        /\ \A m \in 0 .. n - 1 :
              /\ FIRST(L[s + 3 * m]) /\ SECOND(L[s + 3 * m + 1]) /\ THIRD(L[s + 3 * m + 2])
              /\ COMMAND(L[s + 3 * m]) = COMMAND(L[s])

WordAt(L, s, m) == UnpackWord(L[s + 3 * m], L[s + 3 * m + 1], L[s + 3 * m + 2])

\* They are frame i, but for one word at most.
IsSent(L, s, i) ==
    /\ Kind(i) = COMMAND(L[s])
    /\ \E m0 \in 0 .. Size(i) - 1 :
          \A m \in 0 .. Size(i) - 1 : m # m0 => WordAt(L, s, m) = Sent(i)[m + 1]

LEMMA Lengths ==
    ASSUME NEW L, NEW s
    PROVE  /\ Length(L, s) \in {4, 16}
           /\ COMMAND(L[s]) \in BOOLEAN
           /\ \A i \in 1 .. NF : Kind(i) = COMMAND(L[s]) => Size(i) = Length(L, s)
<1>1. Length(L, s) \in {4, 16}
  BY DEF Length, FrameLen, CRPackets, DataPackets
<1>2. COMMAND(L[s]) \in BOOLEAN
  BY DEF COMMAND
<1>3. \A i \in 1 .. NF : Kind(i) = COMMAND(L[s]) => Size(i) = Length(L, s)
  BY DEF Length, Size
<1> QED
  BY <1>1, <1>2, <1>3

LEMMA Aligned ==
    ASSUME NEW L, NEW s \in Int, NEW i \in 1 .. NF, Kind(i) = COMMAND(L[s]),
           NEW m0 \in 0 .. Size(i) - 1,
           \A m \in 0 .. Size(i) - 1 : m # m0 =>
               /\ L[s + 3 * m] = AllBytes[At(i, m + 1, 1)]
               /\ L[s + 3 * m + 1] = AllBytes[At(i, m + 1, 2)]
               /\ L[s + 3 * m + 2] = AllBytes[At(i, m + 1, 3)]
    PROVE  IsSent(L, s, i)
<1>1. \A m \in 0 .. Size(i) - 1 : m # m0 => WordAt(L, s, m) = Sent(i)[m + 1]
  <2>1. SUFFICES ASSUME NEW m \in 0 .. Size(i) - 1, m # m0
                 PROVE  WordAt(L, s, m) = Sent(i)[m + 1]
    OBVIOUS
  <2>2. m + 1 \in 1 .. Size(i)
    <3>1. Size(i) \in {4, 16}
      BY Numbers
    <3>2. m \in 0 .. Size(i) - 1
      OBVIOUS
    <3> QED
      BY <3>1, <3>2
  <2> QED
    BY <2>1, <2>2, ByteFlags DEF WordAt
<1> QED
  BY <1>1 DEF IsSent

LEMMA NextStarts ==
    ASSUME NEW i \in 1 .. NF, NEW k \in 1 .. Size(i), At(i, k, 1) + 3 <= Len(AllBytes)
    PROVE  FIRST(AllBytes[At(i, k, 1) + 3])
<1>1. /\ Size(i) \in {4, 16} /\ Before(i) \in Nat /\ k \in Int
      /\ At(i, k, 1) = Before(i) + 3 * (k - 1) + 1
  <2>1. Size(i) \in {4, 16} /\ Before(i) \in Nat
    BY Numbers
  <2>2. k \in Int
    BY <2>1
  <2>3. At(i, k, 1) = Before(i) + 3 * (k - 1) + 1
    BY DEF At
  <2> QED
    BY <2>1, <2>2, <2>3
<1>2. CASE k # Size(i)
  <2>1. k + 1 \in 1 .. Size(i) /\ k + 1 \in Int
    BY <1>1, <1>2
  <2>2. At(i, k + 1, 1) = Before(i) + 3 * ((k + 1) - 1) + 1
    BY DEF At
  <2>3. At(i, k, 1) + 3 = At(i, k + 1, 1)
    BY <1>1, <2>2
  <2> QED
    BY <2>1, <2>3, ByteFlags
<1>3. CASE k = Size(i)
  <2>1. i # NF
    <3>1. i = NF => Len(AllBytes) = Before(i) + 3 * Size(i)
      BY Numbers
    <3> QED
      BY <1>1, <1>3, <3>1
  <2>2. i + 1 \in 1 .. NF /\ Before(i + 1) = Before(i) + 3 * Size(i)
    BY <2>1, Numbers
  <2>3. 1 \in 1 .. Size(i + 1)
    <3>1. Size(i + 1) \in {4, 16}
      BY <2>2, Numbers
    <3> QED
      BY <3>1
  <2>4. At(i + 1, 1, 1) = Before(i + 1) + 3 * (1 - 1) + 1
    BY DEF At
  <2>5. At(i, k, 1) + 3 = At(i + 1, 1, 1)
    BY <1>1, <1>3, <2>2, <2>4
  <2> QED
    BY <2>2, <2>3, <2>5, ByteFlags
<1> QED
  BY <1>2, <1>3

\* A window on the bytes sent, but for its first byte.
Window(L, s, g) ==
    /\ 1 <= g /\ g + 3 * Length(L, s) - 1 <= Len(AllBytes)
    /\ \A j \in 1 .. 3 * Length(L, s) - 1 : L[s + j] = AllBytes[g + j]

\* Acquire accepts such a window only where a frame is.
LEMMA WindowFrom ==
    ASSUME NEW L, NEW s \in Int, NEW g \in Int, Passes(L, s), Window(L, s, g)
    PROVE  \E i \in 1 .. NF : g = Before(i) + 1 /\ IsSent(L, s, i)
<1> DEFINE n == Length(L, s)
           N == Len(AllBytes)
<1>1. n \in {4, 16} /\ N \in Nat
  BY Lengths, Numbers
<1>2. /\ 1 <= g /\ g + 3 * n - 1 <= N
      /\ \A j \in 1 .. 3 * n - 1 : L[s + j] = AllBytes[g + j]
  BY DEF Window
<1>3. /\ EOFR(L[s + 3 * (n - 1)])
      /\ \A m \in 0 .. n - 1 :
            /\ FIRST(L[s + 3 * m]) /\ SECOND(L[s + 3 * m + 1]) /\ THIRD(L[s + 3 * m + 2])
            /\ COMMAND(L[s + 3 * m]) = COMMAND(L[s])
  BY DEF Passes
<1> HIDE DEF n, N
<1>4. SECOND(L[s + 1]) /\ THIRD(L[s + 2])
  <2>1. 0 \in 0 .. n - 1 /\ s + 3 * 0 + 1 = s + 1 /\ s + 3 * 0 + 2 = s + 2
    BY <1>1
  <2>2. SECOND(L[s + 3 * 0 + 1]) /\ THIRD(L[s + 3 * 0 + 2])
    BY <1>3, <2>1
  <2> QED
    BY <2>1, <2>2
<1>5. L[s + 1] = AllBytes[g + 1] /\ L[s + 2] = AllBytes[g + 2]
  <2>1. 1 \in 1 .. 3 * n - 1 /\ 2 \in 1 .. 3 * n - 1
    BY <1>1
  <2> QED
    BY <1>2, <2>1
<1>6. g \in 1 .. N
  BY <1>1, <1>2
<1>7b. PICK i \in 1 .. NF : \E k \in 1 .. Size(i) : \E t \in 1 .. 3 : g = At(i, k, t)
  BY <1>6, Somewhere DEF N
<1>7. PICK k \in 1 .. Size(i), t \in 1 .. 3 : g = At(i, k, t)
  BY <1>7b
<1> DEFINE B == Before(i)
           z == Size(i)
<1>8. z \in {4, 16} /\ B \in Nat /\ k \in 1 .. z /\ t \in 1 .. 3
  BY <1>7, Numbers
<1>9. g = B + 3 * (k - 1) + t
  BY <1>7 DEF At
<1>10. At(i, k, 1) = B + 3 * (k - 1) + 1
  BY DEF At
<1> HIDE DEF B, z
\* The third byte of the window would be a first one.
<1>11. t # 2
  <2>1. SUFFICES ASSUME t = 2
                 PROVE  FALSE
    OBVIOUS
  <2>2. At(i, k, 1) + 3 = g + 2 /\ g + 2 <= N
    BY <1>1, <1>2, <1>8, <1>9, <1>10, <2>1
  <2>3. FIRST(AllBytes[g + 2])
    BY <2>2, NextStarts DEF N, z
  <2> QED
    BY <1>4, <1>5, <2>3 DEF FIRST, THIRD
\* The second would be.
<1>12. t # 3
  <2>1. SUFFICES ASSUME t = 3
                 PROVE  FALSE
    OBVIOUS
  <2>2. At(i, k, 1) + 3 = g + 1 /\ g + 1 <= N
    BY <1>1, <1>2, <1>8, <1>9, <1>10, <2>1
  <2>3. FIRST(AllBytes[g + 1])
    BY <2>2, NextStarts DEF N, z
  <2> QED
    BY <1>4, <1>5, <2>3 DEF FIRST, SECOND
<1>13. t = 1 /\ g = B + 3 * (k - 1) + 1
  BY <1>8, <1>9, <1>11, <1>12
\* Byte u of word m of the window, from the second word on.
<1>14. ASSUME NEW m \in 1 .. n - 1, NEW u \in 0 .. 2
       PROVE  L[s + 3 * m + u] = AllBytes[g + 3 * m + u]
  <2>1. 3 * m + u \in 1 .. 3 * n - 1
    BY <1>1
  <2>2. L[s + (3 * m + u)] = AllBytes[g + (3 * m + u)]
    BY <1>2, <2>1
  <2>3. s + (3 * m + u) = s + 3 * m + u /\ g + (3 * m + u) = g + 3 * m + u
    BY <1>1
  <2> QED
    BY <2>2, <2>3
<1>15. \A m \in 1 .. n - 1 : L[s + 3 * m] = AllBytes[g + 3 * m]
  <2> SUFFICES ASSUME NEW m \in 1 .. n - 1
               PROVE  L[s + 3 * m] = AllBytes[g + 3 * m]
    OBVIOUS
  <2>1. 3 * m \in 1 .. 3 * n - 1
    BY <1>1
  <2> QED
    BY <1>2, <2>1
<1>16. CASE k = 1
  <2>1. g = B + 1
    BY <1>8, <1>13, <1>16
  <2>2. Kind(i) = COMMAND(L[s])
    <3>1. 1 \in 1 .. n - 1 /\ 1 \in 0 .. n - 1 /\ 2 \in 1 .. z
      BY <1>1, <1>8
    <3>2. L[s + 3 * 1] = AllBytes[g + 3 * 1] /\ COMMAND(L[s + 3 * 1]) = COMMAND(L[s])
      BY <1>3, <1>15, <3>1
    <3>3. At(i, 2, 1) = B + 3 * (2 - 1) + 1
      BY DEF At, B
    <3>4. At(i, 2, 1) = g + 3 * 1
      BY <1>8, <2>1, <3>3
    <3>5. COMMAND(AllBytes[At(i, 2, 1)]) <=> Kind(i)
      BY <3>1, ByteFlags DEF z
    <3>6. Kind(i) \in BOOLEAN /\ COMMAND(L[s]) \in BOOLEAN
      BY FrameFacts, Lengths
    <3> QED
      BY <3>2, <3>4, <3>5, <3>6
  <2>3. z = n
    BY <2>2, Lengths DEF z, n
  <2>4. \A m \in 0 .. z - 1 : m # 0 =>
            /\ L[s + 3 * m] = AllBytes[At(i, m + 1, 1)]
            /\ L[s + 3 * m + 1] = AllBytes[At(i, m + 1, 2)]
            /\ L[s + 3 * m + 2] = AllBytes[At(i, m + 1, 3)]
    <3> SUFFICES ASSUME NEW m \in 0 .. z - 1, m # 0
                 PROVE  /\ L[s + 3 * m] = AllBytes[At(i, m + 1, 1)]
                        /\ L[s + 3 * m + 1] = AllBytes[At(i, m + 1, 2)]
                        /\ L[s + 3 * m + 2] = AllBytes[At(i, m + 1, 3)]
      OBVIOUS
    <3>1. m \in 1 .. n - 1 /\ m \in Int
      BY <1>1, <2>3
    <3>2. /\ L[s + 3 * m] = AllBytes[g + 3 * m]
          /\ L[s + 3 * m + 1] = AllBytes[g + 3 * m + 1]
          /\ L[s + 3 * m + 2] = AllBytes[g + 3 * m + 2]
      <4>1. L[s + 3 * m] = AllBytes[g + 3 * m]
        BY <1>15, <3>1
      <4>2. L[s + 3 * m + 1] = AllBytes[g + 3 * m + 1]
        BY <1>14, <3>1
      <4>3. L[s + 3 * m + 2] = AllBytes[g + 3 * m + 2]
        BY <1>14, <3>1
      <4> QED
        BY <4>1, <4>2, <4>3
    <3>3. /\ At(i, m + 1, 1) = B + 3 * ((m + 1) - 1) + 1
          /\ At(i, m + 1, 2) = B + 3 * ((m + 1) - 1) + 2
          /\ At(i, m + 1, 3) = B + 3 * ((m + 1) - 1) + 3
      BY DEF At, B
    <3>4. /\ At(i, m + 1, 1) = g + 3 * m
          /\ At(i, m + 1, 2) = g + 3 * m + 1
          /\ At(i, m + 1, 3) = g + 3 * m + 2
      BY <1>8, <2>1, <3>1, <3>3
    <3> QED
      BY <3>2, <3>4
  <2>5. 0 \in 0 .. z - 1
    BY <1>8
  <2>6. IsSent(L, s, i)
    BY <2>2, <2>4, <2>5, Aligned DEF z
  <2> QED
    BY <2>1, <2>6 DEF B
\* Else the end would have to be within the next frame.
<1>17. CASE k # 1
  <2> DEFINE r == z - k + 1
  <2>1. r \in 1 .. z - 1 /\ r \in Int /\ B + 3 * z + 1 = g + 3 * r
    BY <1>8, <1>13, <1>17
  <2>2. COMMAND(L[s]) \in BOOLEAN /\ Kind(i) \in BOOLEAN
    BY FrameFacts, Lengths
  <2>3. ASSUME r # 1
        PROVE  z = n
    <3>1. k + 1 \in 1 .. z /\ 1 \in 1 .. n - 1 /\ 1 \in 0 .. n - 1
      BY <1>1, <1>8, <2>3
    <3>2. At(i, k + 1, 1) = B + 3 * ((k + 1) - 1) + 1
      BY DEF At, B
    <3>3. At(i, k + 1, 1) = g + 3 * 1
      BY <1>8, <1>13, <3>2
    <3>4. COMMAND(AllBytes[At(i, k + 1, 1)]) <=> Kind(i)
      BY <3>1, ByteFlags DEF z
    <3>5. L[s + 3 * 1] = AllBytes[g + 3 * 1] /\ COMMAND(L[s + 3 * 1]) = COMMAND(L[s])
      BY <1>3, <1>15, <3>1
    <3>6. Kind(i) = COMMAND(L[s])
      BY <2>2, <3>3, <3>4, <3>5
    <3> QED
      BY <3>6, Lengths DEF z, n
  <2> HIDE DEF r
  <2>4. r \in 1 .. n - 1
    <3>1. CASE r = 1
      BY <1>1, <3>1
    <3>2. CASE r # 1
      BY <2>1, <2>3, <3>2
    <3> QED
      BY <3>1, <3>2
  <2>5. i # NF
    <3>1. i = NF => N = B + 3 * z
      BY Numbers DEF N, B, z
    <3> QED
      BY <1>1, <1>2, <1>8, <2>1, <2>4, <3>1
  <2>6. i + 1 \in 1 .. NF /\ Before(i + 1) = B + 3 * z
    BY <2>5, Numbers DEF B, z
  <2>7. Size(i + 1) = n
    <3>1. 1 \in 1 .. Size(i + 1)
      <4>1. Size(i + 1) \in {4, 16}
        BY <2>6, Numbers
      <4> QED
        BY <4>1
    <3>2. COMMAND(AllBytes[At(i + 1, 1, 1)]) <=> Kind(i + 1)
      BY <2>6, <3>1, ByteFlags
    <3>3. At(i + 1, 1, 1) = Before(i + 1) + 3 * (1 - 1) + 1
      BY DEF At
    <3>4. At(i + 1, 1, 1) = g + 3 * r
      BY <1>8, <2>1, <2>6, <3>3
    <3>5. r \in 0 .. n - 1
      BY <1>1, <2>4
    <3>6. L[s + 3 * r] = AllBytes[g + 3 * r] /\ COMMAND(L[s + 3 * r]) = COMMAND(L[s])
      BY <1>3, <1>15, <2>4, <3>5
    <3>7. Kind(i + 1) \in BOOLEAN
      BY <2>6, FrameFacts
    <3>8. Kind(i + 1) = COMMAND(L[s])
      BY <2>2, <3>2, <3>4, <3>6, <3>7
    <3> QED
      BY <2>6, <3>8, Lengths DEF n
  <2>8. n - r \in 1 .. n - 1 /\ n - r \in 1 .. n /\ n - r # n
    BY <1>1, <2>4
  <2>9. At(i + 1, n - r, 1) = g + 3 * (n - 1)
    <3>1. At(i + 1, n - r, 1) = Before(i + 1) + 3 * ((n - r) - 1) + 1
      BY DEF At
    <3> QED
      BY <1>1, <1>2, <1>8, <2>1, <2>6, <3>1
  <2>10. ~EOFR(AllBytes[At(i + 1, n - r, 1)])
    BY <2>6, <2>7, <2>8, ByteFlags
  <2>11. L[s + 3 * (n - 1)] = AllBytes[g + 3 * (n - 1)]
    <3>1. n - 1 \in 1 .. n - 1
      BY <1>1
    <3> QED
      BY <1>15, <3>1
  <2> QED
    BY <1>3, <2>9, <2>10, <2>11
<1> QED
  BY <1>16, <1>17

-----------------------------------------------------------------------------
(* The line with its fault.                                                *)

\* Where byte s of the line was among the bytes sent, when d are lost at f, or
\* one is read too many there (d = -1).
Org(f, d, s) == IF s < f THEN s ELSE s + d

\* L is the line as it comes.  If d is 0, byte f may be damaged.
Came(L, f, d) ==
    /\ L \in Seq(Byte) /\ f \in Int /\ f >= 1 /\ d \in Int /\ d >= -1
    /\ Len(L) = Len(AllBytes) - d
    /\ \A s \in 1 .. Len(L) : s # f \/ d > 0 => L[s] = AllBytes[Org(f, d, s)]
    /\ d # 0 => f <= Len(AllBytes)
    /\ d > 0 => f + d - 1 <= Len(AllBytes) /\ FrameOf[f + d - 1] = FrameOf[f]

\* What passes the checks at s is a frame from the byte that was sent there.
Accepts(L, f, d, s) ==
    \E i \in 1 .. NF : Org(f, d, s) = Before(i) + 1 /\ IsSent(L, s, i)

\* The window does not hold the place of the fault, but perhaps at its start.
LEMMA AcceptedBeside ==
    ASSUME NEW L, NEW f, NEW d, Came(L, f, d), NEW s \in Int, Passes(L, s),
           f <= s \/ s + 3 * Length(L, s) - 1 < f
    PROVE  Accepts(L, f, d, s)
<1> DEFINE n == Length(L, s)
           N == Len(AllBytes)
<1>1. n \in {4, 16} /\ N \in Nat
  BY Lengths, Numbers
<1>2. 1 <= s /\ s + 3 * n - 1 <= Len(L)
  BY DEF Passes
<1>3. /\ f \in Int /\ f >= 1 /\ d \in Int /\ d >= -1 /\ Len(L) = N - d
      /\ d # 0 => f <= N
      /\ \A q \in 1 .. Len(L) : q # f \/ d > 0 => L[q] = AllBytes[Org(f, d, q)]
  BY DEF Came
<1> HIDE DEF n, N
<1> DEFINE g == Org(f, d, s)
<1>4. g \in Int /\ g = (IF s < f THEN s ELSE s + d)
  BY <1>3 DEF Org
<1> HIDE DEF g
<1>5. \A j \in 1 .. 3 * n - 1 : L[s + j] = AllBytes[g + j]
  <2> SUFFICES ASSUME NEW j \in 1 .. 3 * n - 1
               PROVE  L[s + j] = AllBytes[g + j]
    OBVIOUS
  <2>1. s + j \in 1 .. Len(L) /\ s + j # f
    BY <1>1, <1>2, <1>3 DEF n
  <2>2. Org(f, d, s + j) = IF s + j < f THEN s + j ELSE s + j + d
    BY DEF Org
  <2>3. Org(f, d, s + j) = g + j
    BY <1>1, <1>3, <1>4, <2>2 DEF n
  <2> QED
    BY <1>3, <2>1, <2>3
<1>6. 1 <= g
  <2>1. SUFFICES ASSUME ~(1 <= g)
                 PROVE  FALSE
    OBVIOUS
  <2>2. s = 1 /\ d = -1 /\ g = 0
    BY <1>2, <1>3, <1>4, <2>1
  <2>3. 1 <= N
    BY <1>1, <1>2, <1>3, <2>2
  <2>4. PICK i \in 1 .. NF : \E k \in 1 .. Size(i) : \E t \in 1 .. 3 : 1 = At(i, k, t)
    BY <1>1, <2>3, Somewhere DEF N
  <2>5. 1 \in 1 .. NF /\ Before(1) = 0
    BY <2>4, Numbers, WireFacts
  <2>6. 1 \in 1 .. Size(1)
    <3>1. Size(1) \in {4, 16}
      BY <2>5, Numbers
    <3> QED
      BY <3>1
  <2>7. At(1, 1, 1) = 1
    <3>1. At(1, 1, 1) = Before(1) + 3 * (1 - 1) + 1
      BY DEF At
    <3> QED
      BY <2>5, <3>1
  <2>8. FIRST(AllBytes[1])
    BY <2>5, <2>6, <2>7, ByteFlags
  <2>9. L[s + 1] = AllBytes[1]
    <3>1. 1 \in 1 .. 3 * n - 1 /\ g + 1 = 1
      BY <1>1, <2>2
    <3>2. L[s + 1] = AllBytes[g + 1]
      BY <1>5, <3>1
    <3> QED
      BY <3>1, <3>2
  <2>10. SECOND(L[s + 1])
    <3>1. 0 \in 0 .. n - 1 /\ s + 3 * 0 + 1 = s + 1
      BY <1>1
    <3>2. SECOND(L[s + 3 * 0 + 1])
      BY <3>1 DEF Passes, n
    <3> QED
      BY <3>1, <3>2
  <2> QED
    BY <2>8, <2>9, <2>10 DEF FIRST, SECOND
<1>7. g + 3 * n - 1 <= N
  BY <1>1, <1>2, <1>3, <1>4 DEF n
<1>8. Window(L, s, g)
  BY <1>5, <1>6, <1>7 DEF Window, n, N
<1>9. \E i \in 1 .. NF : g = Before(i) + 1 /\ IsSent(L, s, i)
  BY <1>4, <1>8, WindowFrom
<1> QED
  BY <1>9 DEF Accepts, g

\* A byte that starts a frame, where it was sent.
LEMMA StartOfFrame ==
    ASSUME NEW g \in 1 .. Len(AllBytes), SOFR(AllBytes[g])
    PROVE  \E i \in 1 .. NF : g = Before(i) + 1 /\ Kind(i) = COMMAND(AllBytes[g])
<1>1. PICK i \in 1 .. NF : \E k \in 1 .. Size(i) : \E t \in 1 .. 3 : g = At(i, k, t)
  BY Somewhere
<1>2. PICK k \in 1 .. Size(i), t \in 1 .. 3 : g = At(i, k, t)
  BY <1>1
<1>3. /\ SECOND(AllBytes[At(i, k, 2)]) /\ THIRD(AllBytes[At(i, k, 3)])
      /\ SOFR(AllBytes[At(i, k, 1)]) <=> k = 1
      /\ COMMAND(AllBytes[At(i, k, 1)]) <=> Kind(i)
  BY ByteFlags
<1>4. t = 1 /\ k = 1
  <2>1. t = 1 \/ t = 2 \/ t = 3
    OBVIOUS
  <2>2. t # 2
    BY <1>2, <1>3 DEF SOFR, SECOND
  <2>3. t # 3
    BY <1>2, <1>3 DEF SOFR, THIRD
  <2> QED
    BY <1>2, <1>3, <2>1, <2>2, <2>3
<1>5. g = Before(i) + 1
  <2>1. At(i, 1, 1) = Before(i) + 3 * (1 - 1) + 1 /\ Before(i) \in Nat
    BY Numbers DEF At
  <2> QED
    BY <1>2, <1>4, <2>1
<1>6. Kind(i) = COMMAND(AllBytes[g])
  <2>1. Kind(i) \in BOOLEAN /\ COMMAND(AllBytes[g]) \in BOOLEAN
    BY FrameFacts DEF COMMAND
  <2> QED
    BY <1>2, <1>3, <1>4, <2>1
<1> QED
  BY <1>5, <1>6

\* The fault is in the window, which then starts with a frame.
Inside(L, f, d, s, i) ==
    /\ i \in 1 .. NF /\ s = Before(i) + 1
    /\ Kind(i) = COMMAND(L[s]) /\ Size(i) = Length(L, s)
    /\ s < f /\ f <= s + 3 * Size(i) - 1

LEMMA InsideFrame ==
    ASSUME NEW L, NEW f, NEW d, Came(L, f, d), NEW s \in Int, Passes(L, s),
           s < f, f <= s + 3 * Length(L, s) - 1
    PROVE  \E i : Inside(L, f, d, s, i)
<1> DEFINE N == Len(AllBytes)
           n == Length(L, s)
<1>1. /\ f \in Int /\ d \in Int /\ d >= -1 /\ Len(L) = N - d /\ N \in Nat /\ n \in {4, 16}
      /\ d # 0 => f <= N
      /\ \A q \in 1 .. Len(L) : q # f \/ d > 0 => L[q] = AllBytes[Org(f, d, q)]
  BY Numbers, Lengths DEF Came
<1>2. 1 <= s /\ s + 3 * n - 1 <= Len(L) /\ SOFR(L[s]) /\ s \in 1 .. Len(L)
  BY DEF Passes
<1> HIDE DEF N, n
<1>3. s \in 1 .. N
  BY <1>1, <1>2
<1>4. L[s] = AllBytes[s]
  <2>1. Org(f, d, s) = s /\ s # f
    BY <1>1 DEF Org
  <2> QED
    BY <1>1, <1>2, <2>1
<1>5. PICK i \in 1 .. NF : s = Before(i) + 1 /\ Kind(i) = COMMAND(AllBytes[s])
  BY <1>2, <1>3, <1>4, StartOfFrame DEF N
<1>6. Size(i) = Length(L, s)
  BY <1>4, <1>5, Lengths
<1> QED
  BY <1>4, <1>5, <1>6 DEF Inside

\* Up to the fault the window is the frame.
LEMMA InsideBefore ==
    ASSUME NEW L, NEW f, NEW d, Came(L, f, d), NEW s \in Int, Passes(L, s),
           NEW i, Inside(L, f, d, s, i)
    PROVE  /\ Size(i) \in {4, 16} /\ Before(i) \in Nat /\ f \in Int /\ d \in Int
           /\ Size(i) = Length(L, s) /\ Kind(i) = COMMAND(L[s]) /\ s = Before(i) + 1
           /\ s < f /\ f <= s + 3 * Size(i) - 1
           /\ s + 3 * Size(i) - 1 <= Len(AllBytes) - d
           /\ \A q \in Int : s <= q /\ q < f => L[q] = AllBytes[q]
           /\ \A q \in Int : f <= q /\ q <= s + 3 * Size(i) - 1 /\ (q # f \/ d > 0)
                 => L[q] = AllBytes[q + d]
           /\ \A m \in 0 .. Size(i) - 1, t \in 1 .. 3 : At(i, m + 1, t) = s + 3 * m + (t - 1)
<1> DEFINE N == Len(AllBytes)
           z == Size(i)
<1>1. i \in 1 .. NF /\ s = Before(i) + 1 /\ Kind(i) = COMMAND(L[s]) /\ z = Length(L, s)
      /\ s < f /\ f <= s + 3 * z - 1
  BY DEF Inside
<1>2. z \in {4, 16} /\ Before(i) \in Nat /\ N \in Nat
  BY <1>1, Numbers
<1>3. /\ f \in Int /\ d \in Int /\ Len(L) = N - d
      /\ \A q \in 1 .. Len(L) : q # f \/ d > 0 => L[q] = AllBytes[Org(f, d, q)]
  BY DEF Came
<1>4. 1 <= s /\ s + 3 * z - 1 <= Len(L)
  BY <1>1 DEF Passes
<1> HIDE DEF N, z
<1>5. ASSUME NEW q \in Int, s <= q, q < f
      PROVE  L[q] = AllBytes[q]
  <2>1. q \in 1 .. Len(L) /\ q # f /\ Org(f, d, q) = q
    BY <1>1, <1>2, <1>3, <1>4, <1>5 DEF Org
  <2> QED
    BY <1>3, <2>1
<1>6. ASSUME NEW q \in Int, f <= q, q <= s + 3 * z - 1, q # f \/ d > 0
      PROVE  L[q] = AllBytes[q + d]
  <2>1. q \in 1 .. Len(L) /\ Org(f, d, q) = q + d
    BY <1>1, <1>2, <1>3, <1>4, <1>6 DEF Org
  <2> QED
    BY <1>3, <1>6, <2>1
<1>7. ASSUME NEW m \in 0 .. z - 1, NEW t \in 1 .. 3
      PROVE  At(i, m + 1, t) = s + 3 * m + (t - 1)
  <2>1. At(i, m + 1, t) = Before(i) + 3 * ((m + 1) - 1) + t
    BY DEF At
  <2> QED
    BY <1>1, <1>2, <2>1
<1>8. s + 3 * z - 1 <= N - d
  BY <1>3, <1>4
<1> QED
  BY <1>1, <1>2, <1>3, <1>5, <1>6, <1>7, <1>8 DEF N, z

\* A bit that is flipped is in one word.
LEMMA InsideFlip ==
    ASSUME NEW L, NEW f, NEW d, d = 0, Came(L, f, d), NEW s \in Int, Passes(L, s),
           NEW i, Inside(L, f, d, s, i)
    PROVE  IsSent(L, s, i)
<1> DEFINE z == Size(i)
           m0 == (f - s) \div 3
<1>1. /\ z \in {4, 16} /\ Before(i) \in Nat /\ f \in Int
      /\ Kind(i) = COMMAND(L[s]) /\ s = Before(i) + 1
      /\ s < f /\ f <= s + 3 * z - 1
      /\ \A q \in Int : s <= q /\ q < f => L[q] = AllBytes[q]
      /\ \A q \in Int : f <= q /\ q <= s + 3 * z - 1 /\ (q # f \/ d > 0) => L[q] = AllBytes[q + d]
      /\ \A m \in 0 .. z - 1, t \in 1 .. 3 : At(i, m + 1, t) = s + 3 * m + (t - 1)
  BY InsideBefore
<1>2. i \in 1 .. NF
  BY DEF Inside
<1> HIDE DEF z
<1>3. m0 \in 0 .. z - 1 /\ m0 \in Int /\ 3 * m0 <= f - s /\ f - s <= 3 * m0 + 2
  BY <1>1
<1> HIDE DEF m0
<1>4. ASSUME NEW m \in 0 .. z - 1, m # m0, NEW t \in 1 .. 3
      PROVE  L[s + 3 * m + (t - 1)] = AllBytes[At(i, m + 1, t)]
  <2> DEFINE q == s + 3 * m + (t - 1)
  <2>1. q \in Int /\ s <= q /\ q <= s + 3 * z - 1 /\ q # f
    BY <1>1, <1>3, <1>4
  <2>2. At(i, m + 1, t) = q
    BY <1>1
  <2> HIDE DEF q
  <2>3. L[q] = AllBytes[q]
    <3>1. CASE q < f
      BY <1>1, <2>1, <3>1
    <3>2. CASE ~(q < f)
      <4>1. L[q] = AllBytes[q + d] /\ q + d = q
        BY <1>1, <2>1, <3>2
      <4> QED
        BY <4>1
    <3> QED
      BY <3>1, <3>2
  <2> QED
    BY <2>2, <2>3 DEF q
<1>5. \A m \in 0 .. z - 1 : m # m0 =>
            /\ L[s + 3 * m] = AllBytes[At(i, m + 1, 1)]
            /\ L[s + 3 * m + 1] = AllBytes[At(i, m + 1, 2)]
            /\ L[s + 3 * m + 2] = AllBytes[At(i, m + 1, 3)]
  <2> SUFFICES ASSUME NEW m \in 0 .. z - 1, m # m0
               PROVE  /\ L[s + 3 * m] = AllBytes[At(i, m + 1, 1)]
                      /\ L[s + 3 * m + 1] = AllBytes[At(i, m + 1, 2)]
                      /\ L[s + 3 * m + 2] = AllBytes[At(i, m + 1, 3)]
    OBVIOUS
  <2>1. /\ s + 3 * m + (1 - 1) = s + 3 * m
        /\ s + 3 * m + (2 - 1) = s + 3 * m + 1
        /\ s + 3 * m + (3 - 1) = s + 3 * m + 2
    BY <1>1
  <2>2. /\ L[s + 3 * m + (1 - 1)] = AllBytes[At(i, m + 1, 1)]
        /\ L[s + 3 * m + (2 - 1)] = AllBytes[At(i, m + 1, 2)]
        /\ L[s + 3 * m + (3 - 1)] = AllBytes[At(i, m + 1, 3)]
    BY <1>4
  <2> QED
    BY <2>1, <2>2
<1> QED
  BY <1>1, <1>2, <1>3, <1>5, Aligned DEF z

\* Behind a byte too many, only the last byte of the frame may be displaced.
LEMMA InsideNoise ==
    ASSUME NEW L, NEW f, Came(L, f, -1), NEW s \in Int, Passes(L, s),
           NEW i, Inside(L, f, -1, s, i)
    PROVE  IsSent(L, s, i)
<1> DEFINE z == Size(i)
<1>1. /\ z \in {4, 16} /\ Before(i) \in Nat /\ f \in Int
      /\ z = Length(L, s) /\ Kind(i) = COMMAND(L[s]) /\ s = Before(i) + 1
      /\ s < f /\ f <= s + 3 * z - 1
      /\ \A q \in Int : s <= q /\ q < f => L[q] = AllBytes[q]
      /\ \A q \in Int : f <= q /\ q <= s + 3 * z - 1 /\ (q # f \/ -1 > 0) => L[q] = AllBytes[q + -1]
      /\ \A m \in 0 .. z - 1, t \in 1 .. 3 : At(i, m + 1, t) = s + 3 * m + (t - 1)
  BY InsideBefore
<1>2. i \in 1 .. NF
  BY DEF Inside
<1> HIDE DEF z
\* The bytes of the last word.
<1>3. z - 1 \in 0 .. z - 1 /\ (z - 1) + 1 = z /\ z \in 1 .. z /\ z \in Int
  BY <1>1
<1>4. /\ FIRST(AllBytes[s + 3 * z - 3]) /\ SECOND(AllBytes[s + 3 * z - 2])
  <2>1. FIRST(AllBytes[At(i, z, 1)]) /\ SECOND(AllBytes[At(i, z, 2)])
    BY <1>2, <1>3, ByteFlags DEF z
  <2>2. At(i, z, 1) = s + 3 * (z - 1) + (1 - 1) /\ At(i, z, 2) = s + 3 * (z - 1) + (2 - 1)
    BY <1>1, <1>3
  <2>3. At(i, z, 1) = s + 3 * z - 3 /\ At(i, z, 2) = s + 3 * z - 2
    BY <1>1, <2>2
  <2> QED
    BY <2>1, <2>3
<1>5. SECOND(L[s + 3 * z - 2]) /\ THIRD(L[s + 3 * z - 1])
  <2>1. SECOND(L[s + 3 * (z - 1) + 1]) /\ THIRD(L[s + 3 * (z - 1) + 2])
    BY <1>1, <1>3 DEF Passes
  <2>2. s + 3 * (z - 1) + 1 = s + 3 * z - 2 /\ s + 3 * (z - 1) + 2 = s + 3 * z - 1
    BY <1>1
  <2> QED
    BY <2>1, <2>2
<1>6. f = s + 3 * z - 1
  <2>1. ~(f < s + 3 * z - 2)
    <3> SUFFICES ASSUME f < s + 3 * z - 2
                 PROVE  FALSE
      OBVIOUS
    <3> DEFINE q == s + 3 * z - 2
    <3>1. q \in Int /\ f <= q /\ q <= s + 3 * z - 1 /\ q # f /\ q + -1 = s + 3 * z - 3
      BY <1>1
    <3> HIDE DEF q
    <3>2. L[q] = AllBytes[q + -1]
      BY <1>1, <3>1
    <3> QED
      BY <1>4, <1>5, <3>1, <3>2 DEF q, FIRST, SECOND
  <2>2. f # s + 3 * z - 2
    <3> SUFFICES ASSUME f = s + 3 * z - 2
                 PROVE  FALSE
      OBVIOUS
    <3> DEFINE q == s + 3 * z - 1
    <3>1. q \in Int /\ f <= q /\ q <= s + 3 * z - 1 /\ q # f /\ q + -1 = s + 3 * z - 2
      BY <1>1
    <3> HIDE DEF q
    <3>2. L[q] = AllBytes[q + -1]
      BY <1>1, <3>1
    <3> QED
      BY <1>4, <1>5, <3>1, <3>2 DEF q, THIRD, SECOND
  <2> QED
    BY <1>1, <2>1, <2>2
<1>7. ASSUME NEW m \in 0 .. z - 1, m # z - 1
      PROVE  /\ L[s + 3 * m] = AllBytes[At(i, m + 1, 1)]
             /\ L[s + 3 * m + 1] = AllBytes[At(i, m + 1, 2)]
             /\ L[s + 3 * m + 2] = AllBytes[At(i, m + 1, 3)]
  <2>1. ASSUME NEW q \in Int, s <= q, q < f
        PROVE  L[q] = AllBytes[q]
    BY <1>1, <2>1
  <2>2. /\ s + 3 * m \in Int /\ s + 3 * m + 1 \in Int /\ s + 3 * m + 2 \in Int
        /\ s <= s + 3 * m /\ s <= s + 3 * m + 1 /\ s <= s + 3 * m + 2
        /\ s + 3 * m < f /\ s + 3 * m + 1 < f /\ s + 3 * m + 2 < f
    BY <1>1, <1>6, <1>7
  <2>3. /\ At(i, m + 1, 1) = s + 3 * m + (1 - 1)
        /\ At(i, m + 1, 2) = s + 3 * m + (2 - 1)
        /\ At(i, m + 1, 3) = s + 3 * m + (3 - 1)
    BY <1>1
  <2>4. /\ At(i, m + 1, 1) = s + 3 * m
        /\ At(i, m + 1, 2) = s + 3 * m + 1
        /\ At(i, m + 1, 3) = s + 3 * m + 2
    BY <1>1, <2>3
  <2> QED
    BY <2>1, <2>2, <2>4
<1>8. \A m \in 0 .. z - 1 : m # z - 1 =>
            /\ L[s + 3 * m] = AllBytes[At(i, m + 1, 1)]
            /\ L[s + 3 * m + 1] = AllBytes[At(i, m + 1, 2)]
            /\ L[s + 3 * m + 2] = AllBytes[At(i, m + 1, 3)]
  BY <1>7
<1> QED
  BY <1>1, <1>2, <1>3, <1>8, Aligned DEF z

\* A frame that has lost bytes does not pass: its end is that of no frame.
LEMMA InsideCut ==
    ASSUME NEW L, NEW f, NEW d, Came(L, f, d), d > 0, NEW s \in Int, Passes(L, s),
           NEW i, Inside(L, f, d, s, i)
    PROVE  FALSE
<1> DEFINE z == Size(i)
           N == Len(AllBytes)
<1>1. /\ z \in {4, 16} /\ Before(i) \in Nat /\ f \in Int /\ d \in Int
      /\ z = Length(L, s) /\ Kind(i) = COMMAND(L[s]) /\ s = Before(i) + 1
      /\ s < f /\ f <= s + 3 * z - 1
      /\ s + 3 * z - 1 <= N - d
      /\ \A q \in Int : f <= q /\ q <= s + 3 * z - 1 /\ (q # f \/ d > 0) => L[q] = AllBytes[q + d]
  BY InsideBefore
<1>2. i \in 1 .. NF
  BY DEF Inside
<1>3. f + d - 1 <= N /\ FrameOf[f + d - 1] = FrameOf[f] /\ N \in Nat
  BY Numbers DEF Came
<1>4. /\ EOFR(L[s + 3 * (z - 1)])
      /\ \A m \in 0 .. z - 1 :
            /\ FIRST(L[s + 3 * m]) /\ SECOND(L[s + 3 * m + 1]) /\ THIRD(L[s + 3 * m + 2])
            /\ COMMAND(L[s + 3 * m]) = COMMAND(L[s])
  BY <1>1 DEF Passes
<1>5. i # NF => i + 1 \in 1 .. NF /\ Before(i + 1) = Before(i) + 3 * z
  BY <1>2, Numbers
<1>6. i = NF => N = Before(i) + 3 * z
  BY <1>2, Numbers
<1> HIDE DEF z, N
<1>7. i + 1 \in 1 .. NF /\ Before(i + 1) = Before(i) + 3 * z
  BY <1>1, <1>3, <1>5, <1>6
\* What is lost is of frame i only.
<1>8. f + d - 1 <= s + 3 * z - 1
  <2>1. ASSUME NEW g \in 1 .. N, FrameOf[g] = i
        PROVE  g <= s + 3 * z - 1
    <3>1. PICK j \in 1 .. NF : \E k \in 1 .. Size(j) : \E t \in 1 .. 3 : g = At(j, k, t)
      BY Somewhere DEF N
    <3>2. PICK k \in 1 .. Size(j), t \in 1 .. 3 : g = At(j, k, t)
      BY <3>1
    <3>3. Size(j) \in {4, 16}
      BY Numbers
    <3>4. k \in Int /\ t \in Int /\ k \in 1 .. Size(j) /\ t \in 1 .. 3
      BY <3>3
    <3>5. FrameOf[At(j, k, t)] = j
      BY <3>4, WireFacts
    <3>6. j = i
      BY <2>1, <3>2, <3>5
    <3>7. k \in 1 .. z
      BY <3>4, <3>6 DEF z
    <3>8. g = Before(i) + 3 * (k - 1) + t
      BY <3>2, <3>6 DEF At
    <3> QED
      BY <1>1, <3>4, <3>7, <3>8
  <2>2. FrameOf[f] = i
    <3> DEFINE k == ((f - s) \div 3) + 1
               t == ((f - s) % 3) + 1
    <3>1. k \in 1 .. z /\ t \in 1 .. 3 /\ k \in Int /\ t \in Int /\ f = s - 1 + 3 * (k - 1) + t
      BY <1>1
    <3> HIDE DEF k, t
    <3>2. At(i, k, t) = f
      <4>1. At(i, k, t) = Before(i) + 3 * (k - 1) + t
        BY DEF At
      <4> QED
        BY <1>1, <3>1, <4>1
    <3>3. k \in 1 .. Size(i)
      BY <3>1 DEF z
    <3>4. FrameOf[At(i, k, t)] = i
      BY <1>2, <3>1, <3>3, WireFacts
    <3> QED
      BY <3>2, <3>4
  <2>3. f + d - 1 \in 1 .. N
    BY <1>1, <1>3
  <2> QED
    BY <1>3, <2>1, <2>2, <2>3
\* The first byte of the next frame is in the window.
<1> DEFINE j == 3 * z - d
<1>9. j \in Int /\ 1 <= j /\ f <= s + j /\ j <= 3 * z - 1 /\ j + d = 3 * z
  BY <1>1, <1>8
<1> HIDE DEF j
<1>10. 1 \in 1 .. Size(i + 1) /\ Size(i + 1) \in {4, 16}
  <2>1. Size(i + 1) \in {4, 16}
    BY <1>7, Numbers
  <2> QED
    BY <2>1
<1>11. /\ FIRST(AllBytes[s + 3 * z])
       /\ COMMAND(AllBytes[s + 3 * z]) <=> Kind(i + 1)
  <2>1. At(i + 1, 1, 1) = Before(i + 1) + 3 * (1 - 1) + 1
    BY DEF At
  <2>2. At(i + 1, 1, 1) = s + 3 * z
    BY <1>1, <1>7, <2>1
  <2> QED
    BY <1>7, <1>10, <2>2, ByteFlags
<1>12. L[s + j] = AllBytes[s + 3 * z]
  <2>1. s + j \in Int /\ f <= s + j /\ s + j <= s + 3 * z - 1 /\ (s + j) + d = s + 3 * z
    BY <1>1, <1>9
  <2>2. L[s + j] = AllBytes[(s + j) + d]
    BY <1>1, <2>1
  <2> QED
    BY <2>1, <2>2
<1> DEFINE m == j \div 3
<1>13. m \in 0 .. z - 1 /\ (j = 3 * m \/ j = 3 * m + 1 \/ j = 3 * m + 2) /\ m \in Int
  BY <1>1, <1>9
<1> HIDE DEF m
<1>14. j = 3 * m
  <2>1. j # 3 * m + 1
    <3> SUFFICES ASSUME j = 3 * m + 1
                 PROVE  FALSE
      OBVIOUS
    <3>1. s + j = s + 3 * m + 1
      BY <1>13
    <3> QED
      BY <1>4, <1>11, <1>12, <1>13, <3>1 DEF FIRST, SECOND
  <2>2. j # 3 * m + 2
    <3> SUFFICES ASSUME j = 3 * m + 2
                 PROVE  FALSE
      OBVIOUS
    <3>1. s + j = s + 3 * m + 2
      BY <1>13
    <3> QED
      BY <1>4, <1>11, <1>12, <1>13, <3>1 DEF FIRST, THIRD
  <2> QED
    BY <1>13, <2>1, <2>2
\* So it is one of the same kind, which ends beyond the window.
<1>15. Size(i + 1) = z
  <2>1. COMMAND(L[s]) \in BOOLEAN /\ Kind(i + 1) \in BOOLEAN
    BY <1>7, FrameFacts DEF COMMAND
  <2>2. COMMAND(L[s + j]) = COMMAND(L[s])
    BY <1>4, <1>13, <1>14
  <2>3. Kind(i + 1) = COMMAND(L[s])
    BY <1>11, <1>12, <2>1, <2>2
  <2> QED
    BY <1>1, <1>7, <2>3, Lengths
<1>16. m >= 1 /\ z - m \in 1 .. z /\ z - m # z
  BY <1>1, <1>9, <1>13, <1>14
<1>17. ~EOFR(AllBytes[At(i + 1, z - m, 1)])
  BY <1>7, <1>15, <1>16, ByteFlags
<1>18. L[s + 3 * (z - 1)] = AllBytes[At(i + 1, z - m, 1)]
  <2>1. At(i + 1, z - m, 1) = Before(i + 1) + 3 * ((z - m) - 1) + 1
    BY DEF At
  <2> DEFINE q == s + 3 * (z - 1)
  <2>2. q \in Int /\ f <= q /\ q <= s + 3 * z - 1 /\ q + d = At(i + 1, z - m, 1)
    BY <1>1, <1>7, <1>9, <1>13, <1>14, <1>16, <2>1
  <2> HIDE DEF q
  <2>3. L[q] = AllBytes[q + d]
    BY <1>1, <2>2
  <2> QED
    BY <2>2, <2>3 DEF q
<1> QED
  BY <1>4, <1>17, <1>18

\* What passes the checks of ReadRest and Decode is a frame that was sent, but
\* for one word at most.
LEMMA Accepted ==
    ASSUME NEW L, NEW f, NEW d, Came(L, f, d), NEW s \in Int, Passes(L, s)
    PROVE  Accepts(L, f, d, s)
<1>1. CASE f <= s \/ s + 3 * Length(L, s) - 1 < f
  BY <1>1, AcceptedBeside
<1>2. CASE ~(f <= s \/ s + 3 * Length(L, s) - 1 < f)
  <2>1. f \in Int /\ d \in Int /\ d >= -1
    BY DEF Came
  <2>2. Length(L, s) \in {4, 16}
    BY Lengths
  <2>3. s < f /\ f <= s + 3 * Length(L, s) - 1
    BY <1>2, <2>1, <2>2
  <2>4. PICK i : Inside(L, f, d, s, i)
    BY <2>3, InsideFrame
  <2>5. i \in 1 .. NF /\ s = Before(i) + 1
    BY <2>4 DEF Inside
  <2>6. Org(f, d, s) = s
    BY <2>3 DEF Org
  <2>7. IsSent(L, s, i)
    <3>1. CASE d = 0
      BY <2>4, <3>1, InsideFlip
    <3>2. CASE d = -1
      BY <2>4, <3>2, InsideNoise
    <3>3. CASE d > 0
      BY <2>4, <3>3, InsideCut
    <3> QED
      BY <2>1, <3>1, <3>2, <3>3
  <2> QED
    BY <2>5, <2>6, <2>7 DEF Accepts
<1> QED
  BY <1>1, <1>2

-----------------------------------------------------------------------------
(* Words as numbers.                                                       *)

\* The bits of w from the top, v being the number of those from bit k on.
Digit(w, k) == IF k \in w THEN 1 ELSE 0

Digits(v, w) ==
    /\ v[16] = 0
    /\ \A k \in 0 .. 15 : v[k] = (2 * v[k + 1]) + Digit(w, k)

LEMMA NumUnfold ==
    ASSUME NEW w \in Word
    PROVE  \E v : Digits(v, w) /\ Num(w) = v[0]
<1> DEFINE next(x, k) == (2 * x) + (IF k \in w THEN 1 ELSE 0)
           step == [p \in Int \X (1 .. 16) |-> next(p[1], 16 - p[2])]
           Eq(v) == v = [k \in 0 .. 16 |-> IF k = 16 THEN 0 ELSE next(v[k + 1], k)]
<1>1. \A x \in Int, k \in Int : next(x, k) \in Int
  OBVIOUS
<1>2. step \in [Int \X (1 .. 16) -> Int]
  <2> HIDE DEF next
  <2>1. ASSUME NEW p \in Int \X (1 .. 16)
        PROVE  next(p[1], 16 - p[2]) \in Int
    <3>1. p[1] \in Int /\ 16 - p[2] \in Int
      OBVIOUS
    <3> QED
      BY <1>1, <3>1
  <2> QED
    BY <2>1
<1>3. PICK f : Follows(f, 0, step, 16, Int)
  <2>1. IsStep(step, 16, Int)
    BY <1>2 DEF IsStep
  <2> HIDE DEF step
  <2> QED
    BY <2>1, 0 \in Int, 16 \in Nat, Recursion
<1> DEFINE u == [k \in 0 .. 16 |-> f[16 - k]]
<1>4. Eq(u)
  <2>1. ASSUME NEW k \in 0 .. 15
        PROVE  f[16 - k] = next(f[16 - (k + 1)], k)
    <3> HIDE DEF next
    <3>1. /\ 16 - k \in 1 .. 16 /\ (16 - k) - 1 = 16 - (k + 1) /\ 16 - (16 - k) = k
          /\ 16 - (k + 1) \in 0 .. 16
      OBVIOUS
    <3>2. f[16 - k] = step[<<f[16 - (k + 1)], 16 - k>>] /\ f[16 - (k + 1)] \in Int
      BY <1>3, <3>1 DEF Follows
    <3>3. <<f[16 - (k + 1)], 16 - k>> \in Int \X (1 .. 16)
      BY <3>1, <3>2
    <3> QED
      BY <3>1, <3>2, <3>3
  <2> HIDE DEF step, next
  <2>2. u[16] = 0
    <3>1. u[16] = f[0]
      OBVIOUS
    <3> QED
      BY <1>3, <3>1 DEF Follows
  <2>3. ASSUME NEW k \in 0 .. 16
        PROVE  u[k] = IF k = 16 THEN 0 ELSE next(u[k + 1], k)
    <3>1. CASE k = 16
      BY <2>2, <3>1
    <3>2. CASE k # 16
      <4>1. k \in 0 .. 15 /\ k + 1 \in 0 .. 16
        BY <3>2
      <4>2. u[k] = f[16 - k] /\ u[k + 1] = f[16 - (k + 1)]
        BY <4>1
      <4> HIDE DEF u
      <4> QED
        BY <2>1, <3>2, <4>1, <4>2
    <3> QED
      BY <3>1, <3>2
  <2>4. u = [k \in 0 .. 16 |-> u[k]]
    OBVIOUS
  <2> HIDE DEF u
  <2> QED
    BY <2>3, <2>4
<1> DEFINE v == CHOOSE g : Eq(g)
<1>5. Eq(v)
  <2> HIDE DEF Eq, u
  <2> QED
    BY <1>4
<1>6. Num(w) = v[0]
  BY Zenon DEF Num
<1> HIDE DEF v
<1>7. v[16] = 0 /\ \A k \in 0 .. 15 : v[k] = next(v[k + 1], k)
  <2> HIDE DEF next
  <2>1. \A k \in 0 .. 15 : k \in 0 .. 16 /\ k # 16
    OBVIOUS
  <2> QED
    BY <1>5, <2>1
<1>8. Digits(v, w)
  BY <1>7 DEF Digits, Digit
<1> QED
  BY <1>6, <1>8

\* z is y without its lowest digit.
Halves(y, z) == y \in Nat /\ z \in Nat /\ (y = 2 * z \/ y = (2 * z) + 1)

LEMMA Halved ==
    ASSUME NEW x \in Nat, NEW y, NEW z, Halves(y, z)
    PROVE  /\ x = y => x \div 2 = z
           /\ x \div 2 = y => x \div 4 = z
           /\ x \div 4 = y => x \div 8 = z
           /\ x \div 8 = y => x \div 16 = z
           /\ x \div 16 = y => x \div 32 = z
           /\ x \div 32 = y => x \div 64 = z
           /\ x \div 64 = y => x \div 128 = z
           /\ x \div 128 = y => x \div 256 = z
           /\ x \div 256 = y => x \div 512 = z
           /\ x \div 512 = y => x \div 1024 = z
           /\ x \div 1024 = y => x \div 2048 = z
           /\ x \div 2048 = y => x \div 4096 = z
           /\ x \div 4096 = y => x \div 8192 = z
           /\ x \div 8192 = y => x \div 16384 = z
           /\ x \div 16384 = y => x \div 32768 = z
BY DEF Halves

\* A word is a number of 16 bits, and the bits of that number.
LEMMA BitsOfNum ==
    ASSUME NEW w \in Word
    PROVE  Num(w) \in Sample /\ Bits(Num(w)) = w
<1>1. PICK v : Digits(v, w) /\ Num(w) = v[0]
  BY NumUnfold
<1>2. \A k \in 0 .. 15 : Digit(w, k) \in {0, 1} /\ (Digit(w, k) = 1 <=> k \in w)
  BY DEF Digit
<1> DEFINE b(k) == Digit(w, k)
<1>3. v[16] = 0 /\ \A k \in 0 .. 15 : v[k] = (2 * v[k + 1]) + b(k)
  BY <1>1 DEF Digits
<1> HIDE DEF b
<1>4. \A k \in 0 .. 15 : b(k) \in {0, 1} /\ (b(k) = 1 <=> k \in w)
  BY <1>2 DEF b
\* Bit k of what is below 2^(16-k).
<1> DEFINE Below(k, m) == v[k] \in Nat /\ v[k] < m
<1>5. Below(16, 1)
  BY <1>3
<1>6. \A k \in 0 .. 15 : \A m \in Nat : Below(k + 1, m) => Below(k, 2 * m)
  BY <1>3, <1>4
<1>7. /\ Below(15, 2) /\ Below(14, 4) /\ Below(13, 8) /\ Below(12, 16)
      /\ Below(11, 32) /\ Below(10, 64) /\ Below(9, 128) /\ Below(8, 256)
      /\ Below(7, 512) /\ Below(6, 1024) /\ Below(5, 2048) /\ Below(4, 4096)
      /\ Below(3, 8192) /\ Below(2, 16384) /\ Below(1, 32768) /\ Below(0, 65536)
  <2> HIDE DEF Below
  <2>1. \A k \in 0 .. 15 : \A m \in Nat : Below(k + 1, m) => Below(k, m + m)
    <3>1. \A m \in Nat : 2 * m = m + m
      OBVIOUS
    <3> QED
      BY <1>6, <3>1
  <2>2. Below(15, 2) /\ Below(14, 4) /\ Below(13, 8) /\ Below(12, 16)
    BY <1>5, <2>1
  <2>3. Below(11, 32) /\ Below(10, 64) /\ Below(9, 128) /\ Below(8, 256)
    BY <2>1, <2>2
  <2>4. Below(7, 512) /\ Below(6, 1024) /\ Below(5, 2048) /\ Below(4, 4096)
    BY <2>1, <2>3
  <2>5. Below(3, 8192) /\ Below(2, 16384) /\ Below(1, 32768) /\ Below(0, 65536)
    BY <2>1, <2>4
  <2> QED
    BY <2>2, <2>3, <2>4, <2>5
<1>8. \A k \in 0 .. 16 : v[k] \in Nat
  <2>1. \A k \in 0 .. 16 : \/ k = 0 \/ k = 1 \/ k = 2 \/ k = 3 \/ k = 4 \/ k = 5 \/ k = 6 \/ k = 7
                           \/ k = 8 \/ k = 9 \/ k = 10 \/ k = 11 \/ k = 12 \/ k = 13 \/ k = 14 \/ k = 15 \/ k = 16
    OBVIOUS
  <2> QED
    BY <1>5, <1>7, <2>1
<1>9. Num(w) \in Sample
  <2>1. v[0] \in Nat /\ v[0] < 65536
    BY <1>7
  <2>2. v[0] < Wrap
    BY <2>1 DEF Wrap
  <2>3. v[0] \in 0 .. Top
    BY <2>1, <2>2, SixteenBits
  <2>4. Num(w) = v[0]
    BY <1>1
  <2> QED
    BY <2>3, <2>4 DEF Sample
\* Halving the number takes the lowest digit away.
<1>10. ASSUME NEW k \in 0 .. 15
       PROVE  Halves(v[k], v[k + 1])
  <2>1. k \in 0 .. 16 /\ k + 1 \in 0 .. 16
    OBVIOUS
  <2>2. v[k] \in Nat /\ v[k + 1] \in Nat
    BY <1>8, <2>1
  <2>3. v[k] = (2 * v[k + 1]) + b(k) /\ b(k) \in {0, 1}
    BY <1>3, <1>4
  <2> QED
    BY <2>2, <2>3 DEF Halves
<1>11. /\ Halves(v[0], v[1]) /\ Halves(v[1], v[2]) /\ Halves(v[2], v[3]) /\ Halves(v[3], v[4])
       /\ Halves(v[4], v[5]) /\ Halves(v[5], v[6]) /\ Halves(v[6], v[7]) /\ Halves(v[7], v[8])
       /\ Halves(v[8], v[9]) /\ Halves(v[9], v[10]) /\ Halves(v[10], v[11]) /\ Halves(v[11], v[12])
       /\ Halves(v[12], v[13]) /\ Halves(v[13], v[14]) /\ Halves(v[14], v[15]) /\ Halves(v[15], v[16])
  <2>1. /\ 0 + 1 = 1 /\ 1 + 1 = 2 /\ 2 + 1 = 3 /\ 3 + 1 = 4 /\ 4 + 1 = 5 /\ 5 + 1 = 6 /\ 6 + 1 = 7 /\ 7 + 1 = 8
        /\ 8 + 1 = 9 /\ 9 + 1 = 10 /\ 10 + 1 = 11 /\ 11 + 1 = 12 /\ 12 + 1 = 13 /\ 13 + 1 = 14 /\ 14 + 1 = 15 /\ 15 + 1 = 16
    OBVIOUS
  <2> QED
    BY <1>10, <2>1
<1>12. v[0] \in Nat
  BY <1>8
<1>13. v[0] \div 2 = v[1]
  BY <1>11, <1>12, Halved
<1>14. v[0] \div 4 = v[2]
  BY <1>11, <1>12, <1>13, Halved
<1>15. v[0] \div 8 = v[3]
  BY <1>11, <1>12, <1>14, Halved
<1>16. v[0] \div 16 = v[4]
  BY <1>11, <1>12, <1>15, Halved
<1>17. v[0] \div 32 = v[5]
  BY <1>11, <1>12, <1>16, Halved
<1>18. v[0] \div 64 = v[6]
  BY <1>11, <1>12, <1>17, Halved
<1>19. v[0] \div 128 = v[7]
  BY <1>11, <1>12, <1>18, Halved
<1>20. v[0] \div 256 = v[8]
  BY <1>11, <1>12, <1>19, Halved
<1>21. v[0] \div 512 = v[9]
  BY <1>11, <1>12, <1>20, Halved
<1>22. v[0] \div 1024 = v[10]
  BY <1>11, <1>12, <1>21, Halved
<1>23. v[0] \div 2048 = v[11]
  BY <1>11, <1>12, <1>22, Halved
<1>24. v[0] \div 4096 = v[12]
  BY <1>11, <1>12, <1>23, Halved
<1>25. v[0] \div 8192 = v[13]
  BY <1>11, <1>12, <1>24, Halved
<1>26. v[0] \div 16384 = v[14]
  BY <1>11, <1>12, <1>25, Halved
<1>27. v[0] \div 32768 = v[15]
  BY <1>11, <1>12, <1>26, Halved
<1> DEFINE Same(k) == (v[0] \div 2^k) % 2 = 1 <=> k \in w
<1>28. \A k \in 0 .. 15 : v[k] % 2 = 1 <=> k \in w
  <2> SUFFICES ASSUME NEW k \in 0 .. 15
               PROVE  v[k] % 2 = 1 <=> k \in w
    OBVIOUS
  <2> DEFINE y == v[k]
             z == v[k + 1]
             d == b(k)
  <2>1. y \in Nat /\ z \in Nat /\ y = (2 * z) + d /\ d \in {0, 1} /\ (d = 1 <=> k \in w)
    <3>1. k \in 0 .. 16 /\ k + 1 \in 0 .. 16
      OBVIOUS
    <3> QED
      BY <1>3, <1>4, <1>8, <3>1
  <2> HIDE DEF y, z, d
  <2>2. y % 2 = 1 <=> d = 1
    BY <2>1
  <2> QED
    BY <2>1, <2>2 DEF y
<1>29. Same(0)
  BY <1>12, <1>28, 2^0 = 1
<1>30. Same(1)
  BY <1>13, <1>28, 2^1 = 2
<1>31. Same(2)
  BY <1>14, <1>28, 2^2 = 4
<1>32. Same(3)
  BY <1>15, <1>28, 2^3 = 8
<1>33. Same(4)
  BY <1>16, <1>28, 2^4 = 16
<1>34. Same(5)
  BY <1>17, <1>28, 2^5 = 32
<1>35. Same(6)
  BY <1>18, <1>28, 2^6 = 64
<1>36. Same(7)
  BY <1>19, <1>28, 2^7 = 128
<1>37. Same(8)
  BY <1>20, <1>28, 2^8 = 256
<1>38. Same(9)
  BY <1>21, <1>28, 2^9 = 512
<1>39. Same(10)
  BY <1>22, <1>28, 2^10 = 1024
<1>40. Same(11)
  BY <1>23, <1>28, 2^11 = 2048
<1>41. Same(12)
  BY <1>24, <1>28, 2^12 = 4096
<1>42. Same(13)
  BY <1>25, <1>28, 2^13 = 8192
<1>43. Same(14)
  BY <1>26, <1>28, 2^14 = 16384
<1>44. Same(15)
  BY <1>27, <1>28, 2^15 = 32768
<1> HIDE DEF Same
<1>45. \A k \in Bit : Same(k)
  <2>1. \A k \in Bit : \/ k = 0 \/ k = 1 \/ k = 2 \/ k = 3 \/ k = 4 \/ k = 5 \/ k = 6 \/ k = 7
                       \/ k = 8 \/ k = 9 \/ k = 10 \/ k = 11 \/ k = 12 \/ k = 13 \/ k = 14 \/ k = 15
    BY DEF Bit
  <2> QED
    BY <1>29, <1>30, <1>31, <1>32, <1>33, <1>34, <1>35, <1>36, <1>37, <1>38, <1>39, <1>40, <1>41, <1>42, <1>43, <1>44, <2>1, Zenon
<1>46. Bits(Num(w)) = {k \in Bit : k \in w}
  BY <1>1, <1>45 DEF Bits, Same
<1>47. w \subseteq Bit
  BY DEF Word
<1> QED
  BY <1>9, <1>46, <1>47

-----------------------------------------------------------------------------
(* What is handed on.                                                      *)

AsSent == sent = [i \in 1 .. Len(Frames) |-> [Frames[i] EXCEPT !.words = WithCrc(@)]]

LEMMA SentFrames ==
    ASSUME AsSent, NEW i \in 1 .. NF
    PROVE  /\ Len(sent) = NF
           /\ sent[i].cmd = Kind(i)
           /\ sent[i].words = Sent(i)
<1>1. Frames[i] \in [cmd : BOOLEAN, words : Seq(Word)] /\ NF \in Nat
  BY FramingAssumption, ElementOfSeq, LenProperties DEF NF
<1>2. sent[i] = [Frames[i] EXCEPT !.words = WithCrc(Frames[i].words)]
  BY DEF AsSent, NF
<1>3. Len(sent) = NF
  BY <1>1 DEF AsSent, NF
<1> QED
  BY <1>1, <1>2, <1>3 DEF Kind, Sent

\* The CRC of a frame as it is sent is right.
LEMMA SentCrc ==
    ASSUME NEW i \in 1 .. NF
    PROVE  /\ CRC(Front(Sent(i))) = Last(Sent(i))
           /\ Sent(i) \in [1 .. Size(i) -> Word]
           /\ Len(Frames[i].words) = Size(i) - 1
           /\ \A k \in 1 .. Len(Frames[i].words) : Sent(i)[k] = Frames[i].words[k]
<1> DEFINE w == Frames[i].words
           c == CRC(w)
           p == Sent(i)
<1>1. w \in Seq(Word) /\ p \in Seq(Word) /\ Len(p) = Size(i) /\ Size(i) \in {4, 16}
  BY FrameFacts
<1>2. p = Append(w, c) /\ c \in Word
  BY <1>1, CrcType DEF Sent, WithCrc
<1> HIDE DEF w, c, p
<1>3. Len(p) = Len(w) + 1 /\ p[Len(w) + 1] = c /\ \A k \in 1 .. Len(w) : p[k] = w[k]
  BY <1>1, <1>2, AppendProperties
<1>4. Len(w) \in Nat /\ Len(p) - 1 = Len(w)
  BY <1>1, <1>3, LenProperties
<1>5. Front(p) = w
  <2>1. Front(p) = SubSeq(p, 1, Len(w))
    BY <1>4 DEF Front
  <2>2. \A k \in 1 .. Len(w) : p[k] \in Word
    BY <1>1, <1>3, <1>4, ElementOfSeq
  <2>3. 1 \in Int /\ Len(w) \in Int
    BY <1>4
  <2>4. /\ SubSeq(p, 1, Len(w)) \in Seq(Word)
        /\ Len(SubSeq(p, 1, Len(w))) = IF 1 <= Len(w) THEN Len(w) - 1 + 1 ELSE 0
        /\ \A k \in 1 .. Len(w) - 1 + 1 : SubSeq(p, 1, Len(w))[k] = p[1 + k - 1]
    BY <2>2, <2>3, SubSeqProperties
  <2>5. Len(SubSeq(p, 1, Len(w))) = Len(w)
    BY <1>4, <2>4
  <2>6. \A k \in 1 .. Len(w) : SubSeq(p, 1, Len(w))[k] = w[k]
    <3>1. \A k \in 1 .. Len(w) : k \in 1 .. Len(w) - 1 + 1 /\ 1 + k - 1 = k
      BY <1>4
    <3> QED
      BY <1>3, <2>4, <3>1
  <2> QED
    BY <1>1, <2>1, <2>4, <2>5, <2>6, SeqEqual
<1>6. Last(p) = c
  BY <1>3 DEF Last
<1>7. p \in [1 .. Size(i) -> Word]
  BY <1>1
<1>8. CRC(Front(p)) = Last(p)
  BY <1>5, <1>6 DEF c
<1>9. Len(w) = Size(i) - 1
  BY <1>1, <1>3, <1>4
<1> QED
  BY <1>3, <1>7, <1>8, <1>9 DEF w, p

\* A frame whose CRC is right is the one sent, if it is but for one word.
LEMMA CrcTellsFrame ==
    ASSUME NEW L, NEW s, NEW i \in 1 .. NF, IsSent(L, s, i),
           NEW p \in [1 .. Size(i) -> Word],
           \A k \in 1 .. Size(i) : p[k] = WordAt(L, s, k - 1),
           CRC(Front(p)) = Last(p)
    PROVE  p = Sent(i)
<1>1. /\ CRC(Front(Sent(i))) = Last(Sent(i)) /\ Sent(i) \in [1 .. Size(i) -> Word]
  BY SentCrc
<1>2. Size(i) \in Nat \ {0}
  <2>1. Size(i) \in {4, 16}
    BY FrameFacts
  <2> QED
    BY <2>1
<1>3. PICK m0 \in 0 .. Size(i) - 1 :
         \A m \in 0 .. Size(i) - 1 : m # m0 => WordAt(L, s, m) = Sent(i)[m + 1]
  BY DEF IsSent
<1>4. m0 + 1 \in 1 .. Size(i)
  BY <1>2
<1>5. ASSUME NEW k \in 1 .. Size(i), k # m0 + 1
      PROVE  p[k] = Sent(i)[k]
  <2>1. k - 1 \in 0 .. Size(i) - 1 /\ k - 1 # m0 /\ (k - 1) + 1 = k
    BY <1>2, <1>5
  <2>2. WordAt(L, s, k - 1) = Sent(i)[(k - 1) + 1]
    BY <1>3, <2>1
  <2> QED
    BY <2>1, <2>2
<1> DEFINE w == Sent(i)
           n == Size(i)
           m1 == m0 + 1
<1>6. /\ n \in Nat \ {0} /\ w \in [1 .. n -> Word] /\ p \in [1 .. n -> Word]
      /\ CRC(Front(w)) = Last(w) /\ CRC(Front(p)) = Last(p)
      /\ m1 \in 1 .. n /\ \A k \in 1 .. n : k # m1 => p[k] = w[k]
  BY <1>1, <1>2, <1>4, <1>5
<1> HIDE DEF w, n, m1
<1>7. p = w
  BY <1>6, CrcFindsDamage
<1> QED
  BY <1>7 DEF w

\* The words of a frame, adjusted, are what is expected of that frame.
LEMMA HandedOn ==
    ASSUME AsSent, polarity \in {-1, 0, 1}, NEW i \in 1 .. NF
    PROVE  IsFrame(Kind(i), IF Kind(i) THEN Sent(i) ELSE Adjusted(Sent(i)), i)
<1> DEFINE p == Sent(i)
           q == IF Kind(i) THEN p ELSE Adjusted(p)
           sample(k) == Bits(DocumentedSample(polarity, Num(p[k]), Num(p[k + 4])))
<1>1. /\ sent[i].cmd = Kind(i) /\ sent[i].words = p
      /\ Len(p) = Size(i) /\ p \in [1 .. Size(i) -> Word] /\ Kind(i) \in BOOLEAN
  BY SentFrames, SentCrc, FrameFacts
<1> HIDE DEF p
<1>2. ASSUME NEW k \in 1 .. Len(p)
      PROVE  q[k] = IF Kind(i) \/ polarity = 0 \/ k \notin 8 .. 11 THEN p[k] ELSE sample(k)
  <2>1. CASE Kind(i)
    BY <2>1
  <2>2. CASE ~Kind(i)
    <3>1. Size(i) = DataPackets /\ DataPackets = 16
      BY <1>1, <2>2 DEF Size, FrameLen, DataPackets
    <3>2. k \in 1 .. DataPackets /\ q = Adjusted(p)
      BY <1>1, <2>2, <3>1
    <3>3. q[k] = IF k \in 8 .. 11 THEN Bits(AdjustData(polarity, Num(p[k]), Num(p[k + 4]))) ELSE p[k]
      BY <3>2 DEF Adjusted
    <3>4. CASE k \notin 8 .. 11
      BY <3>3, <3>4
    <3>5. CASE k \in 8 .. 11
      <4>1. p[k] \in Word /\ p[k + 4] \in Word
        <5>1. k \in 1 .. 16 /\ k + 4 \in 1 .. 16
          BY <3>5
        <5> QED
          BY <1>1, <3>1, <5>1
      <4> DEFINE ch == Num(p[k])
                 ps == Num(p[k + 4])
      <4>2. ch \in Sample /\ ps \in Sample /\ Bits(ch) = p[k]
        BY <4>1, BitsOfNum
      <4>3. q[k] = Bits(AdjustData(polarity, ch, ps)) /\ sample(k) = Bits(DocumentedSample(polarity, ch, ps))
        BY <3>3, <3>5
      <4> HIDE DEF ch, ps, q, sample
      <4>4. CASE polarity = 0
        <5>1. AdjustData(0, ch, ps) = ch
          BY DEF AdjustData
        <5> QED
          BY <4>2, <4>3, <4>4, <5>1
      <4>5. CASE polarity = 1
        <5>1. AdjustData(1, ch, ps) = DocumentedSample(1, ch, ps)
          BY <4>2, PositiveAdjusted, DocumentedValues
        <5>2. polarity # 0
          BY <4>5
        <5> QED
          BY <2>2, <3>5, <4>3, <4>5, <5>1, <5>2, Zenon
      <4>6. CASE polarity = -1
        <5>1. AdjustData(-1, ch, ps) = DocumentedSample(-1, ch, ps)
          BY <4>2, NegativeAdjusted, DocumentedValues
        <5>2. polarity # 0
          BY <4>6
        <5> QED
          BY <2>2, <3>5, <4>3, <4>6, <5>1, <5>2, Zenon
      <4> QED
        BY <4>4, <4>5, <4>6
    <3> QED
      BY <3>4, <3>5
  <2> QED
    BY <1>1, <2>1, <2>2
<1> HIDE DEF q
<1>3. IsFrame(Kind(i), q, i)
  BY <1>1, <1>2 DEF IsFrame
<1> QED
  BY <1>3 DEF q, p

\* Frames that differ are told apart when they are handed on.
LEMMA OneFrame ==
    ASSUME AsSent, FramesDiffer, NEW cmd, NEW q, NEW i \in 1 .. NF, NEW j \in 1 .. NF,
           IsFrame(cmd, q, i), IsFrame(cmd, q, j)
    PROVE  i = j
<1>1. SUFFICES ASSUME i # j
               PROVE  FALSE
  OBVIOUS
<1>2. /\ sent[i].cmd = Kind(i) /\ sent[i].words = Sent(i)
      /\ sent[j].cmd = Kind(j) /\ sent[j].words = Sent(j)
      /\ Len(Sent(i)) = Size(i) /\ Len(Sent(j)) = Size(j)
      /\ Size(i) \in {4, 16}
  BY SentFrames, FrameFacts
<1>3. cmd = Kind(i) /\ cmd = Kind(j)
  BY <1>2 DEF IsFrame
<1>4. Size(j) = Size(i)
  BY <1>3 DEF Size
<1>5. PICK k \in 1 .. Len(Frames[i].words) :
         /\ Frames[i].cmd \/ k \notin 8 .. 11
         /\ Frames[i].words[k] # Frames[j].words[k]
  <2>1. Frames[i].cmd = Frames[j].cmd /\ i \in 1 .. Len(Frames) /\ j \in 1 .. Len(Frames)
    BY <1>3 DEF Kind, NF
  <2> QED
    BY <1>1, <2>1, Zenon DEF FramesDiffer
<1>6. /\ Len(Frames[i].words) = Size(i) - 1
      /\ Len(Frames[j].words) = Size(i) - 1
      /\ \A l \in 1 .. Len(Frames[i].words) : Sent(i)[l] = Frames[i].words[l]
      /\ \A l \in 1 .. Len(Frames[j].words) : Sent(j)[l] = Frames[j].words[l]
  BY <1>4, SentCrc
<1>7. k \in 1 .. Len(Sent(i)) /\ k \in 1 .. Len(Sent(j))
  BY <1>2, <1>4, <1>6
<1>8. q[k] = Sent(i)[k]
  BY <1>2, <1>3, <1>5, <1>7 DEF IsFrame, Kind
<1>9. q[k] = Sent(j)[k]
  BY <1>2, <1>3, <1>5, <1>7 DEF IsFrame, Kind
<1> QED
  BY <1>5, <1>6, <1>8, <1>9

LEMMA NumberFound ==
    ASSUME AsSent, polarity \in {-1, 0, 1}, NEW i \in 1 .. NF,
           NEW cmd, cmd = Kind(i), NEW p, p = Sent(i)
    PROVE  LET n == NumberOf(cmd, IF cmd THEN p ELSE Adjusted(p))
           IN  n \in 1 .. NF /\ (FramesDiffer => n = i)
<1> DEFINE q == IF cmd THEN p ELSE Adjusted(p)
           n == NumberOf(cmd, q)
<1>1. IsFrame(cmd, q, i)
  BY HandedOn
<1>2. Len(sent) = NF
  BY SentFrames
<1> HIDE DEF q
<1>3. n \in 1 .. NF /\ IsFrame(cmd, q, n)
  <2>1. \E j \in 1 .. NF : IsFrame(cmd, q, j)
    BY <1>1
  <2>2. n = CHOOSE j \in 1 .. NF : IsFrame(cmd, q, j)
    BY <1>2, <2>1, Zenon DEF NumberOf
  <2> QED
    BY <2>1, <2>2, Zenon
<1> HIDE DEF n
<1>4. FramesDiffer => n = i
  BY <1>1, <1>3, OneFrame
<1> QED
  BY <1>3, <1>4 DEF n, q

-----------------------------------------------------------------------------
(* Frames the fault did not touch.                                         *)

\* The fault is in frame hit, if it is in one.
HitBy(f, d) ==
    /\ d >= 0 /\ f <= Len(AllBytes) => hit = FrameOf[f]
    /\ d = -1 /\ f > 1 /\ FrameOf[f - 1] = FrameOf[f] => hit = FrameOf[f]
    /\ hit # 0 => f <= Len(AllBytes) /\ (d >= 0 \/ (f > 1 /\ FrameOf[f - 1] = FrameOf[f]))

\* Where frame i begins on the line.
Place(f, d, i) == IF Before(i) + 1 < f THEN Before(i) + 1 ELSE (Before(i) + 1) - d

\* Where Acquire may take for a frame what is none, how many bytes it then
\* reads, and the frames that begin within them.
WrongStart(f, d) == IF d > 0 THEN Before(hit) + 1 ELSE f

\* It reads the frame the fault is in from its start, if that is not the fault.
HitBehindStart(f) == hit # 0 /\ Before(hit) + 1 < f

Reach(f, d) ==
    IF d > 0 THEN 3 * Size(hit)
    ELSE IF HitBehindStart(f) THEN 1 ELSE 48

Doomed(f, d) ==
    {i \in 1 .. NF : i # hit /\ WrongStart(f, d) < Place(f, d, i)
                             /\ Place(f, d, i) < WrongStart(f, d) + Reach(f, d)}

Safe(f, d, i) == i \in 1 .. NF /\ i # hit /\ i \notin Doomed(f, d)

\* Frames do not overlap.
LEMMA FramesApart ==
    ASSUME NEW i \in 1 .. NF, NEW j \in 1 .. NF, i < j
    PROVE  Before(i) + 3 * Size(i) <= Before(j)
<1>1. i # NF /\ i \in Int /\ j \in Int
  BY Numbers
<1>2. i + 1 \in 1 .. NF /\ Before(i + 1) = Before(i) + 3 * Size(i)
  BY <1>1, Numbers
<1>3. CASE i + 1 = j
  <2>1. Before(j) \in Nat /\ Before(j) = Before(i) + 3 * Size(i)
    BY <1>2, <1>3, Numbers
  <2> QED
    BY <2>1
<1>4. CASE i + 1 # j
  <2>1. i + 1 < j
    BY <1>1, <1>4
  <2>2. Before(i + 1) < Before(j) /\ Before(j) \in Nat /\ Before(i + 1) \in Nat
    BY <1>2, <2>1, BeforeGrows, Numbers
  <2> QED
    BY <1>2, <2>2
<1> QED
  BY <1>3, <1>4

\* Byte g is in a frame, and no other.
LEMMA FrameAround ==
    ASSUME NEW g \in 1 .. Len(AllBytes)
    PROVE  /\ FrameOf[g] \in 1 .. NF
           /\ Before(FrameOf[g]) < g /\ g <= Before(FrameOf[g]) + 3 * Size(FrameOf[g])
           /\ \A i \in 1 .. NF : Before(i) < g /\ g <= Before(i) + 3 * Size(i) => i = FrameOf[g]
<1>1. PICK i \in 1 .. NF : \E k \in 1 .. Size(i) : \E t \in 1 .. 3 : g = At(i, k, t)
  BY Somewhere
<1>2. PICK k \in 1 .. Size(i), t \in 1 .. 3 : g = At(i, k, t)
  BY <1>1
<1>3. Size(i) \in {4, 16} /\ Before(i) \in Nat /\ NF \in Nat
  BY Numbers
<1>4. k \in Int /\ t \in Int /\ k \in 1 .. 16 /\ k <= Size(i)
  BY <1>3
<1>5. FrameOf[g] = i
  BY <1>2, <1>4, WireFacts
<1>6. g = Before(i) + 3 * (k - 1) + t
  BY <1>2 DEF At
<1>7. Before(i) < g /\ g <= Before(i) + 3 * Size(i)
  <2> DEFINE b == Before(i)
             z == Size(i)
  <2>1. b \in Nat /\ z \in {4, 16} /\ g = b + 3 * (k - 1) + t /\ k <= z
    BY <1>3, <1>4, <1>6
  <2> HIDE DEF b, z
  <2>2. b < g /\ g <= b + 3 * z
    BY <1>4, <2>1
  <2> QED
    BY <2>2 DEF b, z
<1>8. ASSUME NEW j \in 1 .. NF, Before(j) < g, g <= Before(j) + 3 * Size(j), j # i
      PROVE  FALSE
  <2>1. i < j \/ j < i
    BY <1>3, <1>8
  <2>2. /\ i < j => Before(i) + 3 * Size(i) <= Before(j)
        /\ j < i => Before(j) + 3 * Size(j) <= Before(i)
    BY FramesApart
  <2>3. Size(j) \in {4, 16} /\ Before(j) \in Nat /\ g \in Int
    BY Numbers
  <2> QED
    BY <1>3, <1>7, <1>8, <2>1, <2>2, <2>3
<1> QED
  BY <1>5, <1>7, <1>8

\* Where the fault is, in the frame it is in.
LEMMA HitAround ==
    ASSUME NEW L, NEW f, NEW d, Came(L, f, d), HitBy(f, d)
    PROVE  /\ f \in Int /\ f >= 1 /\ d \in Int /\ d >= -1
           /\ Len(L) \in Nat /\ Len(L) = Len(AllBytes) - d /\ Len(AllBytes) \in Nat
           /\ d >= 0 /\ f <= Len(AllBytes) =>
                 /\ hit \in 1 .. NF
                 /\ Before(hit) < f /\ f <= Before(hit) + 3 * Size(hit)
           /\ d > 0 => f <= Len(AllBytes) /\ f + d - 1 <= Before(hit) + 3 * Size(hit)
           /\ d = -1 => \A i \in 1 .. NF : Before(i) + 1 < f /\ f <= Before(i) + 3 * Size(i) => i = hit
           /\ hit # 0 =>
                 /\ hit \in 1 .. NF /\ f <= Len(AllBytes)
                 /\ Before(hit) < f /\ f <= Before(hit) + 3 * Size(hit)
                 /\ d = -1 => Before(hit) + 1 < f
<1> DEFINE N == Len(AllBytes)
<1>1. /\ f \in Int /\ f >= 1 /\ d \in Int /\ d >= -1 /\ L \in Seq(Byte) /\ Len(L) = N - d
      /\ d # 0 => f <= N
      /\ d > 0 => f + d - 1 <= N /\ FrameOf[f + d - 1] = FrameOf[f]
  BY DEF Came
<1>2. Len(L) \in Nat /\ N \in Nat
  BY <1>1, Numbers, LenProperties
<1>3. /\ d >= 0 /\ f <= N => hit = FrameOf[f]
      /\ d = -1 /\ f > 1 /\ FrameOf[f - 1] = FrameOf[f] => hit = FrameOf[f]
      /\ hit # 0 => f <= N /\ (d >= 0 \/ (f > 1 /\ FrameOf[f - 1] = FrameOf[f]))
  BY DEF HitBy
<1> HIDE DEF N
<1>4. ASSUME NEW g \in Int, 1 <= g, g <= N
      PROVE  /\ FrameOf[g] \in 1 .. NF
             /\ Before(FrameOf[g]) < g /\ g <= Before(FrameOf[g]) + 3 * Size(FrameOf[g])
             /\ \A i \in 1 .. NF : Before(i) < g /\ g <= Before(i) + 3 * Size(i) => i = FrameOf[g]
  <2>1. g \in 1 .. Len(AllBytes)
    BY <1>2, <1>4 DEF N
  <2> QED
    BY <2>1, FrameAround
<1>5. d >= 0 /\ f <= N =>
         /\ hit \in 1 .. NF
         /\ Before(hit) < f /\ f <= Before(hit) + 3 * Size(hit)
  BY <1>1, <1>3, <1>4
<1>6. ASSUME d > 0
      PROVE  f <= N /\ f + d - 1 <= Before(hit) + 3 * Size(hit)
  <2>1. f <= N /\ f + d - 1 \in Int /\ 1 <= f + d - 1 /\ f + d - 1 <= N
    BY <1>1, <1>6
  <2>2. f + d - 1 <= Before(FrameOf[f + d - 1]) + 3 * Size(FrameOf[f + d - 1])
    BY <1>4, <2>1
  <2>3. hit = FrameOf[f + d - 1]
    BY <1>1, <1>3, <1>6, <2>1
  <2> QED
    BY <2>1, <2>2, <2>3
<1>7. ASSUME d = -1, NEW i \in 1 .. NF, Before(i) + 1 < f, f <= Before(i) + 3 * Size(i)
      PROVE  i = hit
  <2>1. Before(i) \in Nat /\ Size(i) \in {4, 16} /\ f <= N
    BY <1>1, <1>7, Numbers
  <2>2. f - 1 \in Int /\ 1 <= f - 1 /\ f - 1 <= N /\ Before(i) < f - 1 /\ f - 1 <= Before(i) + 3 * Size(i)
    BY <1>1, <1>2, <1>7, <2>1
  <2>3. i = FrameOf[f - 1] /\ i = FrameOf[f]
    BY <1>1, <1>4, <1>7, <2>1, <2>2
  <2> QED
    BY <1>1, <1>3, <1>7, <2>2, <2>3
<1>8. ASSUME hit # 0
      PROVE  /\ hit \in 1 .. NF /\ f <= N
             /\ Before(hit) < f /\ f <= Before(hit) + 3 * Size(hit)
             /\ d = -1 => Before(hit) + 1 < f
  <2>1. CASE d >= 0
    BY <1>1, <1>3, <1>5, <1>8, <2>1
  <2>2. CASE d = -1
    <3>1. f > 1 /\ f <= N /\ FrameOf[f - 1] = FrameOf[f] /\ hit = FrameOf[f]
      BY <1>3, <1>8, <2>2
    <3>2. hit \in 1 .. NF /\ Before(hit) < f /\ f <= Before(hit) + 3 * Size(hit)
      BY <1>1, <1>4, <3>1
    <3>3. f - 1 \in Int /\ 1 <= f - 1 /\ f - 1 <= N
      BY <1>1, <1>2, <3>1
    <3>4. Before(hit) < f - 1 /\ Before(hit) \in Nat
      BY <1>4, <3>1, <3>2, <3>3, Numbers
    <3> QED
      BY <1>1, <3>1, <3>2, <3>4
  <2> QED
    BY <1>1, <2>1, <2>2
<1> QED
  BY <1>1, <1>2, <1>5, <1>6, <1>7, <1>8 DEF N

\* A frame the fault is not in is before it, or behind the bytes lost.
LEMMA Aside ==
    ASSUME NEW L, NEW f, NEW d, Came(L, f, d), HitBy(f, d), NEW i \in 1 .. NF, i # hit,
           d >= 0, f <= Len(AllBytes)
    PROVE  \/ i < hit /\ Before(i) + 3 * Size(i) < f
           \/ hit < i /\ Before(i) >= f /\ Before(i) + 1 >= f + d
<1> DEFINE b == Before(i)
           z == Size(i)
           B == Before(hit)
           Z == Size(hit)
<1>1. /\ f \in Int /\ d \in Int
      /\ hit \in 1 .. NF /\ B < f /\ f <= B + 3 * Z /\ (d > 0 => f + d - 1 <= B + 3 * Z)
  BY HitAround
<1>2. B \in Nat /\ Z \in {4, 16} /\ b \in Nat /\ z \in {4, 16} /\ hit \in Int /\ i \in Int
  BY <1>1, Numbers
<1>3. CASE i < hit
  <2>1. b + 3 * z <= B
    BY <1>1, <1>3, FramesApart
  <2> QED
    BY <1>1, <1>2, <1>3, <2>1
<1>4. CASE hit < i
  <2>1. B + 3 * Z <= b
    BY <1>1, <1>4, FramesApart
  <2> HIDE DEF B, Z, b, z
  <2>2. b >= f /\ b + 1 >= f + d
    BY <1>1, <1>2, <2>1
  <2> QED
    BY <1>4, <2>2 DEF b
<1> QED
  BY <1>2, <1>3, <1>4

\* A frame the fault is not in lies whole on the line.
LEMMA PlaceKept ==
    ASSUME NEW L, NEW f, NEW d, Came(L, f, d), HitBy(f, d), NEW i \in 1 .. NF, i # hit
    PROVE  LET p == Place(f, d, i)
           IN  /\ p \in Int /\ 1 <= p /\ p + 3 * Size(i) - 1 <= Len(L)
               /\ \A q \in 0 .. 3 * Size(i) - 1 : L[p + q] = AllBytes[Before(i) + 1 + q]
<1> DEFINE p == Place(f, d, i)
           N == Len(AllBytes)
           b == Before(i)
           z == Size(i)
<1>1. /\ f \in Int /\ f >= 1 /\ d \in Int /\ d >= -1
      /\ Len(L) \in Nat /\ Len(L) = N - d /\ N \in Nat
      /\ d > 0 => f <= N /\ f + d - 1 <= N
      /\ d = -1 => ~(b + 1 < f /\ f <= b + 3 * z)
  BY HitAround DEF Came
<1>2. b \in Nat /\ z \in {4, 16} /\ b + 3 * z <= N
  <2>1. b \in Nat /\ z \in {4, 16} /\ i \in Int /\ NF \in Nat
    BY Numbers
  <2>2. CASE i = NF
    <3>1. N = b + 3 * z
      BY <2>2, Numbers
    <3> QED
      BY <1>1, <2>1, <3>1
  <2>3. CASE i # NF
    <3>1. NF \in 1 .. NF /\ i < NF
      BY <2>1, <2>3
    <3>2. b + 3 * z <= Before(NF)
      BY <3>1, FramesApart
    <3>3. N = Before(NF) + 3 * Size(NF) /\ Size(NF) \in {4, 16} /\ Before(NF) \in Nat
      BY <3>1, Numbers
    <3> QED
      BY <2>1, <3>2, <3>3
  <2> QED
    BY <2>2, <2>3
<1>3. ASSUME d >= 0, f <= N
      PROVE  b + 3 * z < f \/ (b >= f /\ b + 1 >= f + d)
  BY <1>3, Aside
<1>4. \A s \in 1 .. Len(L) : s # f \/ d > 0 => L[s] = AllBytes[Org(f, d, s)]
  BY DEF Came
<1>5. p = IF b + 1 < f THEN b + 1 ELSE (b + 1) - d
  BY DEF Place
<1> HIDE DEF p, N, b, z
<1>6. p \in Int /\ 1 <= p /\ p + 3 * z - 1 <= Len(L)
  <2>1. CASE d = -1
    BY <1>1, <1>2, <1>5, <2>1
  <2>2. CASE d >= 0 /\ f <= N
    BY <1>1, <1>2, <1>3, <1>5, <2>2
  <2>3. CASE d = 0
    BY <1>1, <1>2, <1>5, <2>3
  <2> QED
    BY <1>1, <2>1, <2>2, <2>3
<1>7. ASSUME NEW q \in 0 .. 3 * z - 1
      PROVE  L[p + q] = AllBytes[b + 1 + q]
  <2>1. q \in Int /\ 0 <= q /\ q <= 3 * z - 1 /\ p + q \in 1 .. Len(L)
    BY <1>1, <1>2, <1>6
  <2>2. Org(f, d, p + q) = b + 1 + q /\ (p + q # f \/ d > 0)
    <3>0. Org(f, d, p + q) = IF p + q < f THEN p + q ELSE (p + q) + d
      BY DEF Org
    <3>1. CASE d = -1
      BY <1>1, <1>2, <1>5, <2>1, <3>0, <3>1
    <3>2. CASE d >= 0 /\ f <= N
      BY <1>1, <1>2, <1>3, <1>5, <2>1, <3>0, <3>2
    <3>3. CASE d = 0 /\ ~(f <= N)
      BY <1>1, <1>2, <1>5, <2>1, <3>0, <3>3
    <3> QED
      BY <1>1, <3>1, <3>2, <3>3
  <2> QED
    BY <1>4, <2>1, <2>2
<1> QED
  BY <1>6, <1>7 DEF p, b, z

\* Such a frame passes the checks, and is what was sent.
LEMMA KeptPasses ==
    ASSUME NEW L, NEW f, NEW d, Came(L, f, d), HitBy(f, d), NEW i \in 1 .. NF, i # hit,
           NEW s, s = Place(f, d, i)
    PROVE  /\ s \in Int /\ Passes(L, s)
           /\ COMMAND(L[s]) = Kind(i) /\ Length(L, s) = Size(i)
           /\ \A m \in 0 .. Size(i) - 1 : WordAt(L, s, m) = Sent(i)[m + 1]
<1> DEFINE b == Before(i)
           z == Size(i)
<1>1. /\ s \in Int /\ 1 <= s /\ s + 3 * z - 1 <= Len(L)
      /\ \A q \in 0 .. 3 * z - 1 : L[s + q] = AllBytes[b + 1 + q]
  BY PlaceKept
<1>2. b \in Nat /\ z \in {4, 16} /\ Kind(i) \in BOOLEAN /\ Len(L) \in Nat
  BY Numbers, FrameFacts, HitAround
<1>3. \A k, t \in Int : At(i, k, t) = b + 3 * (k - 1) + t
  BY DEF At
<1> HIDE DEF b
<1>4. ASSUME NEW m \in 0 .. z - 1
      PROVE  /\ L[s + 3 * m] = AllBytes[At(i, m + 1, 1)]
             /\ L[s + 3 * m + 1] = AllBytes[At(i, m + 1, 2)]
             /\ L[s + 3 * m + 2] = AllBytes[At(i, m + 1, 3)]
  <2>1. /\ m + 1 \in Int
        /\ 3 * m \in 0 .. 3 * z - 1 /\ 3 * m + 1 \in 0 .. 3 * z - 1 /\ 3 * m + 2 \in 0 .. 3 * z - 1
    BY <1>2
  <2>2. /\ At(i, m + 1, 1) = b + 3 * ((m + 1) - 1) + 1
        /\ At(i, m + 1, 2) = b + 3 * ((m + 1) - 1) + 2
        /\ At(i, m + 1, 3) = b + 3 * ((m + 1) - 1) + 3
    BY <1>3, <2>1
  <2>3. /\ b + 1 + 3 * m = At(i, m + 1, 1)
        /\ b + 1 + (3 * m + 1) = At(i, m + 1, 2)
        /\ b + 1 + (3 * m + 2) = At(i, m + 1, 3)
        /\ s + 3 * m + 1 = s + (3 * m + 1) /\ s + 3 * m + 2 = s + (3 * m + 2)
    <3> DEFINE a(t) == At(i, m + 1, t)
    <3>1. m \in Int /\ s \in Int /\ b \in Int
      BY <1>1, <1>2
    <3>2. a(1) = b + 3 * ((m + 1) - 1) + 1 /\ a(2) = b + 3 * ((m + 1) - 1) + 2 /\ a(3) = b + 3 * ((m + 1) - 1) + 3
      BY <2>2
    <3> HIDE DEF a
    <3>3. /\ b + 1 + 3 * m = a(1) /\ b + 1 + (3 * m + 1) = a(2) /\ b + 1 + (3 * m + 2) = a(3)
          /\ s + 3 * m + 1 = s + (3 * m + 1) /\ s + 3 * m + 2 = s + (3 * m + 2)
      BY <3>1, <3>2
    <3> QED
      BY <3>3 DEF a
  <2>4. /\ L[s + 3 * m] = AllBytes[b + 1 + 3 * m]
        /\ L[s + (3 * m + 1)] = AllBytes[b + 1 + (3 * m + 1)]
        /\ L[s + (3 * m + 2)] = AllBytes[b + 1 + (3 * m + 2)]
    BY <1>1, <2>1
  <2> QED
    BY <2>3, <2>4
<1>5. ASSUME NEW m \in 0 .. z - 1
      PROVE  /\ FIRST(L[s + 3 * m]) /\ SECOND(L[s + 3 * m + 1]) /\ THIRD(L[s + 3 * m + 2])
             /\ SOFR(L[s + 3 * m]) <=> m = 0
             /\ EOFR(L[s + 3 * m]) <=> m = z - 1
             /\ COMMAND(L[s + 3 * m]) <=> Kind(i)
             /\ WordAt(L, s, m) = Sent(i)[m + 1]
  <2>1. m + 1 \in 1 .. z /\ (m + 1 = 1 <=> m = 0) /\ (m + 1 = z <=> m = z - 1)
    BY <1>2
  <2>2. /\ FIRST(AllBytes[At(i, m + 1, 1)]) /\ SECOND(AllBytes[At(i, m + 1, 2)]) /\ THIRD(AllBytes[At(i, m + 1, 3)])
        /\ SOFR(AllBytes[At(i, m + 1, 1)]) <=> m + 1 = 1
        /\ EOFR(AllBytes[At(i, m + 1, 1)]) <=> m + 1 = z
        /\ COMMAND(AllBytes[At(i, m + 1, 1)]) <=> Kind(i)
        /\ UnpackWord(AllBytes[At(i, m + 1, 1)], AllBytes[At(i, m + 1, 2)], AllBytes[At(i, m + 1, 3)]) = Sent(i)[m + 1]
    BY <2>1, ByteFlags
  <2> QED
    BY <1>4, <2>1, <2>2 DEF WordAt
<1>6. 0 \in 0 .. z - 1 /\ z - 1 \in 0 .. z - 1 /\ s + 3 * 0 = s
  BY <1>1, <1>2
<1>7. /\ SOFR(L[s]) /\ EOFR(L[s + 3 * (z - 1)])
      /\ COMMAND(L[s]) = Kind(i)
  <2>1. COMMAND(L[s]) \in BOOLEAN
    BY DEF COMMAND
  <2>2. SOFR(L[s + 3 * 0]) /\ (COMMAND(L[s + 3 * 0]) <=> Kind(i)) /\ EOFR(L[s + 3 * (z - 1)])
    BY <1>5, <1>6
  <2> QED
    BY <1>2, <1>6, <2>1, <2>2
<1>8. Length(L, s) = z
  BY <1>7, Lengths
<1>9. s \in 1 .. Len(L)
  BY <1>1, <1>2
<1>10. \A m \in 0 .. z - 1 : COMMAND(L[s + 3 * m]) = COMMAND(L[s])
  <2> SUFFICES ASSUME NEW m \in 0 .. z - 1
               PROVE  COMMAND(L[s + 3 * m]) = COMMAND(L[s])
    OBVIOUS
  <2>1. COMMAND(L[s + 3 * m]) \in BOOLEAN
    BY DEF COMMAND
  <2> QED
    BY <1>2, <1>5, <1>7, <2>1
<1>11. Passes(L, s)
  BY <1>1, <1>5, <1>7, <1>8, <1>9, <1>10 DEF Passes
<1> QED
  BY <1>1, <1>5, <1>7, <1>8, <1>11

\* What Acquire takes for the start of a frame reaches into no safe one.
LEMMA NothingInside ==
    ASSUME NEW L, NEW f, NEW d, Came(L, f, d), HitBy(f, d), NEW i, Safe(f, d, i),
           NEW s \in 1 .. Len(L), SOFR(L[s]), s < Place(f, d, i),
           HitBehindStart(f) => s <= Before(hit) + 1 \/ s > Before(hit) + 3 * Size(hit)
    PROVE  s + 3 * Length(L, s) <= Place(f, d, i)
<1> DEFINE p == Place(f, d, i)
           n == Length(L, s)
           N == Len(AllBytes)
           W == WrongStart(f, d)
           R == Reach(f, d)
           b == Before(i)
<1>1. /\ f \in Int /\ f >= 1 /\ d \in Int /\ d >= -1
      /\ Len(L) \in Nat /\ Len(L) = N - d /\ N \in Nat
      /\ d # 0 => f <= N
  BY HitAround DEF Came
<1>2. i \in 1 .. NF /\ i # hit /\ ~(W < p /\ p < W + R)
  BY DEF Safe, Doomed
<1>3. p \in Int /\ n \in {4, 16} /\ b \in Nat /\ s \in Int /\ 1 <= s /\ s <= Len(L) /\ s < p
  <2>1. p \in Int
    BY <1>2, PlaceKept
  <2> QED
    BY <1>1, <1>2, <2>1, Numbers, Lengths
<1>4. p = IF b + 1 < f THEN b + 1 ELSE (b + 1) - d
  BY DEF Place
<1>5. W = s /\ R \in Int /\ R >= 3 * n => s + 3 * n <= p
  <2> HIDE DEF p, n, W, R
  <2> QED
    BY <1>2, <1>3
<1>6. CASE s = f /\ d <= 0
  <2>1. W = f
    BY <1>1, <1>6 DEF WrongStart
  <2>2. ~HitBehindStart(f)
    <3>1. SUFFICES ASSUME HitBehindStart(f)
                   PROVE  FALSE
      OBVIOUS
    <3>2. hit \in 1 .. NF /\ f <= Before(hit) + 3 * Size(hit) /\ Before(hit) + 1 < f
      BY <3>1, HitAround DEF HitBehindStart
    <3>3. Before(hit) \in Nat /\ Size(hit) \in {4, 16}
      BY <3>2, Numbers
    <3> QED
      BY <1>1, <1>6, <3>1, <3>2, <3>3
  <2>3. R = 48
    BY <1>1, <1>6, <2>2 DEF Reach
  <2>4. W = s /\ R \in Int /\ R >= 3 * n
    <3> HIDE DEF R, n, p, W
    <3> QED
      BY <1>3, <1>6, <2>1, <2>3
  <2> QED
    BY <1>5, <2>4
<1>7. CASE ~(s = f /\ d <= 0)
  <2> DEFINE g == Org(f, d, s)
  <2>1. g = (IF s < f THEN s ELSE s + d) /\ L[s] = AllBytes[g]
    <3>1. s # f \/ d > 0
      BY <1>1, <1>7
    <3> QED
      BY <3>1 DEF Org, Came
  <2> HIDE DEF g
  <2>2. g \in 1 .. N
    <3>1. g = IF s < f THEN s ELSE s + d
      BY <2>1
    <3> HIDE DEF N, n, p
    <3> QED
      BY <1>1, <1>3, <1>7, <3>1
  <2>3. PICK h \in 1 .. NF : g = Before(h) + 1 /\ Kind(h) = COMMAND(AllBytes[g])
    BY <2>1, <2>2, StartOfFrame
  <2> DEFINE B == Before(h)
             z == Size(h)
  <2>4. z = n /\ B \in Nat /\ g = B + 1 /\ h \in Int /\ i \in Int
    <3>1. z = n
      BY <2>1, <2>3, Lengths
    <3> QED
      BY <1>2, <2>3, <3>1, Numbers
  <2>5. ASSUME d >= 0, f <= N, h # hit
        PROVE  B + 3 * z < f \/ (B >= f /\ B + 1 >= f + d)
    BY <2>5, Aside
  <2>6. ASSUME d >= 0, f <= N
        PROVE  b + 1 < f \/ (b >= f /\ b + 1 >= f + d)
    <3>1. b + 3 * Size(i) < f \/ (b >= f /\ b + 1 >= f + d)
      BY <1>2, <2>6, Aside
    <3>2. Size(i) \in {4, 16}
      BY <1>2, Numbers
    <3> QED
      BY <1>1, <1>3, <3>1, <3>2
  \* The frame that is cut short.
  <2>7. CASE d > 0 /\ h = hit
    <3>1. B < f /\ W = B + 1
      BY <1>1, <2>7, HitAround DEF WrongStart
    <3>2. s = W
      BY <1>1, <1>3, <2>1, <2>4, <2>7, <3>1
    <3>3. R = 3 * n
      BY <1>1, <2>4, <2>7 DEF Reach
    <3>4. W = s /\ R \in Int /\ R >= 3 * n
      <4> HIDE DEF R, n, p, W
      <4> QED
        BY <1>3, <3>2, <3>3
    <3> QED
      BY <1>5, <3>4
  <2>8. CASE ~(d > 0 /\ h = hit)
    <3>1. h # i
      <4>1. SUFFICES ASSUME h = i
                     PROVE  FALSE
        OBVIOUS
      <4>2. B = b
        BY <4>1
      <4> HIDE DEF p, n, N, W, b, B, z
      <4> QED
        BY <1>1, <1>3, <1>4, <1>7, <2>1, <2>4, <4>2
    <3>2. ~(i < h)
      <4>1. SUFFICES ASSUME i < h
                     PROVE  FALSE
        OBVIOUS
      <4>2. b < B
        BY <1>2, <2>3, <4>1, BeforeGrows
      <4> HIDE DEF p, n, N, W, b, B, z
      <4> QED
        BY <1>1, <1>3, <1>4, <1>7, <2>1, <2>4, <4>2
    <3>3. B + 3 * z <= b
      BY <1>2, <2>3, <2>4, <3>1, <3>2, FramesApart
    <3> HIDE DEF p, n, N, W, b, B, z
    <3> SUFFICES s + 3 * n <= p
      BY DEF p, n
    <3>4. CASE d <= 0
      BY <1>1, <1>3, <1>4, <1>7, <2>1, <2>4, <3>3, <3>4
    <3>5. CASE d > 0
      <4>1. (B + 3 * z < f \/ B + 1 >= f + d) /\ (b + 1 < f \/ b + 1 >= f + d)
        BY <1>1, <2>5, <2>6, <2>8, <3>5
      <4>2. z \in {4, 16} /\ (s = IF s < f THEN B + 1 ELSE (B + 1) - d)
        BY <1>1, <1>3, <2>1, <2>4
      <4>3. CASE s < f
        <5>1. B + 3 * z < f
          BY <1>1, <2>4, <3>5, <4>1, <4>2, <4>3
        <5>2. p >= f \/ p = b + 1
          BY <1>1, <1>3, <1>4, <3>5, <4>1
        <5> QED
          BY <1>1, <1>3, <2>4, <3>3, <4>2, <4>3, <5>1, <5>2
      <4>4. CASE ~(s < f)
        <5>1. B + 1 >= f + d /\ b + 1 >= f
          BY <1>1, <1>3, <2>4, <3>3, <3>5, <4>2, <4>4
        <5>2. p = (b + 1) - d
          BY <1>1, <1>3, <1>4, <5>1
        <5> QED
          BY <1>1, <1>3, <2>4, <3>3, <4>2, <4>4, <5>2
      <4> QED
        BY <4>3, <4>4
    <3> QED
      BY <1>1, <3>4, <3>5
  <2> QED
    BY <2>7, <2>8
<1> QED
  BY <1>6, <1>7

\* A frame is at least 12 bytes.
LEMMA Spread ==
    ASSUME NEW i \in 1 .. NF, NEW j \in 1 .. NF, i <= j
    PROVE  Before(i) + 12 * (j - i) <= Before(j)
<1> DEFINE Right == {n \in Nat : i + n \in 1 .. NF => Before(i) + 12 * n <= Before(i + n)}
<1>1. NF \in Nat /\ i \in Nat /\ j \in Nat /\ Before(i) \in Nat
  BY Numbers
<1>2. 0 \in Right
  BY <1>1
<1>3. ASSUME NEW n \in Nat, n \in Right
      PROVE  n + 1 \in Right
  <2>1. SUFFICES ASSUME i + (n + 1) \in 1 .. NF
                 PROVE  Before(i) + 12 * (n + 1) <= Before(i + (n + 1))
    OBVIOUS
  <2>2. i + n \in 1 .. NF /\ i + n # NF /\ i + (n + 1) = (i + n) + 1
    BY <1>1, <2>1
  <2>3. Before(i) + 12 * n <= Before(i + n)
    BY <1>3, <2>2
  <2>4. Before((i + n) + 1) = Before(i + n) + 3 * Size(i + n) /\ Size(i + n) \in {4, 16} /\ Before(i + n) \in Nat
    BY <2>2, Numbers
  <2> QED
    BY <1>1, <2>2, <2>3, <2>4
<1> HIDE DEF Right
<1>4. j - i \in Nat /\ i + (j - i) = j
  BY <1>1
<1>5. j - i \in Right
  BY <1>2, <1>3, <1>4, Induction
<1> QED
  BY <1>4, <1>5 DEF Right

\* Of numbers there is a least.
LEMMA Least ==
    ASSUME NEW S \in SUBSET Nat, S # {}
    PROVE  \E m \in S : \A k \in S : m <= k
<1> DEFINE Right == {n \in Nat : \A k \in S : n <= k}
<1>1. SUFFICES ASSUME \A m \in S : \E k \in S : ~(m <= k)
               PROVE  FALSE
  OBVIOUS
<1>2. 0 \in Right
  OBVIOUS
<1>3. ASSUME NEW n \in Nat, n \in Right
      PROVE  n + 1 \in Right
  <2>1. n \notin S
    BY <1>1, <1>3
  <2>2. \A k \in S : n <= k /\ k # n /\ k \in Nat
    BY <1>3, <2>1
  <2> QED
    BY <2>2
<1> HIDE DEF Right
<1>4. Nat \subseteq Right
  BY <1>2, <1>3, Induction
<1>5. PICK k \in S : TRUE
  OBVIOUS
<1>6. k + 1 \in Right /\ k \in Nat
  BY <1>4, <1>5
<1>7. k + 1 <= k
  BY <1>5, <1>6 DEF Right
<1> QED
  BY <1>6, <1>7

\* At most four frames begin within 47 bytes, and if an answer is damaged, at most
\* three others within those behind its start.
LEMMA DoomedFew ==
    ASSUME NEW L, NEW f, NEW d, Came(L, f, d), HitBy(f, d)
    PROVE  /\ IsFiniteSet(Doomed(f, d)) /\ Cardinality(Doomed(f, d)) <= 4
           /\ hit # 0 /\ Kind(hit) => Cardinality(Doomed(f, d)) <= 3
<1> DEFINE D == Doomed(f, d)
           W == WrongStart(f, d)
           R == Reach(f, d)
           N == Len(AllBytes)
           c == IF hit # 0 /\ Kind(hit) THEN 2 ELSE 3
<1>1. /\ f \in Int /\ d \in Int /\ d >= -1 /\ N \in Nat /\ NF \in Nat
      /\ d > 0 => f <= N /\ hit \in 1 .. NF
  BY HitAround, Numbers
<1>2. D \in SUBSET Nat /\ D \subseteq 1 .. NF
  BY <1>1 DEF Doomed
<1>3. CASE D = {}
  BY <1>3, FS_EmptySet
<1>4. CASE D # {}
  <2>1. PICK m \in D : \A k \in D : m <= k
    BY <1>2, <1>4, Least
  <2>2. m \in 1 .. NF /\ m \in Int /\ m # hit /\ W < Place(f, d, m) /\ Place(f, d, m) < W + R
    BY <1>2 DEF Doomed
  <2>3. R \in Int /\ R <= 48
    <3>1. d > 0 => Size(hit) \in {4, 16}
      BY <1>1, Numbers
    <3> QED
      BY <3>1 DEF Reach
  <2>4. ASSUME NEW k \in D
        PROVE  k \in m .. m + c
    <3>1. k \in 1 .. NF /\ k \in Int /\ k # hit /\ W < Place(f, d, k) /\ Place(f, d, k) < W + R /\ m <= k
      BY <1>2, <2>1 DEF Doomed
    <3> DEFINE bm == Before(m)
               bk == Before(k)
               pm == Place(f, d, m)
               pk == Place(f, d, k)
    <3>2. bm \in Nat /\ bk \in Nat /\ bm + 12 * (k - m) <= bk
      BY <2>2, <3>1, Numbers, Spread
    <3>3. /\ pm = IF bm + 1 < f THEN bm + 1 ELSE (bm + 1) - d
          /\ pk = IF bk + 1 < f THEN bk + 1 ELSE (bk + 1) - d
      BY DEF Place
    <3>4. d > 0 => /\ W = Before(hit) + 1 /\ W \in Int
                   /\ bm < f => bm + 1 < W /\ bm + 1 < f
      <4>1. SUFFICES ASSUME d > 0
                     PROVE  /\ W = Before(hit) + 1 /\ W \in Int
                            /\ bm < f => bm + 1 < W /\ bm + 1 < f
        OBVIOUS
      <4>2. W = Before(hit) + 1 /\ Before(hit) \in Nat
        BY <1>1, <4>1, Numbers DEF WrongStart
      <4>3. ASSUME bm < f
            PROVE  bm + 1 < W /\ bm + 1 < f
        <5>1. m < hit /\ bm + 3 * Size(m) < f
          BY <1>1, <2>2, <3>2, <4>1, <4>3, Aside
        <5>2. Size(m) \in {4, 16} /\ bm + 3 * Size(m) <= Before(hit)
          BY <1>1, <2>2, <4>1, <5>1, FramesApart, Numbers
        <5> QED
          BY <1>1, <3>2, <4>2, <5>1, <5>2
      <4> QED
        BY <4>2, <4>3
    <3>5. W \in Int
      BY <1>1, <3>4 DEF WrongStart
    <3>6. c = 2 => R <= 12 \/ pm >= W + 12
      <4>1. SUFFICES ASSUME hit # 0, Kind(hit)
                     PROVE  R <= 12 \/ pm >= W + 12
        OBVIOUS
      <4>2. /\ hit \in 1 .. NF /\ Before(hit) < f /\ (d = -1 => Before(hit) + 1 < f)
            /\ Size(hit) = 4 /\ Before(hit) \in Nat /\ hit \in Int
        BY <4>1, HitAround, Numbers DEF Size, FrameLen, CRPackets
      <4>3. CASE d > 0 \/ HitBehindStart(f)
        BY <4>2, <4>3 DEF Reach
      <4>4. CASE ~(d > 0 \/ HitBehindStart(f))
        <5>1. f = Before(hit) + 1 /\ d = 0 /\ W = f
          BY <1>1, <4>1, <4>2, <4>4 DEF HitBehindStart, WrongStart
        <5>2. pm = bm + 1
          BY <3>2, <3>3, <5>1
        <5>3. bm > Before(hit)
          BY <2>2, <3>2, <4>2, <5>1, <5>2
        <5>4. ~(m < hit)
          BY <2>2, <3>2, <4>2, <5>3, BeforeGrows
        <5>5. Before(hit) + 12 <= bm
          <6>1. Before(hit) + 3 * Size(hit) <= bm
            BY <2>2, <4>2, <5>4, FramesApart
          <6> QED
            BY <3>2, <4>2, <6>1
        <5> HIDE DEF bm, pm
        <5> QED
          BY <3>2, <4>2, <5>1, <5>2, <5>5
      <4> QED
        BY <4>3, <4>4
    <3> HIDE DEF bm, bk, pm, pk, W, R
    <3>7. 12 * (k - m) <= pk - pm
      BY <1>1, <2>2, <3>1, <3>2, <3>3, <3>4 DEF pm
    <3>8. pm \in Int /\ pk \in Int
      BY <1>1, <3>2, <3>3
    <3>9. W < pm /\ pk < W + R
      BY <2>2, <3>1 DEF pm, pk
    <3>10. pk - pm < 12 * (c + 1)
      BY <2>3, <3>5, <3>6, <3>8, <3>9
    <3>11. c \in {2, 3}
      OBVIOUS
    <3> HIDE DEF c
    <3> QED
      BY <2>2, <3>1, <3>7, <3>8, <3>10, <3>11
  <2>5. c \in Int /\ IsFiniteSet(m .. m + c) /\ Cardinality(m .. m + c) = c + 1
    <3>1. c \in {2, 3}
      OBVIOUS
    <3> HIDE DEF c
    <3>2. m + c \in Int /\ ~(m > m + c) /\ (m + c) - m + 1 = c + 1
      BY <2>2, <3>1
    <3> QED
      BY <2>2, <3>1, <3>2, FS_Interval
  <2>6. D \in SUBSET (m .. m + c)
    BY <2>4
  <2>7. IsFiniteSet(D) /\ Cardinality(D) <= c + 1
    <3> HIDE DEF c
    <3> QED
      BY <2>5, <2>6, FS_Subset
  <2>8. Cardinality(D) \in Nat
    BY <2>7, FS_CardinalityType
  <2> QED
    BY <2>7, <2>8
<1> QED
  BY <1>3, <1>4

-----------------------------------------------------------------------------
(* The line as it comes, whatever the fault.                               *)

LEMMA LineCame ==
    ASSUME Init
    PROVE  \E f, d : Came(line, f, d) /\ HitBy(f, d)
<1> DEFINE N == Len(AllBytes)
<1>1. /\ N \in Nat /\ AllBytes \in Seq(Byte)
      /\ \A g \in 1 .. N : AllBytes[g] \in Byte
  BY BytesAndFrames, LenProperties, ElementOfSeq
<1>2. line \in Seq(Byte)
  BY LineType
<1> HIDE DEF N
<1>3. ASSUME NoFault
      PROVE  Came(line, N + 1, 0) /\ HitBy(N + 1, 0)
  <2>1. line = AllBytes /\ Len(line) = N - 0
    BY <1>1, <1>3 DEF NoFault, N
  <2>2. \A s \in 1 .. Len(line) : line[s] = AllBytes[Org(N + 1, 0, s)]
    <3>1. \A s \in 1 .. Len(line) : Org(N + 1, 0, s) = s
      BY <1>1, <2>1 DEF Org
    <3> QED
      BY <2>1, <3>1
  <2>3. Came(line, N + 1, 0)
    BY <1>1, <1>2, <2>1, <2>2 DEF Came, N
  <2>4. HitBy(N + 1, 0)
    <3>1. hit = 0
      BY <1>3 DEF NoFault
    <3>2. ~(N + 1 <= N)
      BY <1>1
    <3> QED
      BY <3>1, <3>2 DEF HitBy, N
  <2> QED
    BY <2>3, <2>4
<1>4. ASSUME NEW f \in 1 .. N, BitFlipped(f)
      PROVE  Came(line, f, 0) /\ HitBy(f, 0)
  <2>1. PICK k \in 0 .. 7 : line = [AllBytes EXCEPT ![f] = Xor(@, {k})]
    BY <1>4 DEF BitFlipped
  <2>2. Len(line) = N - 0 /\ \A s \in 1 .. N : s # f => line[s] = AllBytes[s]
    <3>1. line = [AllBytes EXCEPT ![f] = Xor(AllBytes[f], {k})]
      BY <2>1
    <3>2. Xor(AllBytes[f], {k}) \in Byte
      BY <1>1 DEF Xor, Byte
    <3> QED
      BY <1>1, <3>1, <3>2, ExceptSeq DEF N
  <2>3. \A s \in 1 .. Len(line) : s # f => line[s] = AllBytes[Org(f, 0, s)]
    <3>1. \A s \in 1 .. N : Org(f, 0, s) = s
      BY <1>1 DEF Org
    <3>2. Len(line) = N
      BY <1>1, <2>2
    <3> QED
      BY <2>2, <3>1, <3>2
  <2>4. HitBy(f, 0)
    <3>1. hit = FrameOf[f]
      BY <1>4 DEF BitFlipped
    <3>2. f <= N
      BY <1>1
    <3> QED
      BY <3>1, <3>2 DEF HitBy, N
  <2> QED
    BY <1>1, <1>2, <2>2, <2>3, <2>4 DEF Came, N
<1>5. ASSUME NEW f \in 1 .. N, BytesLost(f)
      PROVE  \E d : Came(line, f, d) /\ HitBy(f, d)
  <2>1. PICK d \in 1 .. MaxRun :
           /\ f + d - 1 <= N
           /\ FrameOf[f + d - 1] = FrameOf[f]
           /\ line = Cut(AllBytes, f, d)
    BY <1>5 DEF BytesLost, N
  <2>2. d \in Nat /\ d >= 1 /\ d \in Int /\ d > 0 /\ d >= -1
    BY FramingAssumption
  <2> DEFINE a == SubSeq(AllBytes, 1, f - 1)
             b == SubSeq(AllBytes, f + d, N)
  <2>3. line = a \o b
    BY <2>1 DEF Cut, N
  <2>4. /\ a \in Seq(Byte)
        /\ Len(a) = IF 1 <= f - 1 THEN f - 1 - 1 + 1 ELSE 0
        /\ \A q \in 1 .. f - 1 - 1 + 1 : a[q] = AllBytes[1 + q - 1]
    <3>1. 1 \in Int /\ f - 1 \in Int /\ \A q \in 1 .. f - 1 : AllBytes[q] \in Byte
      BY <1>1
    <3> QED
      BY <3>1, SubSeqProperties
  <2>5. /\ b \in Seq(Byte)
        /\ Len(b) = IF f + d <= N THEN N - (f + d) + 1 ELSE 0
        /\ \A q \in 1 .. N - (f + d) + 1 : b[q] = AllBytes[f + d + q - 1]
    <3>1. f + d \in Int /\ N \in Int /\ \A q \in f + d .. N : AllBytes[q] \in Byte
      BY <1>1, <2>2
    <3> QED
      BY <3>1, SubSeqProperties
  <2> HIDE DEF a, b
  <2>6. Len(a) = f - 1 /\ Len(b) = N - (f + d) + 1
    BY <1>1, <2>1, <2>2, <2>4, <2>5
  <2>7. /\ Len(line) = Len(a) + Len(b)
        /\ \A q \in 1 .. Len(a) + Len(b) :
              line[q] = IF q <= Len(a) THEN a[q] ELSE b[q - Len(a)]
    BY <2>3, <2>4, <2>5, ConcatProperties
  <2>8. Len(line) = N - d
    BY <1>1, <2>2, <2>6, <2>7
  <2>9. ASSUME NEW s \in 1 .. Len(line)
        PROVE  line[s] = AllBytes[Org(f, d, s)]
    <3>1. CASE s < f
      <4>1. s \in 1 .. Len(a) + Len(b) /\ s <= Len(a) /\ s \in 1 .. f - 1 - 1 + 1 /\ 1 + s - 1 = s
        BY <1>1, <2>2, <2>6, <2>8, <3>1
      <4>2. line[s] = AllBytes[s]
        BY <2>4, <2>7, <4>1
      <4> QED
        BY <3>1, <4>2 DEF Org
    <3>2. CASE ~(s < f)
      <4> DEFINE q == s - Len(a)
      <4>1. /\ s \in 1 .. Len(a) + Len(b) /\ ~(s <= Len(a))
            /\ q \in 1 .. N - (f + d) + 1 /\ f + d + q - 1 = s + d
        BY <1>1, <2>2, <2>6, <2>8, <3>2
      <4>2. line[s] = b[q]
        BY <2>7, <4>1
      <4> HIDE DEF q
      <4>3. b[q] = AllBytes[s + d]
        BY <2>5, <4>1
      <4> QED
        BY <3>2, <4>2, <4>3 DEF Org
    <3> QED
      BY <3>1, <3>2
  <2>10. Came(line, f, d)
    BY <1>1, <1>2, <2>1, <2>2, <2>8, <2>9 DEF Came, N
  <2>11. HitBy(f, d)
    <3>1. hit = FrameOf[f]
      BY <1>5 DEF BytesLost
    <3>2. f <= N /\ d >= 0 /\ d # -1
      BY <1>1, <2>2
    <3> QED
      BY <3>1, <3>2 DEF HitBy, N
  <2> QED
    BY <2>10, <2>11
<1>6. ASSUME NEW f \in 1 .. N, NoiseRead(f)
      PROVE  Came(line, f, -1) /\ HitBy(f, -1)
  <2>1. PICK x \in Noise : line = SubSeq(AllBytes, 1, f - 1) \o <<x>> \o SubSeq(AllBytes, f, N)
    BY <1>6 DEF NoiseRead, N
  <2> DEFINE a == SubSeq(AllBytes, 1, f - 1)
             b == SubSeq(AllBytes, f, N)
             ax == a \o <<x>>
  <2>3. line = ax \o b
    BY <2>1
  <2>4. /\ a \in Seq(Byte)
        /\ Len(a) = IF 1 <= f - 1 THEN f - 1 - 1 + 1 ELSE 0
        /\ \A q \in 1 .. f - 1 - 1 + 1 : a[q] = AllBytes[1 + q - 1]
    <3>1. 1 \in Int /\ f - 1 \in Int /\ \A q \in 1 .. f - 1 : AllBytes[q] \in Byte
      BY <1>1
    <3> QED
      BY <3>1, SubSeqProperties
  <2>5. /\ b \in Seq(Byte)
        /\ Len(b) = IF f <= N THEN N - f + 1 ELSE 0
        /\ \A q \in 1 .. N - f + 1 : b[q] = AllBytes[f + q - 1]
    <3>1. f \in Int /\ N \in Int /\ \A q \in f .. N : AllBytes[q] \in Byte
      BY <1>1
    <3> QED
      BY <3>1, SubSeqProperties
  <2> HIDE DEF a, b
  <2>6. Len(a) = f - 1 /\ Len(b) = N - f + 1
    BY <1>1, <2>4, <2>5
  <2>7. <<x>> \in Seq(Byte) /\ Len(<<x>>) = 1
    BY FramingAssumption
  <2>8. /\ ax \in Seq(Byte) /\ Len(ax) = f
        /\ \A q \in 1 .. f - 1 : ax[q] = a[q]
    <3>1. /\ ax \in Seq(Byte)
          /\ Len(ax) = Len(a) + Len(<<x>>)
          /\ \A q \in 1 .. Len(a) + Len(<<x>>) :
                ax[q] = IF q <= Len(a) THEN a[q] ELSE <<x>>[q - Len(a)]
      BY <2>4, <2>7, ConcatProperties
    <3>2. Len(a) + Len(<<x>>) = f /\ \A q \in 1 .. f - 1 : q \in 1 .. f /\ q <= Len(a)
      BY <2>6, <2>7
    <3> HIDE DEF ax
    <3> QED
      BY <3>1, <3>2
  <2> HIDE DEF ax
  <2>9. /\ Len(line) = Len(ax) + Len(b)
        /\ \A q \in 1 .. Len(ax) + Len(b) :
              line[q] = IF q <= Len(ax) THEN ax[q] ELSE b[q - Len(ax)]
    BY <2>3, <2>5, <2>8, ConcatProperties
  <2>10. Len(line) = N - -1
    BY <1>1, <2>6, <2>8, <2>9
  <2>11. ASSUME NEW s \in 1 .. Len(line), s # f
         PROVE  line[s] = AllBytes[Org(f, -1, s)]
    <3>1. CASE s < f
      <4>1. s \in 1 .. Len(ax) + Len(b) /\ s <= Len(ax) /\ s \in 1 .. f - 1 /\ s \in 1 .. f - 1 - 1 + 1 /\ 1 + s - 1 = s
        BY <1>1, <2>6, <2>8, <2>9, <3>1
      <4>2. line[s] = ax[s] /\ ax[s] = a[s] /\ a[s] = AllBytes[s]
        BY <2>4, <2>8, <2>9, <4>1
      <4> QED
        BY <3>1, <4>2 DEF Org
    <3>2. CASE ~(s < f)
      <4> DEFINE q == s - Len(ax)
      <4>1. /\ s \in 1 .. Len(ax) + Len(b) /\ ~(s <= Len(ax))
            /\ q \in 1 .. N - f + 1 /\ f + q - 1 = s + -1
        BY <1>1, <2>6, <2>8, <2>9, <2>11, <3>2
      <4>2. line[s] = b[q]
        BY <2>9, <4>1
      <4> HIDE DEF q
      <4>3. b[q] = AllBytes[s + -1]
        BY <2>5, <4>1
      <4> QED
        BY <3>2, <4>2, <4>3 DEF Org
    <3> QED
      BY <3>1, <3>2
  <2>12. HitBy(f, -1)
    <3>1. hit = IF f > 1 /\ FrameOf[f - 1] = FrameOf[f] THEN FrameOf[f] ELSE 0
      BY <1>6 DEF NoiseRead
    <3>2. f <= N /\ ~(-1 >= 0)
      BY <1>1
    <3> QED
      BY <3>1, <3>2 DEF HitBy, N
  <2> QED
    BY <1>1, <1>2, <2>10, <2>11, <2>12 DEF Came, N
<1> QED
  BY <1>3, <1>4, <1>5, <1>6 DEF Init, N

-----------------------------------------------------------------------------
(* The reader on that line.                                                *)

\* How many bytes of L are behind it, those of the frame it is in apart.
Done(L) == (Len(L) - Len(line)) - (IF mode = "hunt" THEN 0 ELSE Len(rdbuf))

\* The newest frame is from before those to come.
NewestFrom(L, f, d) ==
    FL!Newest # 0 =>
        \E s \in Int : Org(f, d, s) = Before(FL!Newest) + 1 /\ s + 1 <= Done(L)

\* The line, and what has been read of the next frame, are pieces of L.
InPlace(L) ==
    /\ Done(L) \in Nat
    /\ \A j \in 1 .. Len(line) : line[j] = L[(Len(L) - Len(line)) + j]
    /\ mode # "hunt" =>
          /\ \A j \in 1 .. Len(rdbuf) : rdbuf[j] = L[Done(L) + j]
          /\ SOFR(rdbuf[1])

\* The checks a frame has passed in each mode.
Passed ==
    /\ mode \in {"decode", "check"} => EndIsRight(rdbuf)
    /\ mode = "check" =>
          \A i \in 1 .. FrameLen(Cmd) :
             /\ GoodWord(i)
             /\ slot[Cmd][i] = UnpackWord(Chunk(i)[1], Chunk(i)[2], Chunk(i)[3])

ReaderInv(L, f, d) ==
    /\ FramingInv
    /\ AsSent
    /\ Came(L, f, d)
    /\ InPlace(L)
    /\ Passed
    /\ \A k \in 1 .. Len(delivered) : delivered[k] # 0
    /\ FramesDiffer => NewestFrom(L, f, d)

LEMMA InitReader ==
    ASSUME Init
    PROVE  \E f, d : ReaderInv(line, f, d) /\ HitBy(f, d)
<1>1. PICK f, d : Came(line, f, d) /\ HitBy(f, d)
  BY LineCame
<1>2. FramingInv /\ AsSent /\ mode = "hunt" /\ delivered = << >> /\ line \in Seq(Byte)
  BY InitFraming, LineType DEF Init, AsSent
<1>3. Done(line) = 0 /\ Len(line) - Len(line) = 0 /\ Len(line) \in Nat
  BY <1>2, LenProperties DEF Done
<1>4. \A j \in 1 .. Len(line) : 0 + j = j
  BY <1>3
<1>5. InPlace(line)
  BY <1>2, <1>3, <1>4 DEF InPlace
<1>6. Passed
  BY <1>2 DEF Passed
<1>7. Len(delivered) = 0 /\ FL!Newest = 0
  BY <1>2 DEF FL!Newest
<1>8. ReaderInv(line, f, d)
  BY <1>1, <1>2, <1>5, <1>6, <1>7 DEF ReaderInv, NewestFrom
<1> QED
  BY <1>1, <1>8

\* The newest frame stays where it was, as long as nothing is handed on.
LEMMA NewestStays ==
    ASSUME NEW L, NEW f, NEW d, ReaderInv(L, f, d), UNCHANGED delivered,
           Done(L)' \in Int, Done(L) <= Done(L)'
    PROVE  /\ \A k \in 1 .. Len(delivered') : delivered'[k] # 0
           /\ FramesDiffer => NewestFrom(L, f, d)'
<1>1. FL!Newest' = FL!Newest
  BY DEF FL!Newest
<1>2. Done(L) \in Nat
  BY DEF ReaderInv, InPlace
<1>3. ASSUME FramesDiffer, FL!Newest # 0
      PROVE  \E s \in Int : Org(f, d, s) = Before(FL!Newest) + 1 /\ s + 1 <= Done(L)'
  <2>1. PICK s \in Int : Org(f, d, s) = Before(FL!Newest) + 1 /\ s + 1 <= Done(L)
    BY <1>3 DEF ReaderInv, NewestFrom
  <2>2. s + 1 <= Done(L)'
    BY <1>2, <2>1
  <2> QED
    BY <2>1, <2>2
<1>4. \A k \in 1 .. Len(delivered') : delivered'[k] # 0
  BY DEF ReaderInv
<1>5. FramesDiffer => NewestFrom(L, f, d)'
  BY <1>1, <1>3 DEF NewestFrom
<1> QED
  BY <1>4, <1>5

LEMMA HuntReader ==
    ASSUME NEW L, NEW f, NEW d, ReaderInv(L, f, d), Hunt
    PROVE  ReaderInv(L, f, d)'
<1>1. FramingInv' /\ UNCHANGED <<sent, delivered>> /\ mode = "hunt"
  BY HuntKeeps DEF ReaderInv, Hunt
<1>2. line \in Seq(Byte) /\ line # << >> /\ line' = Tail(line)
  BY DEF Hunt, ReaderInv, FramingInv, TypeOK
<1>3. /\ Len(line) \in Nat /\ Len(line) >= 1 /\ Len(line') = Len(line) - 1
      /\ Head(line) = line[1]
      /\ \A j \in 1 .. Len(line') : line'[j] = line[j + 1]
  <2>1. /\ Len(line) \in Nat /\ Len(line) # 0
    BY <1>2, LenProperties, EmptySeq
  <2>2. /\ Len(line') = Len(line) - 1
        /\ \A j \in 1 .. Len(line') : line'[j] = line[j + 1]
        /\ Head(line) = line[1]
    BY <1>2, HeadTailProperties
  <2> QED
    BY <2>1, <2>2
<1>4. /\ Done(L) \in Nat /\ Done(L) = Len(L) - Len(line)
      /\ \A j \in 1 .. Len(line) : line[j] = L[(Len(L) - Len(line)) + j]
  BY <1>1 DEF ReaderInv, InPlace, Done
<1>5. Len(L) \in Nat
  BY LenProperties DEF ReaderInv, Came
<1> DEFINE r == Len(L) - Len(line)
<1>6. r \in Nat /\ Len(L) - Len(line') = r + 1
  BY <1>3, <1>4, <1>5
<1>7. \A j \in 1 .. Len(line') : line'[j] = L[(Len(L) - Len(line')) + j]
  <2> SUFFICES ASSUME NEW j \in 1 .. Len(line')
               PROVE  line'[j] = L[(Len(L) - Len(line')) + j]
    OBVIOUS
  <2>1. j + 1 \in 1 .. Len(line) /\ (Len(L) - Len(line')) + j = (Len(L) - Len(line)) + (j + 1)
    BY <1>3, <1>5
  <2>2. line[j + 1] = L[(Len(L) - Len(line)) + (j + 1)]
    BY <1>4, <2>1
  <2> QED
    BY <1>3, <2>1, <2>2
<1>8. CASE SOFR(Head(line))
  <2>1. mode' = "read" /\ rdbuf' = <<Head(line)>>
    BY <1>8 DEF Hunt
  <2>2. Len(rdbuf') = 1 /\ rdbuf'[1] = Head(line)
    BY <2>1
  <2>3. Done(L)' = r
    <3>1. Done(L)' = (Len(L) - Len(line')) - 1
      BY <2>1, <2>2 DEF Done
    <3> QED
      BY <1>6, <3>1
  <2>4. \A j \in 1 .. Len(rdbuf') : rdbuf'[j] = L[Done(L)' + j]
    <3>1. line[1] = L[r + 1]
      BY <1>3, <1>4
    <3>2. rdbuf'[1] = L[Done(L)' + 1]
      BY <1>3, <2>2, <2>3, <3>1
    <3> QED
      BY <2>2, <3>2
  <2>5. InPlace(L)'
    BY <1>6, <1>7, <1>8, <2>2, <2>3, <2>4 DEF InPlace
  <2>6. Passed'
    BY <2>1 DEF Passed
  <2>7. Done(L)' \in Int /\ Done(L) <= Done(L)'
    BY <1>4, <1>6, <2>3
  <2> QED
    BY <1>1, <2>5, <2>6, <2>7, NewestStays DEF ReaderInv, AsSent
<1>9. CASE ~SOFR(Head(line))
  <2>1. mode' = "hunt"
    BY <1>1, <1>9 DEF Hunt
  <2>2. Done(L)' = r + 1
    <3>1. Done(L)' = (Len(L) - Len(line')) - 0
      BY <2>1 DEF Done
    <3> QED
      BY <1>6, <3>1
  <2>3. InPlace(L)'
    BY <1>6, <1>7, <2>1, <2>2 DEF InPlace
  <2>4. Passed'
    BY <2>1 DEF Passed
  <2>5. Done(L)' \in Int /\ Done(L) <= Done(L)'
    BY <1>4, <1>6, <2>2
  <2> QED
    BY <1>1, <2>3, <2>4, <2>5, NewestStays DEF ReaderInv, AsSent
<1> QED
  BY <1>8, <1>9

\* What a read() adds to the frame lies behind it on the line.
LEMMA ReadOn ==
    ASSUME NEW L, NEW f, NEW d, ReaderInv(L, f, d), ReadRest
    PROVE  /\ Len(L) - Len(line') = Done(L) + Len(rdbuf')
           /\ Len(rdbuf') \in Nat /\ Len(rdbuf) <= Len(rdbuf') /\ Len(rdbuf') <= Blen
           /\ \A j \in 1 .. Len(line') : line'[j] = L[(Len(L) - Len(line')) + j]
           /\ \A j \in 1 .. Len(rdbuf') : rdbuf'[j] = L[Done(L) + j]
           /\ rdbuf'[1] = rdbuf[1]
           /\ mode' = IF Len(rdbuf') < Blen THEN "read" ELSE IF EndIsRight(rdbuf') THEN "decode" ELSE "hunt"
<1>1. FramingInv' /\ UNCHANGED <<sent, delivered, slot>> /\ mode = "read"
  BY ReadRestKeeps DEF ReaderInv, ReadRest
<1>2. /\ line \in Seq(Byte) /\ Len(line) \in Nat
      /\ rdbuf \in Seq(Byte) /\ Len(rdbuf) \in Nat /\ Len(rdbuf) > 0 /\ Len(rdbuf) < Blen
      /\ Len(L) \in Nat /\ Blen \in Nat
  <2>1. line \in Seq(Byte) /\ rdbuf \in Seq(Byte) /\ Len(rdbuf) > 0 /\ Len(rdbuf) < Blen /\ L \in Seq(Byte)
    BY <1>1 DEF ReaderInv, FramingInv, TypeOK, Kept, Came
  <2>2. Blen \in Nat
    BY FrameLens
  <2> QED
    BY <2>1, <2>2, LenProperties
<1> DEFINE n(size) == IF size > Need THEN Need ELSE size
           newrd(size) == IF n(size) > Len(line) THEN Len(line) ELSE n(size)
           got(size) == rdbuf \o SubSeq(line, 1, newrd(size))
<1>3. PICK size \in ReadSizes :
         /\ rdbuf' = got(size)
         /\ line' = SubSeq(line, newrd(size) + 1, Len(line))
         /\ mode' = IF Len(got(size)) < Blen THEN "read"
                    ELSE IF EndIsRight(got(size)) THEN "decode" ELSE "hunt"
  BY Zenon DEF ReadRest
<1> DEFINE k == newrd(size)
<1>4. k \in Nat /\ k <= Len(line) /\ Len(rdbuf) + k <= Blen
  <2>1. size \in Nat /\ Need = Blen - Len(rdbuf)
    BY FramingAssumption DEF Need
  <2> QED
    BY <1>2, <2>1
<1> DEFINE more == SubSeq(line, 1, k)
           rest == SubSeq(line, k + 1, Len(line))
<1> HIDE DEF n, newrd, k
<1>5. \A j \in 1 .. Len(line) : line[j] \in Byte
  BY <1>2, ElementOfSeq
<1>6. /\ more \in Seq(Byte) /\ Len(more) = k
      /\ \A j \in 1 .. k : more[j] = line[j]
  <2>1. 1 \in Int /\ k \in Int /\ \A j \in 1 .. k : line[j] \in Byte
    BY <1>2, <1>4, <1>5
  <2>2. /\ more \in Seq(Byte)
        /\ Len(more) = IF 1 <= k THEN k - 1 + 1 ELSE 0
        /\ \A j \in 1 .. k - 1 + 1 : more[j] = line[1 + j - 1]
    BY <2>1, SubSeqProperties
  <2> HIDE DEF more
  <2>3. \A j \in 1 .. k : j \in 1 .. k - 1 + 1 /\ 1 + j - 1 = j
    BY <1>4
  <2>4. Len(more) = k
    BY <1>4, <2>2
  <2> QED
    BY <2>2, <2>3, <2>4
<1>7. /\ rest \in Seq(Byte) /\ Len(rest) = Len(line) - k
      /\ \A j \in 1 .. Len(line) - k : rest[j] = line[k + j]
  <2>1. k + 1 \in Int /\ Len(line) \in Int /\ \A j \in k + 1 .. Len(line) : line[j] \in Byte
    BY <1>2, <1>4, <1>5
  <2>2. /\ rest \in Seq(Byte)
        /\ Len(rest) = IF k + 1 <= Len(line) THEN Len(line) - (k + 1) + 1 ELSE 0
        /\ \A j \in 1 .. Len(line) - (k + 1) + 1 : rest[j] = line[k + 1 + j - 1]
    BY <2>1, SubSeqProperties
  <2> HIDE DEF rest
  <2>3. \A j \in 1 .. Len(line) - k : j \in 1 .. Len(line) - (k + 1) + 1 /\ k + 1 + j - 1 = k + j
    BY <1>2, <1>4
  <2>4. Len(rest) = Len(line) - k
    BY <1>2, <1>4, <2>2
  <2> QED
    BY <2>2, <2>3, <2>4
<1>8. line' = rest /\ rdbuf' = rdbuf \o more
  BY <1>3 DEF k, more, rest
<1> HIDE DEF more, rest
<1>9. /\ Len(rdbuf') = Len(rdbuf) + k
      /\ \A j \in 1 .. Len(rdbuf) + k :
            rdbuf'[j] = IF j <= Len(rdbuf) THEN rdbuf[j] ELSE more[j - Len(rdbuf)]
  <2> DEFINE old == rdbuf
             new == old \o more
  <2>1. old \in Seq(Byte) /\ more \in Seq(Byte) /\ Len(more) = k
    BY <1>2, <1>6
  <2> HIDE DEF old
  <2>2. /\ Len(new) = Len(old) + Len(more)
        /\ \A j \in 1 .. Len(old) + Len(more) :
              new[j] = IF j <= Len(old) THEN old[j] ELSE more[j - Len(old)]
    BY <2>1, ConcatProperties
  <2>3. rdbuf' = new
    BY <1>8 DEF old
  <2> HIDE DEF new
  <2> QED
    BY <2>1, <2>2, <2>3 DEF old
<1>10. /\ Done(L) \in Nat /\ Done(L) = (Len(L) - Len(line)) - Len(rdbuf)
       /\ \A j \in 1 .. Len(line) : line[j] = L[(Len(L) - Len(line)) + j]
       /\ \A j \in 1 .. Len(rdbuf) : rdbuf[j] = L[Done(L) + j]
       /\ SOFR(rdbuf[1])
  BY <1>1 DEF ReaderInv, InPlace, Done
<1> DEFINE r == Len(L) - Len(line)
<1>11. r \in Int /\ r = Done(L) + Len(rdbuf) /\ Len(L) - Len(line') = r + k
  <2>1. Len(line') = Len(line) - k
    BY <1>7, <1>8
  <2>2. Len(L) \in Nat /\ Len(line) \in Nat /\ k \in Nat /\ Len(rdbuf) \in Nat
    BY <1>2, <1>4
  <2>3. Done(L) = (Len(L) - Len(line)) - Len(rdbuf)
    BY <1>10
  <2> QED
    BY <2>1, <2>2, <2>3
<1>12. \A j \in 1 .. Len(line') : line'[j] = L[(Len(L) - Len(line')) + j]
  <2> SUFFICES ASSUME NEW j \in 1 .. Len(line')
               PROVE  line'[j] = L[(Len(L) - Len(line')) + j]
    OBVIOUS
  <2>1. /\ j \in 1 .. Len(line) - k /\ k + j \in 1 .. Len(line)
        /\ (Len(L) - Len(line')) + j = (Len(L) - Len(line)) + (k + j)
    <3> DEFINE all == Len(L)
               left == Len(line)
               left1 == Len(line')
    <3>1. all \in Nat /\ left \in Nat /\ k \in Nat /\ left1 = left - k /\ j \in 1 .. left1
      BY <1>2, <1>4, <1>7, <1>8
    <3> HIDE DEF all, left, left1
    <3>2. j \in 1 .. left - k /\ k + j \in 1 .. left /\ (all - left1) + j = (all - left) + (k + j)
      BY <3>1
    <3> QED
      BY <3>2 DEF all, left, left1
  <2>2. line[k + j] = L[(Len(L) - Len(line)) + (k + j)]
    BY <1>10, <2>1
  <2>3. line'[j] = line[k + j]
    BY <1>7, <1>8, <2>1
  <2> QED
    BY <2>1, <2>2, <2>3
<1> HIDE DEF r
<1>13. ASSUME NEW j \in 1 .. Len(rdbuf')
       PROVE  rdbuf'[j] = L[Done(L) + j]
  <2>1. CASE j <= Len(rdbuf)
    <3>1. j \in 1 .. Len(rdbuf) /\ j \in 1 .. Len(rdbuf) + k
      BY <1>2, <1>4, <1>9, <2>1
    <3> QED
      BY <1>9, <1>10, <2>1, <3>1
  <2>2. CASE ~(j <= Len(rdbuf))
    <3> DEFINE m == j - Len(rdbuf)
    <3>1. m \in 1 .. k /\ m \in 1 .. Len(line) /\ j \in 1 .. Len(rdbuf) + k /\ r + m = Done(L) + j
      BY <1>2, <1>4, <1>9, <1>10, <1>11, <2>2
    <3>2. rdbuf'[j] = more[m]
      BY <1>9, <2>2, <3>1
    <3> HIDE DEF m
    <3>3. more[m] = line[m] /\ line[m] = L[r + m]
      BY <1>6, <1>10, <3>1 DEF r
    <3> QED
      BY <3>1, <3>2, <3>3
  <2> QED
    BY <2>1, <2>2
<1>14. rdbuf'[1] = rdbuf[1]
  <2>1. 1 \in 1 .. Len(rdbuf) + k /\ 1 <= Len(rdbuf)
    BY <1>2, <1>4
  <2> QED
    BY <1>9, <2>1
<1>15. mode' = IF Len(rdbuf') < Blen THEN "read" ELSE IF EndIsRight(rdbuf') THEN "decode" ELSE "hunt"
  BY <1>3
<1>16. Len(L) - Len(line') = Done(L) + Len(rdbuf')
  BY <1>2, <1>4, <1>9, <1>10, <1>11
<1>17. Len(rdbuf') \in Nat /\ Len(rdbuf) <= Len(rdbuf') /\ Len(rdbuf') <= Blen
  BY <1>2, <1>4, <1>9
<1> QED
  BY <1>12, <1>13, <1>14, <1>15, <1>16, <1>17

LEMMA ReadRestReader ==
    ASSUME NEW L, NEW f, NEW d, ReaderInv(L, f, d), ReadRest
    PROVE  ReaderInv(L, f, d)'
<1>1. FramingInv' /\ UNCHANGED <<sent, delivered, slot>> /\ mode = "read"
  BY ReadRestKeeps DEF ReaderInv, ReadRest
<1>2. /\ Len(L) - Len(line') = Done(L) + Len(rdbuf') /\ Len(rdbuf') \in Nat
      /\ \A j \in 1 .. Len(line') : line'[j] = L[(Len(L) - Len(line')) + j]
      /\ \A j \in 1 .. Len(rdbuf') : rdbuf'[j] = L[Done(L) + j]
      /\ rdbuf'[1] = rdbuf[1]
      /\ mode' = IF Len(rdbuf') < Blen THEN "read" ELSE IF EndIsRight(rdbuf') THEN "decode" ELSE "hunt"
  BY ReadOn
<1>3. Done(L) \in Nat /\ SOFR(rdbuf[1])
  BY <1>1 DEF ReaderInv, InPlace
<1>4. Passed'
  <2>1. mode' # "check" /\ (mode' = "decode" => EndIsRight(rdbuf'))
    BY <1>2
  <2> QED
    BY <2>1 DEF Passed
<1>5. CASE mode' # "hunt"
  <2>1. Done(L)' = Done(L)
    <3>1. Done(L)' = (Len(L) - Len(line')) - Len(rdbuf')
      BY <1>5 DEF Done
    <3> QED
      BY <1>2, <1>3, <3>1
  <2>2. \A j \in 1 .. Len(rdbuf') : rdbuf'[j] = L[Done(L)' + j]
    BY <1>2, <2>1
  <2>3. InPlace(L)'
    BY <1>2, <1>3, <2>1, <2>2 DEF InPlace
  <2>4. Done(L)' \in Int /\ Done(L) <= Done(L)'
    BY <1>3, <2>1
  <2> QED
    BY <1>1, <1>4, <2>3, <2>4, NewestStays DEF ReaderInv, AsSent
<1>6. CASE mode' = "hunt"
  <2>1. Done(L)' = Done(L) + Len(rdbuf')
    <3>1. Done(L)' = (Len(L) - Len(line')) - 0
      BY <1>6 DEF Done
    <3> QED
      BY <1>2, <1>3, <3>1
  <2>2. Done(L)' \in Nat /\ Done(L)' \in Int /\ Done(L) <= Done(L)'
    BY <1>2, <1>3, <2>1
  <2>3. InPlace(L)'
    BY <1>2, <1>6, <2>2 DEF InPlace
  <2> QED
    BY <1>1, <1>4, <2>2, <2>3, NewestStays DEF ReaderInv, AsSent
<1> QED
  BY <1>5, <1>6

LEMMA DecodeReader ==
    ASSUME NEW L, NEW f, NEW d, ReaderInv(L, f, d), Decode
    PROVE  ReaderInv(L, f, d)'
<1>1. /\ FramingInv' /\ UNCHANGED <<sent, line, polarity, rdbuf, delivered>>
      /\ mode = "decode" /\ mode' \in {"check", "hunt"}
  BY DecodeKeeps DEF ReaderInv, Decode
<1>2. /\ Done(L) \in Nat /\ Done(L) = (Len(L) - Len(line)) - Len(rdbuf)
      /\ \A j \in 1 .. Len(line) : line[j] = L[(Len(L) - Len(line)) + j]
      /\ \A j \in 1 .. Len(rdbuf) : rdbuf[j] = L[Done(L) + j]
      /\ SOFR(rdbuf[1])
      /\ EndIsRight(rdbuf)
  BY <1>1 DEF ReaderInv, InPlace, Done, Passed
<1>3. Len(L) \in Nat /\ Len(line) \in Nat /\ Len(rdbuf) \in Nat
  BY LenProperties DEF ReaderInv, Came, FramingInv, TypeOK
<1>4. CASE mode' = "hunt"
  <2>1. Done(L)' = Done(L) + Len(rdbuf)
    <3>1. Done(L)' = (Len(L) - Len(line)) - 0
      BY <1>1, <1>4 DEF Done
    <3> QED
      BY <1>2, <1>3, <3>1
  <2>2. Done(L)' \in Nat /\ Done(L)' \in Int /\ Done(L) <= Done(L)'
    BY <1>2, <1>3, <2>1
  <2>3. InPlace(L)'
    BY <1>1, <1>2, <1>4, <2>2 DEF InPlace
  <2>4. Passed'
    BY <1>4 DEF Passed
  <2> QED
    BY <1>1, <2>2, <2>3, <2>4, NewestStays DEF ReaderInv, AsSent
<1>5. CASE mode' = "check"
  <2>1. Done(L)' = Done(L)
    BY <1>1, <1>5 DEF Done
  <2>2. InPlace(L)'
    BY <1>1, <1>2, <2>1 DEF InPlace
  <2> DEFINE before(i) == \A j \in 1 .. i : GoodWord(j)
             word(i) == UnpackWord(Chunk(i)[1], Chunk(i)[2], Chunk(i)[3])
             len == FrameLen(Cmd)
  <2>3. /\ slot' = [slot EXCEPT ![Cmd] = [i \in 1 .. len |-> IF before(i) THEN word(i) ELSE @[i]]]
        /\ before(len)
    <3> HIDE DEF before, word
    <3>1. mode' = IF before(len) THEN "check" ELSE "hunt"
      BY Zenon DEF Decode, before, word
    <3>2. slot' = [slot EXCEPT ![Cmd] = [i \in 1 .. len |-> IF before(i) THEN word(i) ELSE @[i]]]
      BY Zenon DEF Decode, before, word
    <3> QED
      BY <1>5, <3>1, <3>2
  <2>4. len \in 1 .. 16 /\ Cmd \in BOOLEAN
    BY FrameLens
  <2>5. \A i \in 1 .. len : before(i)
    <3>1. \A i \in 1 .. len : \A j \in 1 .. i : j \in 1 .. len
      BY <2>4
    <3> QED
      BY <2>3, <3>1
  <2>6. \A i \in 1 .. len : slot'[Cmd][i] = word(i)
    <3>1. slot = [cmd \in BOOLEAN |-> slot[cmd]]
      BY DEF ReaderInv, FramingInv, Kept
    <3> HIDE DEF before, word
    <3>2. slot'[Cmd] = [i \in 1 .. len |-> IF before(i) THEN word(i) ELSE slot[Cmd][i]]
      BY <2>3, <2>4, <3>1
    <3> QED
      BY <2>5, <3>2
  <2>7. \A i \in 1 .. len : GoodWord(i)
    BY <2>3
  <2>8. rdbuf' = rdbuf /\ Cmd' = Cmd
    BY <1>1 DEF Cmd
  <2>9. Passed'
    <3>1. EndIsRight(rdbuf')
      BY <1>2, <2>8
    <3>2. ASSUME NEW i \in 1 .. FrameLen(Cmd')
          PROVE  /\ GoodWord(i)'
                 /\ slot'[Cmd'][i] = UnpackWord(Chunk(i)'[1], Chunk(i)'[2], Chunk(i)'[3])
      <4>1. Chunk(i)' = Chunk(i) /\ i \in 1 .. len
        BY <2>8 DEF Chunk
      <4>2. GoodWord(i)'
        BY <2>7, <2>8, <4>1 DEF GoodWord, WordIsGood
      <4> QED
        BY <2>6, <2>8, <4>1, <4>2
    <3> QED
      BY <3>1, <3>2 DEF Passed, FrameLen
  <2>10. Done(L)' \in Int /\ Done(L) <= Done(L)'
    BY <1>2, <2>1
  <2> QED
    BY <1>1, <2>2, <2>9, <2>10, NewestStays DEF ReaderInv, AsSent
<1> QED
  BY <1>1, <1>4, <1>5

\* What has passed all the checks is handed on as the frame that was sent there.
HandsOn(L, f, d, n) ==
    /\ n \in 1 .. NF
    /\ delivered' = Append(delivered, n)
    /\ FramesDiffer => Org(f, d, Done(L) + 1) = Before(n) + 1

\* The words of a whole frame, as bytes of the line.
LEMMA ChunkAt ==
    ASSUME NEW L, NEW f, NEW d, ReaderInv(L, f, d), mode \in {"decode", "check"},
           NEW m \in 0 .. FrameLen(Cmd) - 1, NEW s, s = Done(L) + 1
    PROVE  /\ Chunk(m + 1)[1] = L[s + 3 * m]
           /\ Chunk(m + 1)[2] = L[s + 3 * m + 1]
           /\ Chunk(m + 1)[3] = L[s + 3 * m + 2]
<1> DEFINE n == FrameLen(Cmd)
<1>1. /\ Done(L) \in Nat
      /\ \A j \in 1 .. Len(rdbuf) : rdbuf[j] = L[Done(L) + j]
      /\ Len(rdbuf) = Blen
  BY DEF ReaderInv, InPlace, FramingInv, TypeOK
<1>2. n \in 1 .. 16 /\ Blen = 3 * n
  BY FrameLens
<1>3. m \in 0 .. n - 1
  OBVIOUS
<1> HIDE DEF n
<1>4. ASSUME NEW t \in 1 .. 3
      PROVE  Chunk(m + 1)[t] = L[Done(L) + (3 * m + t)]
  <2>1. Chunk(m + 1)[t] = rdbuf[3 * ((m + 1) - 1) + t]
    BY DEF Chunk
  <2>2. m \in Int /\ n \in Int /\ 0 <= m /\ m <= n - 1 /\ Len(rdbuf) = 3 * n
    BY <1>1, <1>2, <1>3
  <2>3. 3 * ((m + 1) - 1) + t = 3 * m + t
    BY <2>2
  <2>4. 3 * m + t \in 1 .. Len(rdbuf)
    BY <2>2
  <2> QED
    BY <1>1, <2>1, <2>3, <2>4
<1>5. /\ Chunk(m + 1)[1] = L[Done(L) + (3 * m + 1)]
      /\ Chunk(m + 1)[2] = L[Done(L) + (3 * m + 2)]
      /\ Chunk(m + 1)[3] = L[Done(L) + (3 * m + 3)]
  BY <1>4
<1>6. /\ Done(L) + (3 * m + 1) = s + 3 * m
      /\ Done(L) + (3 * m + 2) = s + 3 * m + 1
      /\ Done(L) + (3 * m + 3) = s + 3 * m + 2
  <2> DEFINE x == Done(L)
  <2>1. x \in Int /\ m \in Int /\ s = x + 1
    BY <1>1, <1>2, <1>3
  <2> HIDE DEF x
  <2>2. x + (3 * m + 1) = s + 3 * m /\ x + (3 * m + 2) = s + 3 * m + 1 /\ x + (3 * m + 3) = s + 3 * m + 2
    BY <2>1
  <2> QED
    BY <2>2 DEF x
<1> QED
  BY <1>5, <1>6

\* The frame being checked, as a window on the line.
LEMMA CheckedPasses ==
    ASSUME NEW L, NEW f, NEW d, ReaderInv(L, f, d), mode = "check"
    PROVE  /\ Passes(L, Done(L) + 1)
           /\ Cmd = COMMAND(L[Done(L) + 1])
           /\ FrameLen(Cmd) = Length(L, Done(L) + 1)
           /\ \A k \in 1 .. FrameLen(Cmd) : slot[Cmd][k] = WordAt(L, Done(L) + 1, k - 1)
           /\ Done(L) + Blen = Len(L) - Len(line)
<1> DEFINE s == Done(L) + 1
           n == FrameLen(Cmd)
<1>1. /\ Done(L) \in Nat /\ Done(L) = (Len(L) - Len(line)) - Len(rdbuf)
      /\ \A j \in 1 .. Len(rdbuf) : rdbuf[j] = L[Done(L) + j]
      /\ SOFR(rdbuf[1]) /\ EndIsRight(rdbuf)
      /\ \A i \in 1 .. n : GoodWord(i) /\ slot[Cmd][i] = UnpackWord(Chunk(i)[1], Chunk(i)[2], Chunk(i)[3])
      /\ Len(rdbuf) = Blen
  BY DEF ReaderInv, InPlace, Done, Passed, FramingInv, TypeOK
<1>2. Len(L) \in Nat /\ Len(line) \in Nat
  BY LenProperties DEF ReaderInv, Came, FramingInv, TypeOK
<1>3. n \in 1 .. 16 /\ Blen = 3 * n
  BY FrameLens
<1> HIDE DEF n
<1>4. s \in Int /\ s = Done(L) + 1
  BY <1>1
<1> HIDE DEF s
<1>5. ASSUME NEW m \in 0 .. n - 1
      PROVE  /\ Chunk(m + 1)[1] = L[s + 3 * m]
             /\ Chunk(m + 1)[2] = L[s + 3 * m + 1]
             /\ Chunk(m + 1)[3] = L[s + 3 * m + 2]
  BY <1>4, ChunkAt DEF n
<1>6. L[s] = rdbuf[1]
  <2>1. 1 \in 1 .. Len(rdbuf)
    BY <1>1, <1>3
  <2> QED
    BY <1>1, <1>4, <2>1
<1>7. Cmd = COMMAND(L[s]) /\ n = Length(L, s)
  BY <1>6 DEF Cmd, n, Length
<1>8. EOFR(L[s + 3 * (n - 1)])
  <2>1. EOFR(rdbuf[Len(rdbuf) - 2])
    BY <1>1 DEF EndIsRight
  <2> DEFINE j == Len(rdbuf) - 2
  <2>2. j \in 1 .. Len(rdbuf) /\ Done(L) + j = s + 3 * (n - 1)
    BY <1>1, <1>3, <1>4
  <2> HIDE DEF j
  <2>3. rdbuf[j] = L[Done(L) + j]
    BY <1>1, <2>2
  <2> QED
    BY <2>1, <2>2, <2>3 DEF j
<1>9. ASSUME NEW m \in 0 .. n - 1
      PROVE  /\ FIRST(L[s + 3 * m]) /\ SECOND(L[s + 3 * m + 1]) /\ THIRD(L[s + 3 * m + 2])
             /\ COMMAND(L[s + 3 * m]) = COMMAND(L[s])
             /\ slot[Cmd][m + 1] = WordAt(L, s, m)
  <2>1. m + 1 \in 1 .. n
    BY <1>3
  <2>2. GoodWord(m + 1) /\ slot[Cmd][m + 1] = UnpackWord(Chunk(m + 1)[1], Chunk(m + 1)[2], Chunk(m + 1)[3])
    BY <1>1, <2>1
  <2>3. /\ Chunk(m + 1)[1] = L[s + 3 * m]
        /\ Chunk(m + 1)[2] = L[s + 3 * m + 1]
        /\ Chunk(m + 1)[3] = L[s + 3 * m + 2]
    BY <1>5
  <2>4. WordIsGood(L[s + 3 * m], L[s + 3 * m + 1], L[s + 3 * m + 2])
    BY <2>2, <2>3 DEF GoodWord
  <2> QED
    BY <1>7, <2>2, <2>3, <2>4 DEF WordIsGood, WordAt
<1>10. s \in 1 .. Len(L) /\ s + 3 * n - 1 <= Len(L) /\ Done(L) + Blen = Len(L) - Len(line)
  <2> DEFINE x == Done(L)
             all == Len(L)
             left == Len(line)
  <2>1. x \in Nat /\ all \in Nat /\ left \in Nat /\ s = x + 1 /\ x = (all - left) - Blen
    BY <1>1, <1>2, <1>4
  <2> HIDE DEF x, all, left
  <2>2. s \in 1 .. all /\ s + 3 * n - 1 <= all /\ x + Blen = all - left
    BY <1>3, <2>1
  <2> QED
    BY <2>2 DEF x, all, left
<1>11. Passes(L, s)
  BY <1>1, <1>6, <1>7, <1>8, <1>9, <1>10 DEF Passes
<1>12. ASSUME NEW k \in 1 .. n
       PROVE  slot[Cmd][k] = WordAt(L, s, k - 1)
  <2>1. k - 1 \in 0 .. n - 1 /\ (k - 1) + 1 = k
    BY <1>3
  <2>2. slot[Cmd][(k - 1) + 1] = WordAt(L, s, k - 1)
    BY <1>9, <2>1
  <2> QED
    BY <2>1, <2>2
<1> QED
  BY <1>7, <1>10, <1>11, <1>12 DEF s, n

LEMMA DeliverHands ==
    ASSUME NEW L, NEW f, NEW d, ReaderInv(L, f, d), Deliver
    PROVE  UNCHANGED delivered \/ \E n : HandsOn(L, f, d, n)
<1>1. mode = "check"
  BY DEF Deliver
<1> DEFINE s == Done(L) + 1
           p == slot[Cmd]
           number == NumberOf(Cmd, IF Cmd THEN p ELSE Adjusted(p))
<1>2. /\ Passes(L, s) /\ Cmd = COMMAND(L[s]) /\ FrameLen(Cmd) = Length(L, s)
      /\ \A k \in 1 .. FrameLen(Cmd) : p[k] = WordAt(L, s, k - 1)
  BY <1>1, CheckedPasses
<1>3. /\ Came(L, f, d) /\ AsSent /\ polarity \in {-1, 0, 1} /\ s \in Int
      /\ p \in [1 .. FrameLen(Cmd) -> Word]
  BY FrameLens DEF ReaderInv, FramingInv, TypeOK, InPlace
<1> HIDE DEF s
<1>4. PICK i \in 1 .. NF : Org(f, d, s) = Before(i) + 1 /\ IsSent(L, s, i)
  BY <1>2, <1>3, Accepted DEF Accepts
<1>5. Cmd = Kind(i) /\ Size(i) = FrameLen(Cmd)
  BY <1>2, <1>4 DEF IsSent, Size
<1>6. CASE CrcIsRight(p)
  <2>1. delivered' = Append(delivered, number)
    BY <1>6 DEF Deliver
  <2>2. p = Sent(i)
    <3>1. CRC(Front(p)) = Last(p)
      BY <1>6 DEF CrcIsRight
    <3> HIDE DEF p
    <3> QED
      BY <1>2, <1>3, <1>4, <1>5, <3>1, CrcTellsFrame
  <2>3. number \in 1 .. NF /\ (FramesDiffer => number = i)
    <3> HIDE DEF p
    <3> QED
      BY <1>3, <1>5, <2>2, NumberFound
  <2> HIDE DEF number
  <2>4. HandsOn(L, f, d, number)
    BY <1>4, <2>1, <2>3 DEF HandsOn, s
  <2> QED
    BY <2>4
<1>7. CASE ~CrcIsRight(p)
  BY <1>7 DEF Deliver
<1> QED
  BY <1>6, <1>7

\* The one behind the newest.
LEMMA NewestLast ==
    ASSUME NEW s \in Seq(0 .. NF), delivered = s, NEW n \in 1 .. NF, delivered' = Append(s, n)
    PROVE  FL!Newest' = n /\ Len(delivered') = Len(s) + 1
           /\ \A k \in 1 .. Len(s) : delivered'[k] = s[k]
<1>1. n \in 0 .. NF
  BY Numbers
<1>2. /\ Len(Append(s, n)) = Len(s) + 1
      /\ Append(s, n)[Len(s) + 1] = n
      /\ \A k \in 1 .. Len(s) : Append(s, n)[k] = s[k]
      /\ Append(s, n) # << >>
  BY <1>1, AppendProperties
<1> QED
  BY <1>2 DEF FL!Newest

LEMMA DeliverReader ==
    ASSUME NEW L, NEW f, NEW d, ReaderInv(L, f, d), Deliver
    PROVE  ReaderInv(L, f, d)'
<1>1. /\ FramingInv' /\ UNCHANGED <<sent, line, polarity, rdbuf>>
      /\ mode = "check" /\ mode' = "hunt"
  BY DeliverKeeps DEF ReaderInv, Deliver
<1>2. /\ Done(L) \in Nat
      /\ \A j \in 1 .. Len(line) : line[j] = L[(Len(L) - Len(line)) + j]
  BY DEF ReaderInv, InPlace
<1>3. Done(L) + Blen = Len(L) - Len(line) /\ Blen \in 3 .. 48
  BY <1>1, CheckedPasses, FrameLens
<1>4. Len(L) \in Nat /\ Len(line) \in Nat
  BY LenProperties DEF ReaderInv, Came, FramingInv, TypeOK
<1>5. Done(L)' = Done(L) + Blen
  <2>1. Done(L)' = (Len(L) - Len(line)) - 0
    BY <1>1 DEF Done
  <2> QED
    BY <1>3, <1>4, <2>1
<1>6. Done(L)' \in Nat /\ Done(L)' \in Int /\ Done(L) + 2 <= Done(L)'
  BY <1>2, <1>3, <1>5
<1>7. InPlace(L)'
  BY <1>1, <1>2, <1>6 DEF InPlace
<1>8. Passed'
  BY <1>1 DEF Passed
<1>9. CASE UNCHANGED delivered
  <2>1. Done(L) <= Done(L)'
    BY <1>2, <1>6
  <2> QED
    BY <1>1, <1>6, <1>7, <1>8, <1>9, <2>1, NewestStays DEF ReaderInv, AsSent
<1>10. ASSUME NEW n, HandsOn(L, f, d, n)
       PROVE  ReaderInv(L, f, d)'
  <2>1. /\ n \in 1 .. NF /\ delivered' = Append(delivered, n)
        /\ FramesDiffer => Org(f, d, Done(L) + 1) = Before(n) + 1
    BY <1>10 DEF HandsOn
  <2>2. delivered \in Seq(0 .. NF) /\ \A k \in 1 .. Len(delivered) : delivered[k] # 0
    BY DEF ReaderInv, FramingInv, TypeOK, NF
  <2>3. /\ FL!Newest' = n /\ Len(delivered') = Len(delivered) + 1
        /\ \A k \in 1 .. Len(delivered) : delivered'[k] = delivered[k]
    BY <2>1, <2>2, NewestLast
  <2>4. delivered'[Len(delivered) + 1] = n
    BY <2>1, <2>2, AppendProperties, Numbers
  <2>5. \A k \in 1 .. Len(delivered') : delivered'[k] # 0
    <3> SUFFICES ASSUME NEW k \in 1 .. Len(delivered')
                 PROVE  delivered'[k] # 0
      OBVIOUS
    <3>1. Len(delivered) \in Nat
      BY <2>2, LenProperties
    <3>2. k \in 1 .. Len(delivered) \/ k = Len(delivered) + 1
      BY <2>3, <3>1
    <3>3. n # 0
      BY <2>1, Numbers
    <3> QED
      BY <2>2, <2>3, <2>4, <3>2, <3>3
  <2>6. FramesDiffer => NewestFrom(L, f, d)'
    <3> SUFFICES ASSUME FramesDiffer
                 PROVE  \E s \in Int : Org(f, d, s) = Before(FL!Newest') + 1 /\ s + 1 <= Done(L)'
      BY DEF NewestFrom
    <3> DEFINE s == Done(L) + 1
    <3>1. s \in Int /\ s + 1 <= Done(L)' /\ Org(f, d, s) = Before(FL!Newest') + 1
      BY <1>2, <1>6, <2>1, <2>3
    <3> HIDE DEF s
    <3> QED
      BY <3>1
  <2> QED
    BY <1>1, <1>7, <1>8, <2>5, <2>6 DEF ReaderInv, AsSent
<1> QED
  BY <1>9, <1>10, DeliverHands

LEMMA NextReader ==
    ASSUME NEW L, NEW f, NEW d, ReaderInv(L, f, d), [Next]_vars
    PROVE  ReaderInv(L, f, d)'
<1>1. CASE Hunt
  BY <1>1, HuntReader
<1>2. CASE ReadRest
  BY <1>2, ReadRestReader
<1>3. CASE Decode
  BY <1>3, DecodeReader
<1>4. CASE Deliver
  BY <1>4, DeliverReader
<1>5. CASE UNCHANGED vars
  <2>1. FramingInv'
    BY <1>5, NextFraming DEF ReaderInv
  <2>2. UNCHANGED <<sent, line, polarity, mode, rdbuf, slot, delivered>>
    BY <1>5 DEF vars
  <2>3. Done(L)' = Done(L)
    BY <2>2 DEF Done
  <2>4. Done(L) \in Nat
    BY DEF ReaderInv, InPlace
  <2>5. InPlace(L)'
    BY <2>2, <2>3 DEF ReaderInv, InPlace
  <2>6. Passed'
    BY <2>2 DEF ReaderInv, Passed, GoodWord, Chunk, WordIsGood, Cmd, FrameLen
  <2>7. Done(L)' \in Int /\ Done(L) <= Done(L)'
    BY <2>3, <2>4
  <2> QED
    BY <2>1, <2>2, <2>5, <2>6, <2>7, NewestStays DEF ReaderInv, AsSent
<1> QED
  BY <1>1, <1>2, <1>3, <1>4, <1>5 DEF Next

\* The reader stays on the line, whatever the fault.
ReaderOnLine == \E L, f, d : ReaderInv(L, f, d)

LEMMA Reading == Spec => []ReaderOnLine
<1>1. Init => ReaderOnLine
  BY InitReader DEF ReaderOnLine
<1>2. ReaderOnLine /\ [Next]_vars => ReaderOnLine'
  <2> SUFFICES ASSUME ReaderOnLine, [Next]_vars
               PROVE  ReaderOnLine'
    OBVIOUS
  <2>1. PICK L, f, d : ReaderInv(L, f, d)
    BY DEF ReaderOnLine
  <2>2. ReaderInv(L, f, d)'
    BY <2>1, NextReader
  <2> QED
    BY <2>2 DEF ReaderOnLine
<1> QED
  BY <1>1, <1>2, PTL DEF Spec

NothingMadeUp == \A k \in 1 .. Len(delivered) : delivered[k] # 0

\* Whatever is handed on was sent, whatever the frames.
THEOREM OnlyFramesSent == Spec => []NothingMadeUp
<1>1. ReaderOnLine => NothingMadeUp
  BY DEF ReaderOnLine, ReaderInv, NothingMadeUp
<1> QED
  BY <1>1, Reading, PTL

\* What comes later comes from later.
LEMMA OrgGrows ==
    ASSUME NEW f \in Int, NEW d \in Int, d >= -1, NEW s \in Int, NEW t \in Int, s + 2 <= t
    PROVE  Org(f, d, s) < Org(f, d, t)
BY DEF Org

LEMMA StepImplements ==
    ASSUME FramesDiffer, ReaderOnLine, [Next]_vars
    PROVE  [FL!Next]_delivered
<1>1. PICK L, f, d : ReaderInv(L, f, d)
  BY DEF ReaderOnLine
<1>2. CASE UNCHANGED delivered
  BY <1>2
<1>3. CASE Deliver
  <2> SUFFICES ASSUME NEW n, HandsOn(L, f, d, n)
               PROVE  FL!Next
    BY <1>1, <1>3, DeliverHands
  <2>1. /\ n \in 1 .. NF /\ delivered' = Append(delivered, n)
        /\ Org(f, d, Done(L) + 1) = Before(n) + 1
    BY DEF HandsOn
  <2>2. FL!Newest \in 0 .. NF
    <3>1. delivered \in Seq(0 .. NF) /\ NF \in Nat
      BY <1>1, Numbers DEF ReaderInv, FramingInv, TypeOK, NF
    <3>2. CASE delivered = << >>
      BY <3>1, <3>2 DEF FL!Newest
    <3>3. CASE delivered # << >>
      <4>1. Len(delivered) \in 1 .. Len(delivered)
        BY <3>1, <3>3, LenProperties, EmptySeq
      <4>2. delivered[Len(delivered)] \in 0 .. NF
        BY <3>1, <4>1, ElementOfSeq
      <4> QED
        BY <3>3, <4>2 DEF FL!Newest
    <3> QED
      BY <3>2, <3>3
  <2>3. n > FL!Newest
    <3>1. CASE FL!Newest = 0
      BY <2>1, <3>1, Numbers
    <3>2. CASE FL!Newest # 0
      <4> DEFINE m == FL!Newest
      <4>1. m \in 1 .. NF /\ NF \in Nat /\ n \in Int
        BY <2>1, <2>2, <3>2, Numbers
      <4>2. PICK s \in Int : Org(f, d, s) = Before(m) + 1 /\ s + 1 <= Done(L)
        BY <1>1, <3>2 DEF ReaderInv, NewestFrom
      <4>3. Done(L) \in Nat /\ f \in Int /\ d \in Int /\ d >= -1
        BY <1>1 DEF ReaderInv, InPlace, Came
      <4>4. s + 2 <= Done(L) + 1 /\ Done(L) + 1 \in Int
        BY <4>2, <4>3
      <4>5. Org(f, d, s) < Org(f, d, Done(L) + 1)
        BY <4>3, <4>4, OrgGrows
      <4> HIDE DEF m
      <4>6. Before(m) \in Nat /\ Before(n) \in Nat
        BY <2>1, <4>1, Numbers
      <4>7. Before(m) < Before(n)
        BY <2>1, <4>2, <4>5, <4>6
      <4>8. ~(n < m) /\ n # m
        <5>1. n < m => Before(n) < Before(m)
          BY <2>1, <4>1, BeforeGrows
        <5> QED
          BY <4>6, <4>7, <5>1
      <4> QED
        BY <4>1, <4>8 DEF m
    <3> QED
      BY <3>1, <3>2
  <2>4. FL!Deliver(n)
    BY <2>1, <2>3 DEF FL!Deliver
  <2> QED
    BY <2>1, <2>4 DEF FL!Next, NF
<1> QED
  BY <1>2, <1>3 DEF Next, Hunt, ReadRest, Decode, vars

\* Of frames that differ, those handed on come in order and once, whatever the
\* fault.
THEOREM FramesInOrder ==
    ASSUME FramesDiffer
    PROVE  Spec => ImplementsFrameLine
<1>1. Init => FL!Init
  BY DEF Init, FL!Init
<1>2. ReaderOnLine /\ [Next]_vars => [FL!Next]_delivered
  BY StepImplements
<1> QED
  BY <1>1, <1>2, Reading, PTL DEF Spec, ImplementsFrameLine, FL!Spec

-----------------------------------------------------------------------------
(* What becomes of the frames the fault did not touch.                     *)

\* Those behind the reader have been handed on, but for the doomed ones.
Found(L, f, d) ==
    \A i \in 1 .. NF :
        Safe(f, d, i) /\ Place(f, d, i) <= Done(L) => Contains(delivered, i)

\* The reader was in step when it came to the fault: it is never inside the
\* frame that the fault is in, unless in search of a start that is damaged.
InStep(L, f) ==
    HitBehindStart(f) =>
        Done(L) <= Before(hit) \/ Done(L) >= Before(hit) + 3 * Size(hit)

FoundInv(L, f, d) ==
    /\ ReaderInv(L, f, d)
    /\ HitBy(f, d)
    /\ InStep(L, f)
    /\ Found(L, f, d)

\* The frame being read begins behind what is done.
LEMMA ReadingAt ==
    ASSUME NEW L, NEW f, NEW d, ReaderInv(L, f, d), mode # "hunt",
           NEW s, s = Done(L) + 1
    PROVE  /\ Done(L) \in Nat /\ s \in 1 .. Len(L)
           /\ rdbuf[1] = L[s] /\ SOFR(L[s])
           /\ Cmd = COMMAND(L[s]) /\ Blen = 3 * Length(L, s) /\ Length(L, s) \in {4, 16}
           /\ Length(L, s) = FrameLen(Cmd)
<1>1. /\ Done(L) \in Nat /\ Done(L) = (Len(L) - Len(line)) - Len(rdbuf)
      /\ \A j \in 1 .. Len(rdbuf) : rdbuf[j] = L[Done(L) + j]
      /\ SOFR(rdbuf[1])
  BY DEF ReaderInv, InPlace, Done
<1>2. Len(L) \in Nat /\ Len(line) \in Nat /\ Len(rdbuf) \in Nat
  BY LenProperties DEF ReaderInv, Came, FramingInv, TypeOK
<1>3. Len(rdbuf) > 0
  <2>1. CASE mode \in {"decode", "check"}
    <3>1. Len(rdbuf) = Blen /\ Blen \in 3 .. 48
      BY <2>1, FrameLens DEF ReaderInv, FramingInv, TypeOK
    <3> QED
      BY <3>1
  <2>2. CASE mode = "read"
    BY <2>2 DEF ReaderInv, FramingInv, Kept
  <2> QED
    BY <2>1, <2>2 DEF ReaderInv, FramingInv, TypeOK
<1>4. 1 \in 1 .. Len(rdbuf) /\ s \in 1 .. Len(L)
  BY <1>1, <1>2, <1>3
<1>5. rdbuf[1] = L[s]
  BY <1>1, <1>4
<1>6. Cmd = COMMAND(L[s]) /\ Length(L, s) = FrameLen(Cmd)
  BY <1>5 DEF Cmd, Length
<1> QED
  BY <1>1, <1>4, <1>5, <1>6, Lengths DEF Blen

\* A safe frame not behind the reader begins where it is reading, or behind the
\* frame it takes that for.
LEMMA NothingSkipped ==
    ASSUME NEW L, NEW f, NEW d, FoundInv(L, f, d), mode # "hunt",
           NEW i \in 1 .. NF, Safe(f, d, i)
    PROVE  /\ Place(f, d, i) \in Int
           /\ \/ Place(f, d, i) <= Done(L)
              \/ Place(f, d, i) = Done(L) + 1
              \/ Place(f, d, i) >= Done(L) + 1 + Blen
<1> DEFINE p == Place(f, d, i)
           s == Done(L) + 1
<1>1. ReaderInv(L, f, d) /\ Came(L, f, d) /\ HitBy(f, d) /\ i # hit
  BY DEF FoundInv, ReaderInv, Safe
<1>2. /\ Done(L) \in Nat /\ s \in 1 .. Len(L) /\ SOFR(L[s])
      /\ Blen = 3 * Length(L, s)
  BY <1>1, ReadingAt
<1>3. p \in Int
  BY <1>1, PlaceKept
<1>4. s < p => s + 3 * Length(L, s) <= p
  <2>1. HitBehindStart(f) => s <= Before(hit) + 1 \/ s > Before(hit) + 3 * Size(hit)
    <3> SUFFICES ASSUME HitBehindStart(f)
                 PROVE  s <= Before(hit) + 1 \/ s > Before(hit) + 3 * Size(hit)
      OBVIOUS
    <3>1. Done(L) <= Before(hit) \/ Done(L) >= Before(hit) + 3 * Size(hit)
      BY DEF FoundInv, InStep
    <3>2. Before(hit) \in Nat /\ Size(hit) \in {4, 16}
      BY <1>1, HitAround, Numbers DEF HitBehindStart
    <3> QED
      BY <1>2, <3>1, <3>2
  <2> QED
    BY <1>1, <1>2, <2>1, NothingInside
<1>5. p <= Done(L) \/ p = s \/ s < p
  BY <1>2, <1>3
<1> QED
  BY <1>2, <1>3, <1>4, <1>5

\* The frame the fault is in is read from its start.
LEMMA DamagedStart ==
    ASSUME NEW L, NEW f, NEW d, Came(L, f, d), HitBy(f, d), HitBehindStart(f)
    PROVE  LET s == Before(hit) + 1
           IN  SOFR(L[s]) /\ Length(L, s) = Size(hit)
<1> DEFINE s == Before(hit) + 1
<1>1. /\ hit \in 1 .. NF /\ s < f /\ f \in Int /\ d \in Int /\ d >= -1
      /\ Len(L) = Len(AllBytes) - d /\ Len(AllBytes) \in Nat
      /\ f <= Len(AllBytes) /\ (d > 0 => f + d - 1 <= Len(AllBytes))
  BY HitAround DEF HitBehindStart, Came
<1>2. Before(hit) \in Nat /\ Size(hit) \in {4, 16} /\ Kind(hit) \in BOOLEAN
  BY <1>1, Numbers, FrameFacts
<1>3. s \in 1 .. Len(L) /\ s # f
  <2>1. s \in Int /\ s >= 1 /\ s < f
    BY <1>1, <1>2
  <2> HIDE DEF s
  <2>2. s <= Len(L) /\ Len(L) \in Int
    BY <1>1, <2>1
  <2> QED
    BY <1>1, <2>1, <2>2
<1>4. L[s] = AllBytes[s]
  <2>1. Org(f, d, s) = s
    BY <1>1 DEF Org
  <2> QED
    BY <1>3, <2>1 DEF Came
<1>5. 1 \in 1 .. Size(hit) /\ At(hit, 1, 1) = s
  <2>1. At(hit, 1, 1) = Before(hit) + 3 * (1 - 1) + 1
    BY DEF At
  <2> QED
    BY <1>2, <2>1
<1>6. SOFR(AllBytes[s]) /\ (COMMAND(AllBytes[s]) <=> Kind(hit))
  BY <1>1, <1>5, ByteFlags
<1> HIDE DEF s
<1>7. COMMAND(L[s]) = Kind(hit)
  <2>1. COMMAND(L[s]) \in BOOLEAN
    BY DEF COMMAND
  <2> QED
    BY <1>2, <1>4, <1>6, <2>1
<1>8. Length(L, s) = Size(hit)
  BY <1>1, <1>7, Lengths
<1> QED
  BY <1>4, <1>6, <1>8 DEF s

\* So it is passed by as a whole, with whatever comes before it.
LEMMA DamagedWhole ==
    ASSUME NEW L, NEW f, NEW d, FoundInv(L, f, d), HitBehindStart(f), mode # "hunt",
           Done(L) <= Before(hit)
    PROVE  \/ Done(L) + Blen <= Before(hit)
           \/ Done(L) + Blen = Before(hit) + 3 * Size(hit)
<1> DEFINE s == Done(L) + 1
           B == Before(hit)
<1>1. ReaderInv(L, f, d) /\ Came(L, f, d) /\ HitBy(f, d)
  BY DEF FoundInv, ReaderInv
<1>2. /\ Done(L) \in Nat /\ s \in 1 .. Len(L) /\ SOFR(L[s])
      /\ Blen = 3 * Length(L, s) /\ Length(L, s) \in {4, 16}
  BY <1>1, ReadingAt
<1>3. hit \in 1 .. NF /\ B + 1 < f /\ B \in Nat /\ Size(hit) \in {4, 16} /\ f \in Int
      /\ hit \in Int /\ f <= Len(AllBytes) /\ Len(AllBytes) \in Nat
  BY <1>1, HitAround, Numbers DEF HitBehindStart
<1>4. CASE s = B + 1
  <2>1. Length(L, s) = Size(hit)
    BY <1>1, <1>4, DamagedStart
  <2>2. Done(L) = B
    BY <1>2, <1>3, <1>4
  <2> QED
    BY <1>2, <1>3, <2>1, <2>2
<1>5. CASE s # B + 1
  <2>1. s < B + 1 /\ s < f /\ s # f /\ s \in 1 .. Len(AllBytes)
    BY <1>2, <1>3, <1>5
  <2>2. L[s] = AllBytes[s]
    <3>1. Org(f, d, s) = s
      BY <2>1 DEF Org
    <3> QED
      BY <1>1, <1>2, <2>1, <3>1 DEF Came
  <2>3. PICK h \in 1 .. NF : s = Before(h) + 1 /\ Kind(h) = COMMAND(AllBytes[s])
    BY <1>2, <2>1, <2>2, StartOfFrame
  <2>4. Before(h) \in Nat /\ h \in Int /\ Size(h) = Length(L, s)
    BY <2>2, <2>3, Numbers, Lengths
  <2>5. h # hit /\ ~(hit < h)
    <3>1. Before(h) < B
      BY <1>3, <2>1, <2>3, <2>4
    <3>2. hit < h => B < Before(h)
      BY <1>3, <2>3, BeforeGrows
    <3> QED
      BY <1>3, <2>4, <3>1, <3>2
  <2>6. Before(h) + 3 * Size(h) <= B
    BY <1>3, <2>3, <2>4, <2>5, FramesApart
  <2>7. Done(L) = Before(h)
    BY <1>2, <2>3, <2>4
  <2> QED
    BY <1>2, <1>3, <2>4, <2>6, <2>7
<1> QED
  BY <1>4, <1>5

\* The reader stays in step, whether it reads on or gives up or takes a frame.
LEMMA InStepStays ==
    ASSUME NEW L, NEW f, NEW d, FoundInv(L, f, d), hit' = hit,
           \/ Done(L)' = Done(L)
           \/ mode # "hunt" /\ Done(L)' = Done(L) + Blen
           \/ Done(L)' = Done(L) + 1 /\ ~SOFR(L[Done(L) + 1])
    PROVE  InStep(L, f)'
<1> SUFFICES ASSUME HitBehindStart(f)
             PROVE  Done(L)' <= Before(hit) \/ Done(L)' >= Before(hit) + 3 * Size(hit)
  BY DEF InStep, HitBehindStart
<1> DEFINE B == Before(hit)
           z == Size(hit)
<1>1. ReaderInv(L, f, d) /\ Came(L, f, d) /\ HitBy(f, d) /\ Done(L) \in Nat
      /\ (Done(L) <= B \/ Done(L) >= B + 3 * z)
  BY DEF FoundInv, ReaderInv, InPlace, InStep
<1>2. B \in Nat /\ z \in {4, 16} /\ Blen \in 3 .. 48
  BY <1>1, HitAround, Numbers, FrameLens DEF HitBehindStart
<1>3. CASE Done(L)' = Done(L)
  BY <1>1, <1>3
<1>4. CASE mode # "hunt" /\ Done(L)' = Done(L) + Blen
  <2>1. Done(L) <= B => Done(L) + Blen <= B \/ Done(L) + Blen = B + 3 * z
    BY <1>4, DamagedWhole
  <2> QED
    BY <1>1, <1>2, <1>4, <2>1
<1>5. CASE Done(L)' = Done(L) + 1 /\ ~SOFR(L[Done(L) + 1])
  <2>1. Done(L) # B
    BY <1>1, <1>5, DamagedStart
  <2> QED
    BY <1>1, <1>2, <1>5, <2>1
<1> QED
  BY <1>3, <1>4, <1>5

\* As long as the reader passes by no safe frame, all is well.
LEMMA FoundStays ==
    ASSUME NEW L, NEW f, NEW d, FoundInv(L, f, d), [Next]_vars, UNCHANGED delivered,
           \/ Done(L)' = Done(L)
           \/ mode # "hunt" /\ Done(L)' = Done(L) + Blen
           \/ Done(L)' = Done(L) + 1 /\ ~SOFR(L[Done(L) + 1]),
           \A i \in 1 .. NF : Safe(f, d, i) /\ Place(f, d, i) <= Done(L)' => Place(f, d, i) <= Done(L)
    PROVE  FoundInv(L, f, d)'
<1>1. ReaderInv(L, f, d)'
  BY NextReader DEF FoundInv
<1>2. hit' = hit
  BY DEF Next, Hunt, ReadRest, Decode, Deliver, vars
<1>3. HitBy(f, d)'
  BY <1>2 DEF FoundInv, HitBy
<1>4. \A i : Safe(f, d, i)' <=> Safe(f, d, i)
  BY <1>2 DEF Safe, Doomed, WrongStart, Reach, HitBehindStart, Place
<1>5. Found(L, f, d)'
  <2> SUFFICES ASSUME NEW i \in 1 .. NF, Safe(f, d, i)', Place(f, d, i) <= Done(L)'
               PROVE  Contains(delivered', i)
    BY DEF Found, Place
  <2>1. Safe(f, d, i) /\ Place(f, d, i) <= Done(L)
    BY <1>4
  <2> QED
    BY <2>1 DEF FoundInv, Found
<1>6. InStep(L, f)'
  BY <1>2, InStepStays
<1> QED
  BY <1>1, <1>3, <1>5, <1>6 DEF FoundInv

LEMMA HuntFinds ==
    ASSUME NEW L, NEW f, NEW d, FoundInv(L, f, d), Hunt
    PROVE  FoundInv(L, f, d)'
<1>1. /\ mode = "hunt" /\ line # << >> /\ line' = Tail(line) /\ UNCHANGED delivered
      /\ SOFR(Head(line)) => mode' = "read" /\ rdbuf' = <<Head(line)>>
      /\ ~SOFR(Head(line)) => mode' = "hunt"
  BY DEF Hunt
<1>2. ReaderInv(L, f, d) /\ Came(L, f, d) /\ HitBy(f, d) /\ line \in Seq(Byte)
  BY DEF FoundInv, ReaderInv, FramingInv, TypeOK
<1>3. Len(L) \in Nat /\ Len(line) \in Nat /\ Len(line) # 0 /\ Len(line') = Len(line) - 1 /\ Head(line) = line[1]
  BY <1>1, <1>2, LenProperties, EmptySeq, HeadTailProperties DEF Came
<1>4. /\ Done(L) \in Nat /\ Done(L) = Len(L) - Len(line)
      /\ \A j \in 1 .. Len(line) : line[j] = L[(Len(L) - Len(line)) + j]
  BY <1>1, <1>2 DEF ReaderInv, InPlace, Done
<1>5. Head(line) = L[Done(L) + 1]
  <2>1. 1 \in 1 .. Len(line)
    BY <1>3
  <2> QED
    BY <1>3, <1>4, <2>1
<1>6. CASE SOFR(Head(line))
  <2>1. mode' = "read" /\ Len(rdbuf') = 1
    BY <1>1, <1>6
  <2>2. Done(L)' = (Len(L) - Len(line')) - 1
    BY <2>1 DEF Done
  <2>3. Done(L)' = Done(L)
    BY <1>3, <1>4, <2>2
  <2> QED
    BY <1>1, <2>3, FoundStays DEF Next
<1>7. CASE ~SOFR(Head(line))
  <2>1. Done(L)' = (Len(L) - Len(line')) - 0
    BY <1>1, <1>7 DEF Done
  <2>2. Done(L)' = Done(L) + 1
    BY <1>3, <1>4, <2>1
  <2>3. ASSUME NEW i \in 1 .. NF, Safe(f, d, i), Place(f, d, i) <= Done(L)'
        PROVE  Place(f, d, i) <= Done(L)
    <3> DEFINE p == Place(f, d, i)
    <3>1. p \in Int /\ SOFR(L[p])
      BY <1>2, <2>3, KeptPasses DEF Passes, Safe
    <3>2. p # Done(L) + 1
      BY <1>5, <1>7, <3>1
    <3> HIDE DEF p
    <3>3. p <= Done(L) + 1
      BY <2>2, <2>3 DEF p
    <3>4. p <= Done(L)
      BY <1>4, <3>1, <3>2, <3>3
    <3> QED
      BY <3>4 DEF p
  <2> QED
    BY <1>1, <1>5, <1>7, <2>2, <2>3, FoundStays DEF Next
<1> QED
  BY <1>6, <1>7

LEMMA ReadRestFinds ==
    ASSUME NEW L, NEW f, NEW d, FoundInv(L, f, d), ReadRest
    PROVE  FoundInv(L, f, d)'
<1> DEFINE s == Done(L) + 1
           n == Length(L, s)
<1>1. ReaderInv(L, f, d) /\ Came(L, f, d) /\ HitBy(f, d) /\ mode = "read" /\ UNCHANGED delivered
  BY DEF FoundInv, ReaderInv, ReadRest
<1>2. /\ Len(L) - Len(line') = Done(L) + Len(rdbuf')
      /\ Len(rdbuf') \in Nat /\ Len(rdbuf') <= Blen
      /\ \A j \in 1 .. Len(rdbuf') : rdbuf'[j] = L[Done(L) + j]
      /\ mode' = IF Len(rdbuf') < Blen THEN "read" ELSE IF EndIsRight(rdbuf') THEN "decode" ELSE "hunt"
  BY <1>1, ReadOn
<1>3. Done(L) \in Nat /\ Blen = 3 * n /\ n \in {4, 16}
  BY <1>1, ReadingAt
<1>4. CASE mode' # "hunt"
  <2>1. Done(L)' = (Len(L) - Len(line')) - Len(rdbuf')
    BY <1>4 DEF Done
  <2>2. Done(L)' = Done(L)
    BY <1>2, <1>3, <2>1
  <2> QED
    BY <1>1, <2>2, FoundStays DEF Next
<1>5. CASE mode' = "hunt"
  <2>1. Len(rdbuf') = Blen /\ ~EndIsRight(rdbuf')
    BY <1>2, <1>3, <1>5
  <2>2. Done(L)' = (Len(L) - Len(line')) - 0
    BY <1>5 DEF Done
  <2>3. Done(L)' = Done(L) + Blen
    BY <1>2, <1>3, <2>1, <2>2
  <2>4. rdbuf'[Len(rdbuf') - 2] = L[s + 3 * (n - 1)]
    <3> HIDE DEF n
    <3>1. Len(rdbuf') = 3 * n
      BY <1>3, <2>1
    <3>2. Len(rdbuf') - 2 \in 1 .. Len(rdbuf') /\ Done(L) + (Len(rdbuf') - 2) = s + 3 * (n - 1)
      BY <1>3, <3>1
    <3> QED
      BY <1>2, <3>2
  <2>5. ~EOFR(L[s + 3 * (n - 1)])
    BY <2>1, <2>4 DEF EndIsRight
  <2>6. ASSUME NEW i \in 1 .. NF, Safe(f, d, i), Place(f, d, i) <= Done(L)'
        PROVE  Place(f, d, i) <= Done(L)
    <3>1. Place(f, d, i) # s
      <4> SUFFICES ASSUME s = Place(f, d, i)
                   PROVE  FALSE
        OBVIOUS
      <4> HIDE DEF s
      <4>1. Passes(L, s)
        BY <1>1, <2>6, KeptPasses DEF Safe
      <4> QED
        BY <2>5, <4>1 DEF Passes
    <3>2. /\ Place(f, d, i) \in Int
          /\ \/ Place(f, d, i) <= Done(L)
             \/ Place(f, d, i) = s
             \/ Place(f, d, i) >= s + Blen
      BY <1>1, <2>6, NothingSkipped
    <3> QED
      BY <1>3, <2>3, <2>6, <3>1, <3>2
  <2> QED
    BY <1>1, <2>3, <2>6, FoundStays DEF Next
<1> QED
  BY <1>4, <1>5

LEMMA DecodeFinds ==
    ASSUME NEW L, NEW f, NEW d, FoundInv(L, f, d), Decode
    PROVE  FoundInv(L, f, d)'
<1> DEFINE s == Done(L) + 1
           n == Length(L, s)
<1>1. /\ ReaderInv(L, f, d) /\ Came(L, f, d) /\ HitBy(f, d)
      /\ mode = "decode" /\ UNCHANGED <<line, rdbuf, delivered>>
      /\ mode' = IF \A j \in 1 .. FrameLen(Cmd) : GoodWord(j) THEN "check" ELSE "hunt"
  BY Zenon DEF FoundInv, ReaderInv, Decode
<1>2. /\ Done(L) \in Nat /\ Blen = 3 * n /\ n \in {4, 16} /\ n = FrameLen(Cmd)
      /\ Cmd = COMMAND(L[s])
  BY <1>1, ReadingAt
<1>3. Done(L) = (Len(L) - Len(line)) - Len(rdbuf) /\ Len(rdbuf) = Blen
  BY <1>1 DEF Done, ReaderInv, FramingInv, TypeOK
<1>4. Len(L) \in Nat /\ Len(line) \in Nat
  BY <1>1, LenProperties DEF ReaderInv, Came, FramingInv, TypeOK
<1>5. CASE mode' # "hunt"
  <2>1. Done(L)' = Done(L)
    BY <1>1, <1>5 DEF Done
  <2> QED
    BY <1>1, <2>1, FoundStays DEF Next
<1>6. CASE mode' = "hunt"
  <2>1. PICK j \in 1 .. n : ~GoodWord(j)
    BY <1>1, <1>2, <1>6
  <2>2. Done(L)' = (Len(L) - Len(line)) - 0
    BY <1>1, <1>6 DEF Done
  <2>3. Done(L)' = Done(L) + Blen
    BY <1>2, <1>3, <1>4, <2>2
  <2>4. ~Passes(L, s)
    <3> SUFFICES ASSUME Passes(L, s)
                 PROVE  FALSE
      OBVIOUS
    <3>1. j - 1 \in 0 .. n - 1 /\ (j - 1) + 1 = j
      BY <1>2
    <3>2. /\ FIRST(L[s + 3 * (j - 1)]) /\ SECOND(L[s + 3 * (j - 1) + 1]) /\ THIRD(L[s + 3 * (j - 1) + 2])
          /\ COMMAND(L[s + 3 * (j - 1)]) = COMMAND(L[s])
      BY <3>1 DEF Passes
    <3>3. /\ Chunk(j)[1] = L[s + 3 * (j - 1)]
          /\ Chunk(j)[2] = L[s + 3 * (j - 1) + 1]
          /\ Chunk(j)[3] = L[s + 3 * (j - 1) + 2]
      <4>1. j - 1 \in 0 .. FrameLen(Cmd) - 1
        BY <1>2, <3>1
      <4> HIDE DEF s
      <4>2. /\ Chunk((j - 1) + 1)[1] = L[s + 3 * (j - 1)]
            /\ Chunk((j - 1) + 1)[2] = L[s + 3 * (j - 1) + 1]
            /\ Chunk((j - 1) + 1)[3] = L[s + 3 * (j - 1) + 2]
        BY <1>1, <4>1, ChunkAt DEF s
      <4> QED
        BY <3>1, <4>2
    <3> QED
      BY <1>2, <2>1, <3>2, <3>3 DEF GoodWord, WordIsGood
  <2>5. ASSUME NEW i \in 1 .. NF, Safe(f, d, i), Place(f, d, i) <= Done(L)'
        PROVE  Place(f, d, i) <= Done(L)
    <3>1. Place(f, d, i) # s
      BY <1>1, <2>4, <2>5, KeptPasses DEF Safe
    <3>2. /\ Place(f, d, i) \in Int
          /\ \/ Place(f, d, i) <= Done(L)
             \/ Place(f, d, i) = s
             \/ Place(f, d, i) >= s + Blen
      BY <1>1, <2>5, NothingSkipped
    <3> QED
      BY <1>2, <2>3, <2>5, <3>1, <3>2
  <2> QED
    BY <1>1, <2>3, <2>5, FoundStays DEF Next
<1> QED
  BY <1>5, <1>6

\* A safe frame that is checked is handed on.
LEMMA DeliverFinds ==
    ASSUME FramesDiffer, NEW L, NEW f, NEW d, FoundInv(L, f, d), Deliver
    PROVE  FoundInv(L, f, d)'
<1> DEFINE s == Done(L) + 1
           n == Length(L, s)
           p == slot[Cmd]
           number == NumberOf(Cmd, IF Cmd THEN p ELSE Adjusted(p))
<1>1. /\ ReaderInv(L, f, d) /\ Came(L, f, d) /\ HitBy(f, d) /\ AsSent
      /\ mode = "check" /\ mode' = "hunt" /\ UNCHANGED <<line, hit>>
      /\ polarity \in {-1, 0, 1} /\ delivered \in Seq(0 .. NF)
  BY DEF FoundInv, ReaderInv, Deliver, FramingInv, TypeOK, NF
<1>2. /\ Done(L) \in Nat /\ Blen = 3 * n /\ n \in {4, 16} /\ n = FrameLen(Cmd)
      /\ Cmd = COMMAND(L[s])
  BY <1>1, ReadingAt
<1>3. /\ Done(L) + Blen = Len(L) - Len(line)
      /\ \A k \in 1 .. FrameLen(Cmd) : p[k] = WordAt(L, s, k - 1)
  BY <1>1, CheckedPasses
<1>4. p \in [1 .. FrameLen(Cmd) -> Word]
  BY FrameLens DEF FoundInv, ReaderInv, FramingInv, TypeOK
<1>5. Done(L)' = Done(L) + Blen
  <2>1. Done(L)' = (Len(L) - Len(line)) - 0
    BY <1>1 DEF Done
  <2>2. Done(L) + Blen \in Int
    BY <1>2
  <2> QED
    BY <1>3, <2>1, <2>2
<1>6. ReaderInv(L, f, d)'
  BY <1>1, NextReader DEF Next
<1>7. HitBy(f, d)' /\ InStep(L, f)'
  <2>1. HitBy(f, d)'
    BY <1>1 DEF HitBy
  <2>2. InStep(L, f)'
    BY <1>1, <1>5, InStepStays
  <2> QED
    BY <2>1, <2>2
<1>8. ASSUME NEW i \in 1 .. NF, Safe(f, d, i), Place(f, d, i) <= Done(L)'
      PROVE  Contains(delivered', i)
  <2>1. CASE Place(f, d, i) <= Done(L)
    <3>1. Contains(delivered, i)
      BY <1>8, <2>1 DEF FoundInv, Found
    <3>2. PICK k \in 1 .. Len(delivered) : delivered[k] = i
      BY <3>1 DEF Contains
    <3>3. CASE UNCHANGED delivered
      BY <3>1, <3>3
    <3>4. CASE delivered' = Append(delivered, number)
      <4>1. number \in 0 .. NF
        BY <1>1 DEF NumberOf, AsSent, NF
      <4> HIDE DEF number
      <4>2. /\ Len(delivered') = Len(delivered) + 1 /\ delivered'[k] = delivered[k]
            /\ Len(delivered) \in Nat
        BY <1>1, <3>2, <3>4, <4>1, AppendProperties, LenProperties
      <4>3. k \in 1 .. Len(delivered')
        BY <3>2, <4>2
      <4> QED
        BY <3>2, <4>2, <4>3 DEF Contains
    <3> QED
      BY <3>3, <3>4 DEF Deliver
  <2>2. CASE Place(f, d, i) = s
    <3>1. /\ COMMAND(L[s]) = Kind(i) /\ n = Size(i)
          /\ \A m \in 0 .. Size(i) - 1 : WordAt(L, s, m) = Sent(i)[m + 1]
      <4> HIDE DEF s
      <4> QED
        BY <1>1, <1>8, <2>2, KeptPasses DEF Safe
    <3>2. Sent(i) \in [1 .. Size(i) -> Word] /\ CRC(Front(Sent(i))) = Last(Sent(i))
      BY SentCrc
    <3>3. p = Sent(i)
      <4> HIDE DEF p
      <4>1. ASSUME NEW k \in 1 .. n
            PROVE  p[k] = Sent(i)[k]
        <5>1. k - 1 \in 0 .. n - 1 /\ (k - 1) + 1 = k
          BY <1>2
        <5> QED
          BY <1>2, <1>3, <3>1, <5>1
      <4> HIDE DEF n
      <4> QED
        BY <1>2, <1>4, <3>1, <3>2, <4>1
    <3>4. delivered' = Append(delivered, number)
      <4>1. CrcIsRight(p)
        <5> HIDE DEF p
        <5> QED
          BY <3>2, <3>3 DEF CrcIsRight
      <4> QED
        BY <4>1 DEF Deliver
    <3>5. number = i
      <4> HIDE DEF p
      <4> QED
        BY <1>1, <1>2, <3>1, <3>3, NumberFound
    <3> HIDE DEF number
    <3>6. i \in 0 .. NF
      BY Numbers
    <3>7. /\ Len(delivered') = Len(delivered) + 1 /\ delivered'[Len(delivered) + 1] = i
          /\ Len(delivered) \in Nat
      BY <1>1, <3>4, <3>5, <3>6, AppendProperties, LenProperties
    <3>8. Len(delivered) + 1 \in 1 .. Len(delivered')
      BY <3>7
    <3> QED
      BY <3>7, <3>8 DEF Contains
  <2>3. /\ Place(f, d, i) \in Int
        /\ \/ Place(f, d, i) <= Done(L)
           \/ Place(f, d, i) = s
           \/ Place(f, d, i) >= s + Blen
    BY <1>1, <1>8, NothingSkipped
  <2> QED
    BY <1>2, <1>5, <1>8, <2>1, <2>2, <2>3
<1>9. Found(L, f, d)'
  <2>1. \A i : Safe(f, d, i)' <=> Safe(f, d, i)
    BY <1>1 DEF Safe, Doomed, WrongStart, Reach, HitBehindStart, Place
  <2> QED
    BY <1>8, <2>1 DEF Found, Place
<1> QED
  BY <1>6, <1>7, <1>9 DEF FoundInv

LEMMA NextFinds ==
    ASSUME FramesDiffer, NEW L, NEW f, NEW d, FoundInv(L, f, d), [Next]_vars
    PROVE  FoundInv(L, f, d)'
<1>1. CASE Hunt
  BY <1>1, HuntFinds
<1>2. CASE ReadRest
  BY <1>2, ReadRestFinds
<1>3. CASE Decode
  BY <1>3, DecodeFinds
<1>4. CASE Deliver
  BY <1>4, DeliverFinds
<1>5. CASE UNCHANGED vars
  <2>1. UNCHANGED <<line, mode, rdbuf, delivered>>
    BY <1>5 DEF vars
  <2>2. Done(L)' = Done(L)
    BY <2>1 DEF Done
  <2> QED
    BY <2>1, <2>2, FoundStays
<1> QED
  BY <1>1, <1>2, <1>3, <1>4, <1>5 DEF Next

LEMMA InitFinds ==
    ASSUME Init
    PROVE  \E f, d : FoundInv(line, f, d)
<1>1. PICK f, d : ReaderInv(line, f, d) /\ HitBy(f, d)
  BY InitReader
<1>2. Came(line, f, d)
  BY <1>1 DEF ReaderInv
<1>3. Done(line) = 0
  <2>1. Len(line) \in Nat /\ mode = "hunt"
    BY <1>2, LenProperties DEF Came, Init
  <2> QED
    BY <2>1 DEF Done
<1>4. ASSUME NEW i \in 1 .. NF, Safe(f, d, i), Place(f, d, i) <= Done(line)
      PROVE  FALSE
  <2>1. Place(f, d, i) \in Int /\ 1 <= Place(f, d, i)
    BY <1>1, <1>2, <1>4, PlaceKept DEF Safe
  <2> QED
    BY <1>3, <1>4, <2>1
<1>5. Found(line, f, d)
  BY <1>4 DEF Found
<1>6. InStep(line, f)
  <2> SUFFICES ASSUME HitBehindStart(f)
               PROVE  Done(line) <= Before(hit)
    BY DEF InStep
  <2>1. Before(hit) \in Nat
    BY <1>1, <1>2, HitAround, Numbers DEF HitBehindStart
  <2> QED
    BY <1>3, <2>1
<1> QED
  BY <1>1, <1>5, <1>6 DEF FoundInv

\* When all the bytes are read, the reader is behind every safe frame.
LEMMA AllBehind ==
    ASSUME NEW L, NEW f, NEW d, FoundInv(L, f, d), line = << >>, mode \in {"hunt", "read"},
           NEW i \in 1 .. NF, Safe(f, d, i)
    PROVE  Place(f, d, i) <= Done(L)
<1> DEFINE p == Place(f, d, i)
<1>1. ReaderInv(L, f, d) /\ Came(L, f, d) /\ HitBy(f, d) /\ i # hit
  BY DEF FoundInv, ReaderInv, Safe
<1>2. p \in Int /\ p + 3 * Size(i) - 1 <= Len(L) /\ Size(i) \in {4, 16}
  BY <1>1, PlaceKept, Numbers
<1>3. Len(line) = 0 /\ Len(L) \in Nat /\ Len(rdbuf) \in Nat
  BY <1>1, LenProperties DEF Came, ReaderInv, FramingInv, TypeOK
<1>4. CASE mode = "hunt"
  <2>1. Done(L) = (Len(L) - 0) - 0
    BY <1>3, <1>4 DEF Done
  <2> QED
    BY <1>2, <1>3, <2>1
<1>5. CASE mode = "read"
  <2>1. Done(L) = (Len(L) - 0) - Len(rdbuf) /\ Len(rdbuf) < Blen
    BY <1>1, <1>3, <1>5 DEF Done, ReaderInv, FramingInv, TypeOK
  <2> DEFINE s == Done(L) + 1
  <2>2. /\ Done(L) \in Nat /\ Blen = 3 * Length(L, s) /\ Length(L, s) \in {4, 16}
    BY <1>1, <1>5, ReadingAt
  <2>3. p <= Done(L) \/ p = s \/ p >= s + Blen
    BY <1>5, NothingSkipped
  <2>4. p # s
    <3> SUFFICES ASSUME s = p
                 PROVE  FALSE
      OBVIOUS
    <3>1. Length(L, s) = Size(i)
      <4> HIDE DEF s
      <4> QED
        BY <1>1, KeptPasses
    <3> QED
      BY <1>2, <1>3, <2>1, <2>2, <3>1
  <2> QED
    BY <1>2, <1>3, <2>1, <2>2, <2>3, <2>4
<1> QED
  BY <1>4, <1>5

LEMMA FoundInTheEnd ==
    ASSUME NEW L, NEW f, NEW d, FoundInv(L, f, d)
    PROVE  FoundAgain
<1>1. SUFFICES ASSUME line = << >>, mode \in {"hunt", "read"}
               PROVE  Cardinality(Swallowed) <= DataPackets \div CRPackets
  BY DEF FoundAgain
<1> DEFINE D == Doomed(f, d)
           H == hit # 0 /\ Kind(hit)
           S == IF H THEN D \cup {hit} ELSE D
<1>2. /\ IsFiniteSet(D) /\ Cardinality(D) <= 4 /\ Cardinality(D) \in Nat
      /\ H => Cardinality(D) <= 3
  BY DoomedFew, FS_CardinalityType DEF FoundInv, ReaderInv
<1>3. Swallowed \subseteq S
  <2> SUFFICES ASSUME NEW i \in 1 .. NF, Kind(i) \/ i # hit, ~Contains(delivered, i), i \notin S
               PROVE  FALSE
    BY DEF Swallowed, NF, Kind
  <2>1. i \notin D /\ i # hit
    <3>1. i # 0
      BY Numbers
    <3> QED
      BY <3>1
  <2>2. Safe(f, d, i)
    BY <2>1 DEF Safe
  <2>3. Place(f, d, i) <= Done(L)
    BY <1>1, <2>2, AllBehind
  <2> QED
    BY <2>2, <2>3 DEF FoundInv, Found
<1> HIDE DEF D, H
<1>4. IsFiniteSet(S) /\ Cardinality(S) <= 4
  <2>1. CASE H
    <3>1. IsFiniteSet(D \cup {hit}) /\ Cardinality(D \cup {hit}) \in {Cardinality(D), Cardinality(D) + 1}
      BY <1>2, FS_AddElement
    <3> QED
      BY <1>2, <2>1, <3>1
  <2> QED
    BY <1>2, <2>1
<1> HIDE DEF S
<1>5. Cardinality(Swallowed) <= Cardinality(S) /\ IsFiniteSet(Swallowed)
  BY <1>3, <1>4, FS_Subset
<1>6. Cardinality(Swallowed) \in Nat /\ Cardinality(S) \in Nat
  BY <1>4, <1>5, FS_CardinalityType
<1>7. DataPackets \div CRPackets = 4
  BY DEF DataPackets, CRPackets
<1> QED
  BY <1>4, <1>5, <1>6, <1>7

\* Acquire is back in step soon, whatever the frames, the fault and the sizes of
\* the reads: of frames that differ, it loses at most four, not counting an event
\* that the fault is in.  The five tries of ReadRegister are enough for one fault.
THEOREM BackInStep ==
    ASSUME FramesDiffer
    PROVE  Spec => []FoundAgain
<1> DEFINE OnLine == \E L, f, d : FoundInv(L, f, d)
<1>1. Init => OnLine
  BY InitFinds
<1>2. OnLine /\ [Next]_vars => OnLine'
  BY NextFinds
<1>3. OnLine => FoundAgain
  BY FoundInTheEnd
<1> QED
  BY <1>1, <1>2, <1>3, PTL DEF Spec

=============================================================================
