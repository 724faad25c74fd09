------------------------------- MODULE Codec -------------------------------
(***************************************************************************)
(* The words and bytes on the serial line: how WriteCommand and the board  *)
(* put a word into three bytes, how Acquire takes it out again, the CRC,   *)
(* the commands and their answers, and the baseline subtraction of         *)
(* IpimBoardData.  A word is the set of its bits that are one, bit 0 the   *)
(* lowest, and so is a byte.                                               *)
(***************************************************************************)
EXTENDS Integers, Sequences, FiniteSets, SequencesExt

Bit == 0..15
Word == SUBSET Bit
Byte == SUBSET (0..7)

CRPackets == 4
DataPackets == 16

\* The number a word stands for, and the word of a number.
Num(w) ==
    LET n[k \in 0..16] ==
            IF k = 16 THEN 0 ELSE (2 * n[k + 1]) + (IF k \in w THEN 1 ELSE 0)
    IN  n[0]
Bits(n) == {k \in Bit : (n \div 2^k) % 2 = 1}

Xor(a, b) == (a \ b) \cup (b \ a)

-----------------------------------------------------------------------------
(* The CRC.                                                                *)

\* Bit k of the next CRC is the parity of these bits of data and CRC; the
\* same bits of both.
CrcTaps == <<
    {0, 4, 8, 11, 12}, {1, 5, 9, 12, 13}, {2, 6, 10, 13, 14},
    {3, 7, 11, 14, 15}, {4, 8, 12, 15}, {0, 4, 5, 8, 9, 11, 12, 13},
    {1, 5, 6, 9, 10, 12, 13, 14}, {2, 6, 7, 10, 11, 13, 14, 15},
    {3, 7, 8, 11, 12, 14, 15}, {4, 8, 9, 12, 13, 15}, {5, 9, 10, 13, 14},
    {6, 10, 11, 14, 15}, {0, 4, 7, 8, 15}, {1, 5, 8, 9}, {2, 6, 9, 10},
    {3, 7, 10, 11} >>

\* Mutant: the CRC so far is not fed in.
NextCrcUnfed(crc, word) ==
    {k \in Bit : Cardinality(CrcTaps[k + 1] \cap word) % 2 = 1}

NextCrc(crc, word) ==
    LET d == Xor(crc, word)
    IN  {k \in Bit : Cardinality(CrcTaps[k + 1] \cap d) % 2 = 1}

CRC(words) ==
    LET crc[l \in 0..Len(words)] ==
            IF l = 0 THEN Bit ELSE NextCrc(crc[l - 1], words[l])
    IN  crc[Len(words)]

\* The CRC of x16 + x12 + x5 + 1, 0x1021: a word taken in one bit at a time from
\* the top.  The comment in CRC() names this polynomial, but with the number
\* 0x0421, which would be x16 + x10 + x5 + 1.
ShiftIn(crc, b) ==
    LET shifted == {k + 1 : k \in crc \ {15}}
    IN  IF (15 \in crc) # b THEN Xor(shifted, {0, 5, 12}) ELSE shifted

PolynomialCrc(crc, word) ==
    LET c[i \in 0..16] ==
            IF i = 0 THEN crc ELSE ShiftIn(c[i - 1], (16 - i) \in word)
    IN  c[16]

-----------------------------------------------------------------------------
(* Words in bytes.                                                         *)

\* Mutant: the first byte of any word starts a frame.
SOFRAnyFirst(b) == 7 \in b

FIRST(b) == 7 \in b
SECOND(b) == b \cap {6, 7} = {}
THIRD(b) == b \cap {6, 7} = {6}
SOFR(b) == {6, 7} \subseteq b
EOFR(b) == {5, 7} \subseteq b
COMMAND(b) == 4 \in b

\* The three bytes of a word: the flags and D[3:0], then D[9:4], D[15:10].
PackWord(w, flags) ==
    << {7} \cup flags \cup (w \cap 0..3),
       {k - 4 : k \in w \cap 4..9},
       {6} \cup {k - 10 : k \in w \cap 10..15} >>

UnpackWord(b1, b2, b3) ==
    (b1 \cap 0..3) \cup {k + 4 : k \in b2 \cap 0..5}
                   \cup {k + 10 : k \in b3 \cap 0..5}

\* The flags of word i of a frame of n words.
Flags(i, n, cmd) ==
    (IF i = 1 THEN {6} ELSE {}) \cup (IF i = n THEN {5} ELSE {})
        \cup (IF cmd THEN {4} ELSE {})

\* The bytes of a frame: WriteCommand, and the board's side of it.
FrameBytes(words, cmd) ==
    FlattenSeq([i \in 1..Len(words) |->
                   PackWord(words[i], Flags(i, Len(words), cmd))])

-----------------------------------------------------------------------------
(* Commands and answers.  data is a set of bits of 32.                     *)

HalfWords(data) == << data \cap Bit, {k - 16 : k \in data \cap 16..31} >>

WithCrc(words) == Append(words, CRC(words))

IpimBoardCommand(write, address, data) ==
    WithCrc(<< (address \cap 0..7) \cup (IF write THEN {8} ELSE {}) >>
                \o HalfWords(data))

IpimBoardResponse(packet) ==
    [addr |-> packet[1] \cap 0..7,
     data |-> packet[2] \cup {k + 16 : k \in packet[3]}]

-----------------------------------------------------------------------------
(* Samples.                                                                *)

\* ipimbAdd: what the polarity in the startup script stands for.  One that is
\* not known, or missing, is negative.
Polarity(typed) == IF typed = 1 THEN 1 ELSE IF typed = 2 THEN 0 ELSE -1

\* adjustdata for one channel: all arithmetic in int, stored in 16 bits.
AdjustData(polarity, ch, ps) ==
    IF polarity = 0 THEN ch
    ELSE IF polarity = -1
         THEN (IF ps > ch THEN (65535 + ch) - ps ELSE 65535) % 65536
         ELSE (IF ps < ch THEN ch - ps ELSE 0) % 65536

\* What the comment in adjustdata says the DAQ computes.
DocumentedSample(polarity, ch, ps) ==
    LET d == (-1 * polarity * ps) + (polarity * ch)
        diff == IF d > 0 THEN d ELSE 0
    IN  IF polarity = 1 THEN diff ELSE 65535 - diff
=============================================================================
