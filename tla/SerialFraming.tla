--------------------------- MODULE SerialFraming ---------------------------
(***************************************************************************)
(* ipimbSyncObject::Acquire: how the reader finds frames in the bytes of   *)
(* the serial line, decodes them in place and checks them, when a byte is  *)
(* damaged, a few are lost, or noise is read as a byte.                    *)
(*                                                                         *)
(* The bytes and the CRC are the real ones (module Codec).  The bytes of a *)
(* behaviour are chosen at the start: all frames, with one fault at any    *)
(* place.  From there on only the sizes of the reads are open.             *)
(***************************************************************************)
EXTENDS Codec

CONSTANTS
    Frames,         \* the frames sent: [cmd |-> BOOLEAN, words |-> <<...>>]
    MaxRun,         \* at most so many bytes are lost in one place
    Noise,          \* the bytes that noise may add
    ReadSizes       \* how many bytes a read() may return at most

ASSUME FramingAssumption ==
    /\ Frames \in Seq([cmd : BOOLEAN, words : Seq(Word)])
    /\ \A i \in 1..Len(Frames) :
          Len(Frames[i].words) =
              (IF Frames[i].cmd THEN CRPackets ELSE DataPackets) - 1
    /\ MaxRun \in Nat
    /\ Noise \subseteq Byte
    /\ ReadSizes \subseteq Nat \ {0}

VARIABLES
    sent,           \* history: the frames sent, with their CRC
    line,           \* bytes not yet read
    hit,            \* history: the frame the fault is in, 0 if none
    polarity,       \* IpimBoard::_polarity
    mode,           \* "hunt", "read", "decode" or "check"
    rdbuf,          \* bytes of the frame being read
    slot,           \* GetBuffer(0) and GetBuffer(1)
    delivered       \* history: the numbers of the frames handed on, 0 for
                    \* what is none of them

vars == <<sent, line, hit, polarity, mode, rdbuf, slot, delivered>>

-----------------------------------------------------------------------------
(* The board and the wire.                                                 *)

Wire == [i \in 1..Len(Frames) |->
             FrameBytes(WithCrc(Frames[i].words), Frames[i].cmd)]
AllBytes == FlattenSeq(Wire)

\* The frame of each byte.
FrameOf == FlattenSeq([i \in 1..Len(Frames) |->
                          [j \in 1..Len(Wire[i]) |-> i]])

Cut(s, i, n) == SubSeq(s, 1, i - 1) \o SubSeq(s, i + n, Len(s))

\* The bytes arrive as sent.
NoFault == hit = 0 /\ line = AllBytes

\* One bit of byte i arrives wrong.
BitFlipped(i) ==
    \E k \in 0..7 :
        /\ line = [AllBytes EXCEPT ![i] = Xor(@, {k})]
        /\ hit = FrameOf[i]

\* Bytes of one frame are lost (an overrun of the tty).
BytesLost(i) ==
    \E n \in 1..MaxRun :
        /\ i + n - 1 <= Len(AllBytes)
        /\ FrameOf[i + n - 1] = FrameOf[i]
        /\ line = Cut(AllBytes, i, n)
        /\ hit = FrameOf[i]

\* A byte is read that nobody sent, before byte i.
NoiseRead(i) ==
    \E b \in Noise :
        /\ line = SubSeq(AllBytes, 1, i - 1) \o <<b>>
                      \o SubSeq(AllBytes, i, Len(AllBytes))
        /\ hit = IF i > 1 /\ FrameOf[i - 1] = FrameOf[i]
                 THEN FrameOf[i] ELSE 0

Init ==
    /\ sent = [i \in 1..Len(Frames) |->
                  [Frames[i] EXCEPT !.words = WithCrc(@)]]
    /\ polarity \in {Polarity(typed) : typed \in 0..3}
    /\ \/ NoFault
       \/ \E i \in 1..Len(AllBytes) :
             BitFlipped(i) \/ BytesLost(i) \/ NoiseRead(i)
    /\ mode = "hunt"
    /\ rdbuf = << >>
    /\ slot = [cmd \in BOOLEAN |->
                  [i \in 1..(IF cmd THEN CRPackets ELSE DataPackets) |-> {}]]
    /\ delivered = << >>

-----------------------------------------------------------------------------
(* The reader.                                                             *)

FrameLen(cmd) == IF cmd THEN CRPackets ELSE DataPackets
Cmd == COMMAND(rdbuf[1])
Blen == 3 * FrameLen(Cmd)

\* Read one byte; if it starts no frame, read the next.
Hunt ==
    /\ mode = "hunt"
    /\ line # << >>
    /\ line' = Tail(line)
    /\ IF SOFR(Head(line))
       THEN mode' = "read" /\ rdbuf' = <<Head(line)>>
       ELSE UNCHANGED <<mode, rdbuf>>
    /\ UNCHANGED <<sent, hit, polarity, slot, delivered>>

\* Mutant: read() may fill the buffer.
NeedFullBuffer == (3 * DataPackets) - Len(rdbuf)

Need == Blen - Len(rdbuf)

EndIsRight(bytes) == EOFR(bytes[Len(bytes) - 2])

\* Read on, as much as there is but not beyond the frame.  A whole frame
\* must have the flag of its end in the right place.
ReadRest ==
    /\ mode = "read"
    /\ line # << >>
    /\ \E size \in ReadSizes :
          LET n == IF size > Need THEN Need ELSE size
              newrd == IF n > Len(line) THEN Len(line) ELSE n
              got == rdbuf \o SubSeq(line, 1, newrd)
          IN  /\ rdbuf' = got
              /\ line' = SubSeq(line, newrd + 1, Len(line))
              /\ mode' = IF Len(got) < Blen THEN "read"
                         ELSE IF EndIsRight(got) THEN "decode" ELSE "hunt"
    /\ UNCHANGED <<sent, hit, polarity, slot, delivered>>

WordIsGood(b1, b2, b3) ==
    FIRST(b1) /\ SECOND(b2) /\ THIRD(b3) /\ COMMAND(b1) = Cmd

Chunk(i) == [k \in 1..3 |-> rdbuf[3 * (i - 1) + k]]
GoodWord(i) == WordIsGood(Chunk(i)[1], Chunk(i)[2], Chunk(i)[3])

\* The words before the first bad one go to the slot, before anything else
\* about the frame is known to be right.
Decode ==
    /\ mode = "decode"
    /\ LET len == FrameLen(Cmd)
           before(i) == \A j \in 1..i : GoodWord(j)
       IN  /\ slot' = [slot EXCEPT ![Cmd] = [i \in 1..len |->
                          IF before(i)
                          THEN UnpackWord(Chunk(i)[1], Chunk(i)[2], Chunk(i)[3])
                          ELSE @[i]]]
           /\ mode' = IF before(len) THEN "check" ELSE "hunt"
    /\ UNCHANGED <<sent, line, hit, polarity, rdbuf, delivered>>

\* adjustdata on the channels, words 8 to 11, with their presamples, words
\* 12 to 15.
Adjusted(p) ==
    [i \in 1..DataPackets |->
        IF i \in 8..11
        THEN Bits(AdjustData(polarity, Num(p[i]), Num(p[i + 4])))
        ELSE p[i]]

\* The words q handed on are frame i: the words sent, the channels of an event
\* as the comment of adjustdata has them.
IsFrame(cmd, q, i) ==
    LET words == sent[i].words
        sample(k) == Bits(DocumentedSample(polarity, Num(words[k]),
                                           Num(words[k + 4])))
    IN  /\ cmd = sent[i].cmd
        /\ \A k \in 1..Len(words) :
              q[k] = IF cmd \/ polarity = 0 \/ k \notin 8..11
                     THEN words[k] ELSE sample(k)

NumberOf(cmd, q) ==
    IF \E i \in 1..Len(sent) : IsFrame(cmd, q, i)
    THEN CHOOSE i \in 1..Len(sent) : IsFrame(cmd, q, i)
    ELSE 0

\* Mutant: the CRC is taken for right.
CrcIsRightAnyway(p) == TRUE

CrcIsRight(p) == CRC(Front(p)) = Last(p)

\* Check the CRC, adjust data in place, and hand the frame on.
Deliver ==
    /\ mode = "check"
    /\ LET p == slot[Cmd]
           q == IF Cmd THEN p ELSE Adjusted(p)
       IN  IF CrcIsRight(p)
           THEN /\ slot' = [slot EXCEPT ![Cmd] = q]
                /\ delivered' = Append(delivered, NumberOf(Cmd, q))
           ELSE UNCHANGED <<slot, delivered>>
    /\ mode' = "hunt"
    /\ UNCHANGED <<sent, line, hit, polarity, rdbuf>>

Next == Hunt \/ ReadRest \/ Decode \/ Deliver

Spec == Init /\ [][Next]_vars

-----------------------------------------------------------------------------
(* Properties.                                                             *)

TypeOK ==
    /\ line \in Seq(Byte)
    /\ hit \in 0..Len(Frames)
    /\ polarity \in {-1, 0, 1}
    /\ mode \in {"hunt", "read", "decode", "check"}
    /\ rdbuf \in Seq(Byte)
    /\ mode = "read" => Len(rdbuf) < Blen
    /\ mode \in {"decode", "check"} => Len(rdbuf) = Blen
    /\ \A cmd \in BOOLEAN : slot[cmd] \in [1..FrameLen(cmd) -> Word]
    /\ delivered \in Seq(0..Len(Frames))

\* No two frames are the same, the channels of an event apart: then the number
\* of a frame handed on is that of one frame only.
FramesDiffer ==
    \A i, j \in 1..Len(Frames) :
        i # j /\ Frames[i].cmd = Frames[j].cmd =>
            \E k \in 1..Len(Frames[i].words) :
                /\ Frames[i].cmd \/ k \notin 8..11
                /\ Frames[i].words[k] # Frames[j].words[k]

FL == INSTANCE FrameLine WITH NFrames <- Len(Frames)

\* A fault makes frames disappear, but never makes one up: what Acquire hands
\* on is a frame the board sent, with the values of the documented formulas,
\* in order and once.
ImplementsFrameLine == FL!Spec

\* Acquire is back in step soon: of all the answers, and the events the fault
\* is not in, it loses at most four, as many as begin within the event which a
\* noise byte or a damaged answer announced.  ReadRegister tries five times, and
\* so gets over one fault.
Swallowed ==
    {i \in 1..Len(Frames) : (Frames[i].cmd \/ i # hit) /\ ~ Contains(delivered, i)}

FoundAgain ==
    line = << >> /\ mode \in {"hunt", "read"}
        => Cardinality(Swallowed) <= DataPackets \div CRPackets

\* The table of CRC() takes a word in as the polynomial x16 + x12 + x5 + 1 does,
\* whatever the CRC so far and the word are: words that arrived stand for both.
\* The comment of CRC() names it, and contradicts itself: it also gives 0x0421,
\* which is x16 + x10 + x5 + 1.  This one is 0x1021, and it is what the code does.
CrcIsPolynomial ==
    mode = "check" =>
        \A i \in 2..FrameLen(Cmd) :
            LET p == slot[Cmd]
            IN  NextCrc(p[i - 1], p[i]) = PolynomialCrc(p[i - 1], p[i])
=============================================================================
