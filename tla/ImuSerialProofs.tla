--------------------------- MODULE ImuSerialProofs ---------------------------
(* Theorems about ImuSerial: types, that a parser in step stays in step, and *)
(* that out of step it loses no more frames than one wrong header can        *)
(* swallow, for every payload and every buffer it fits in.                   *)
EXTENDS ImuSerial, TLAPS

-----------------------------------------------------------------------------
\* Arithmetic

\* The next position in a cycle of n.
LEMMA NextInCycle ==
  ASSUME NEW n \in Nat \ {0}, NEW p \in 0..(n - 1)
  PROVE  (p + 1) % n = IF p + 1 = n THEN 0 ELSE p + 1
  <1>1. CASE p + 1 = n
    BY <1>1
  <1>2. CASE p + 1 < n
    BY <1>2
  <1> QED BY <1>1, <1>2

\* The quotient is the largest multiple that fits.
LEMMA QuotientBounds ==
  ASSUME NEW n \in Nat \ {0}, NEW m \in Nat, NEW k \in Nat, k * n <= m
  PROVE  k <= m \div n
  <1> DEFINE q == m \div n
  <1>1. q \in Nat
    OBVIOUS
  <1>2. m = n * q + (m % n) /\ m % n \in 0..(n - 1)
    OBVIOUS
  <1> HIDE DEF q
  <1>3. ASSUME k >= q + 1 PROVE FALSE
    <2>1. k * n >= (q + 1) * n
      BY <1>1, <1>3
    <2>2. (q + 1) * n = n * q + n
      BY <1>1
    <2> QED BY <2>1, <2>2, <1>1, <1>2
  <1> QED BY <1>1, <1>3 DEF q

LEMMA Constants ==
  /\ Payload \in Nat \ {0} /\ MaxLen \in Nat /\ Payload <= MaxLen
  /\ Header = 6 /\ Frame = 6 + Payload /\ Frame \in Nat \ {0}
  /\ MaxSwallowed \in Nat
  <1>1. Payload \in Nat \ {0} /\ MaxLen \in Nat /\ Payload <= MaxLen
    BY PayloadAssumption, MaxLenAssumption
  <1>2. Frame = 6 + Payload /\ Header = 6
    BY DEF Frame, Header
  <1>3. Frame \in Nat \ {0} /\ 4 + MaxLen + Frame - 1 \in Nat
    BY <1>1, <1>2
  <1>4. MaxSwallowed \in Nat
    BY <1>3 DEF MaxSwallowed
  <1> QED BY <1>1, <1>2, <1>3, <1>4

\* Frames that together are shorter than a wrong header's, give or take the one
\* it began in, are at most MaxSwallowed.
LEMMA SwallowedBounds ==
  ASSUME NEW k \in Nat, k * Frame <= 3 + MaxLen + Frame
  PROVE  k <= MaxSwallowed
  <1>1. 4 + MaxLen + Frame - 1 \in Nat /\ k * Frame <= 4 + MaxLen + Frame - 1
    BY Constants
  <1> QED BY <1>1, Constants, QuotientBounds DEF MaxSwallowed

-----------------------------------------------------------------------------
\* What the parser is doing

\* Bytes that have come of a frame the line has done nothing to.
Come == IF intact THEN pos ELSE 0

\* The parser reads the device's frame: it is as far as the device.
InStep ==
  own => intact /\ nbyte = pos /\ nbyte >= 2 /\ (nbyte >= Header => len = Payload)

\* The parser is inside a frame whose length, once known, fits the buffer.
Bounded ==
  /\ nbyte # 1
  /\ nbyte >= Header => len <= MaxLen /\ nbyte < len + Header

\* Reading a wrong frame, it has had all the bytes that were lost, and two more.
Strayed == nbyte > 0 /\ ~own => lost * Frame + Come + 2 <= nbyte

\* Searching from the middle of a frame, it can still lose that one.
Doomed == intact /\ nbyte = 0 /\ pos > 0 /\ ~(pos = 1 /\ prev = "sync1")
Searching == Doomed => lost * Frame <= 3 + MaxLen

\* After a fault nothing counts as lost until a whole frame has been sent.
Fresh == ~intact => lost = 0

Swallowed == lost * Frame <= 3 + MaxLen + Frame

ParserInv == InStep /\ Strayed /\ Searching /\ Fresh /\ Swallowed

-----------------------------------------------------------------------------
\* The parser's step

\* A byte of a frame: the next one, or the end of the frame.
LEMMA InFrameStep ==
  ASSUME ImuTypeOK, Bounded, NEW good \in BOOLEAN, InFrame(good)
  PROVE  /\ nbyte >= 2 /\ nbyte + 1 <= Header + MaxLen
         /\ nbyte' \in {0, nbyte + 1} /\ len' \in 0..(MaxLen + 1) /\ prev' = "sync2"
         /\ own' = (good /\ nbyte' # 0)
         /\ Bounded'
         /\ good => len' = IF nbyte + 1 = Header THEN Payload ELSE len
         /\ good => (nbyte' = 0 <=> nbyte + 1 >= len' + Header)
  <1> DEFINE done == (nbyte + 1 = Header /\ TooLong(len')) \/ nbyte + 1 >= len' + Header
  <1>1. /\ nbyte > 0 /\ prev' = "sync2"
        /\ len' \in IF nbyte + 1 # Header THEN {len} ELSE IF good THEN {Payload} ELSE 0..(MaxLen + 1)
        /\ nbyte' = IF done THEN 0 ELSE nbyte + 1
        /\ own' = (good /\ ~done)
    BY DEF InFrame
  <1>2. /\ nbyte \in 0..(Header + MaxLen) /\ len \in 0..(MaxLen + 1) /\ nbyte # 1
        /\ nbyte >= Header => len <= MaxLen /\ nbyte < len + Header
    BY DEF ImuTypeOK, Bounded
  <1>3. nbyte \in Nat /\ nbyte >= 2 /\ len \in Nat /\ len' \in Nat /\ len' \in 0..(MaxLen + 1)
    BY <1>1, <1>2, Constants
  <1>4. nbyte + 1 <= Header + MaxLen
    BY <1>1, <1>2, <1>3, Constants
  <1>5. good => len' = IF nbyte + 1 = Header THEN Payload ELSE len
    BY <1>1
  <1>6. good => (done <=> nbyte + 1 >= len' + Header)
    BY <1>5, Constants DEF TooLong
  <1> HIDE DEF done
  <1>7. nbyte' \in {0, nbyte + 1} /\ (nbyte' = 0 <=> done)
    <2>1. CASE done
      BY <2>1, <1>1
    <2>2. CASE ~done
      BY <2>2, <1>1, <1>3
    <2> QED BY <2>1, <2>2
  <1>8. ASSUME nbyte' >= Header PROVE len' <= MaxLen /\ nbyte' < len' + Header
    <2>1. ~done /\ nbyte' = nbyte + 1
      BY <1>1, <1>8, Constants
    <2>2. ~(nbyte + 1 >= len' + Header) /\ ~(nbyte + 1 = Header /\ len' > MaxLen)
      BY <2>1 DEF done, TooLong
    <2> HIDE DEF done
    <2>5. nbyte' < len' + Header
      <3>1. PICK l \in Nat : len' = l
        BY <1>3
      <3> QED BY <3>1, <2>1, <2>2, <1>3, Constants
    <2>3. CASE nbyte + 1 = Header
      BY <2>2, <2>3, <2>5, <1>3, Constants
    <2>4. CASE nbyte + 1 # Header
      BY <2>1, <2>4, <2>5, <1>1, <1>2, <1>3, <1>8, Constants
    <2> QED BY <2>3, <2>4
  <1>9. Bounded'
    BY <1>3, <1>7, <1>2, <1>8 DEF Bounded
  <1> QED BY <1>1, <1>3, <1>4, <1>5, <1>6, <1>7, <1>9

\* Any byte that goes into the parser.
LEMMA InputStep ==
  ASSUME ImuTypeOK, Bounded, NEW b \in Kinds, NEW first \in BOOLEAN, NEW good \in BOOLEAN,
         Input(b, first, good)
  PROVE  /\ nbyte' \in 0..(Header + MaxLen) /\ prev' \in Kinds
         /\ len' \in 0..(MaxLen + 1) /\ own' \in BOOLEAN
         /\ Bounded'
  <1>1. CASE Sync(b, first)
    <2>1. nbyte = 0 /\ prev' = b /\ len' = len
      BY <1>1 DEF Sync
    <2>2. nbyte' \in {0, 2}
      BY <1>1 DEF Sync
    <2>3. own' \in BOOLEAN
      BY <1>1 DEF Sync
    <2>4. Bounded'
      BY <2>2, Constants DEF Bounded
    <2> QED BY <2>1, <2>2, <2>3, <2>4, Constants DEF ImuTypeOK
  <1>2. CASE InFrame(good)
    <2>1. /\ nbyte + 1 <= Header + MaxLen /\ nbyte' \in {0, nbyte + 1}
          /\ len' \in 0..(MaxLen + 1) /\ prev' = "sync2"
          /\ own' = (good /\ nbyte' # 0) /\ Bounded'
      BY <1>2, InFrameStep
    <2>2. nbyte \in Nat /\ "sync2" \in Kinds
      BY Constants DEF ImuTypeOK, Kinds
    <2>3. nbyte' \in 0..(Header + MaxLen)
      BY <2>1, <2>2, Constants
    <2>4. own' \in BOOLEAN
      BY <2>1
    <2> QED BY <2>1, <2>2, <2>3, <2>4
  <1> QED BY <1>1, <1>2 DEF Input

-----------------------------------------------------------------------------
\* Types

LEMMA TypeInit == ImuInit => ImuTypeOK /\ Bounded
  <1> SUFFICES ASSUME ImuInit PROVE ImuTypeOK /\ Bounded
    OBVIOUS
  <1>1. /\ pos = 0 /\ nbyte = 0 /\ len = 0 /\ lost = 0
        /\ prev \in Kinds /\ intact \in BOOLEAN /\ own \in BOOLEAN
    BY DEF ImuInit, Kinds
  <1>2. 0 \in 0..(Frame - 1) /\ 0 \in 0..(Header + MaxLen) /\ 0 \in 0..(MaxLen + 1)
        /\ 0 \in 0..(MaxSwallowed + 1)
    BY Constants
  <1> QED BY <1>1, <1>2, Constants DEF ImuTypeOK, Bounded

LEMMA TypeStep == ImuTypeOK /\ Bounded /\ [ImuNext]_imuVars => ImuTypeOK' /\ Bounded'
  <1> SUFFICES ASSUME ImuTypeOK, Bounded, [ImuNext]_imuVars PROVE ImuTypeOK' /\ Bounded'
    OBVIOUS
  <1> USE DEF ImuTypeOK
  <1>1. pos \in 0..(Frame - 1) /\ (pos + 1) % Frame \in 0..(Frame - 1)
    BY Constants, NextInCycle
  <1>2. CASE Byte
    <2>1. PICK b \in Kinds :
            /\ Input(b, pos = 1 /\ intact, own)
            /\ pos' = (pos + 1) % Frame
            /\ intact' = ((intact /\ ~Misled) \/ pos' = 0)
            /\ lost' = IF Misled THEN 0
                       ELSE IF pos' = 0 /\ intact /\ ~Decoded /\ lost <= MaxSwallowed
                              THEN lost + 1 ELSE lost
      BY <1>2 DEF Byte
    <2>2. lost' \in 0..(MaxSwallowed + 1)
      BY <2>1, Constants
    <2>3. /\ nbyte' \in 0..(Header + MaxLen) /\ prev' \in Kinds
          /\ len' \in 0..(MaxLen + 1) /\ own' \in BOOLEAN /\ Bounded'
      BY <2>1, InputStep
    <2> QED BY <2>1, <2>2, <2>3, <1>1
  <1>3. CASE LoseByte
    <2>1. /\ pos' = (pos + 1) % Frame
          /\ intact' = (pos' = 0)
          /\ own' = FALSE /\ lost' = 0
          /\ UNCHANGED <<nbyte, prev, len>>
      BY <1>3 DEF LoseByte
    <2>2. Bounded'
      BY <2>1 DEF Bounded
    <2>3. intact' \in BOOLEAN /\ own' \in BOOLEAN
      BY <2>1
    <2>4. lost' \in 0..(MaxSwallowed + 1)
      BY <2>1, Constants
    <2> QED BY <2>1, <2>2, <2>3, <2>4, <1>1
  <1>4. CASE StrayByte
    <2>1. PICK b \in Kinds : Input(b, FALSE, FALSE)
      BY <1>4 DEF StrayByte
    <2>2. /\ nbyte' \in 0..(Header + MaxLen) /\ prev' \in Kinds
          /\ len' \in 0..(MaxLen + 1) /\ own' \in BOOLEAN /\ Bounded'
      BY <2>1, InputStep
    <2>3. /\ intact' = (pos = 0) /\ lost' = 0
          /\ pos' = pos
      BY <1>4 DEF StrayByte
    <2> QED BY <2>2, <2>3, Constants
  <1>5. CASE UNCHANGED imuVars
    BY <1>5 DEF imuVars, Bounded
  <1> QED BY <1>2, <1>3, <1>4, <1>5 DEF ImuNext

\* Every variable keeps its type: the parser never writes beyond its buffer
\* (nbyte stays within Header + MaxLen).
THEOREM ImuTypeCorrect == ImuSpec => []ImuTypeOK
  <1>1. ImuTypeOK /\ Bounded => ImuTypeOK
    OBVIOUS
  <1> QED BY TypeInit, TypeStep, PTL DEF ImuSpec

-----------------------------------------------------------------------------
\* The parser finds its frames again

\* Frames of one kind are counted in bytes.
LEMMA Multiples ==
  /\ 0 * Frame = 0
  /\ \A k \in Nat : k * Frame \in Nat /\ (k + 1) * Frame = k * Frame + Frame
  <1>1. Frame \in Nat
    BY Constants
  <1> QED BY <1>1

LEMMA ParserInit == ImuInit => ParserInv
  <1> SUFFICES ASSUME ImuInit PROVE ParserInv
    OBVIOUS
  <1>1. pos = 0 /\ nbyte = 0 /\ lost = 0 /\ own = FALSE /\ intact = TRUE
    BY DEF ImuInit
  <1>2. Swallowed
    BY <1>1, Multiples, Constants DEF Swallowed
  <1> QED BY <1>1, <1>2 DEF ParserInv, InStep, Strayed, Searching, Doomed, Fresh

\* A fault of the line or a wrong header: nothing is lost since, and no frame is
\* read in step.
LEMMA Fault ==
  ASSUME lost' = 0, own' = FALSE, intact' => pos' = 0, nbyte' \in Nat, nbyte' # 1
  PROVE  ParserInv'
  <1>1. PICK n \in Nat : nbyte' = n
    OBVIOUS
  <1>2. InStep' /\ Fresh' /\ Searching'
    BY DEF InStep, Fresh, Searching, Doomed
  <1>3. Strayed'
    <2>1. Come' = 0
      BY DEF Come
    <2> QED BY <1>1, <2>1, Multiples DEF Strayed
  <1>4. Swallowed'
    BY Multiples, Constants DEF Swallowed
  <1> QED BY <1>2, <1>3, <1>4 DEF ParserInv

\* What a byte of the device does to the count of lost frames.
LEMMA ByteCounts ==
  ASSUME ImuTypeOK, Byte
  PROVE  /\ pos \in Nat /\ pos < Frame /\ lost \in Nat
         /\ pos' = IF pos + 1 = Frame THEN 0 ELSE pos + 1
         /\ Misled => lost' = 0 /\ (intact' => pos' = 0)
         /\ ~Misled => intact' = (intact \/ pos' = 0)
         /\ ~Misled => lost' \in {lost, lost + 1}
         /\ ~Misled /\ lost' # lost => pos + 1 = Frame /\ intact /\ ~Decoded
  <1>1. PICK b \in Kinds :
          /\ pos' = (pos + 1) % Frame
          /\ intact' = ((intact /\ ~Misled) \/ pos' = 0)
          /\ lost' = IF Misled THEN 0
                     ELSE IF pos' = 0 /\ intact /\ ~Decoded /\ lost <= MaxSwallowed
                            THEN lost + 1 ELSE lost
    BY DEF Byte
  <1>2. pos \in 0..(Frame - 1) /\ lost \in Nat
    BY Constants DEF ImuTypeOK
  <1>3. pos' = IF pos + 1 = Frame THEN 0 ELSE pos + 1
    BY <1>1, <1>2, Constants, NextInCycle
  <1>4. pos \in Nat /\ pos < Frame
    BY <1>2, Constants
  <1>5. pos' = 0 => pos + 1 = Frame
    BY <1>3, <1>4
  <1>6. CASE Misled
    <2>1. lost' = 0 /\ (intact' => pos' = 0)
      BY <1>1, <1>6
    <2> QED BY <2>1, <1>2, <1>3, <1>4, <1>6
  <1>7. CASE ~Misled
    <2>1. lost' = IF pos' = 0 /\ intact /\ ~Decoded /\ lost <= MaxSwallowed
                    THEN lost + 1 ELSE lost
      BY <1>1, <1>7
    <2>2. intact' = (intact \/ pos' = 0)
      BY <1>1, <1>7
    <2>3. lost' \in {lost, lost + 1} /\ (lost' # lost => pos' = 0 /\ intact /\ ~Decoded)
      BY <2>1
    <2> QED BY <2>2, <2>3, <1>2, <1>3, <1>4, <1>5, <1>7
  <1> QED BY <1>6, <1>7

\* Inside a frame, the device's or another, nothing is taken for a header.
LEMMA InsideCounts ==
  ASSUME ImuTypeOK, ParserInv, Byte, own \/ nbyte > 0
  PROVE  /\ pos \in Nat /\ pos < Frame /\ lost \in Nat
         /\ pos' = IF pos + 1 = Frame THEN 0 ELSE pos + 1
         /\ intact' = (intact \/ pos' = 0)
         /\ lost' \in {lost, lost + 1}
         /\ lost' # lost => pos + 1 = Frame /\ intact /\ ~Decoded
  <1>1. nbyte # 0
    BY Constants DEF ParserInv, InStep, ImuTypeOK
  <1>2. ~Misled
    BY <1>1 DEF Misled
  <1> QED BY <1>2, ByteCounts

\* Reading the device's frame: the next byte, or the end of both at once.
LEMMA InStepByte ==
  ASSUME ImuTypeOK, Bounded, ParserInv, Byte, own
  PROVE  ParserInv' /\ (own' \/ Decoded)
  <1>1. /\ intact /\ nbyte = pos /\ nbyte \in Nat /\ nbyte >= 2
        /\ nbyte >= Header => len = Payload
    BY DEF ParserInv, InStep, ImuTypeOK
  <1>2. PICK b \in Kinds : Input(b, pos = 1 /\ intact, own)
    BY DEF Byte
  <1>3. InFrame(TRUE)
    <2>1. ~Sync(b, pos = 1 /\ intact)
      BY <1>1 DEF Sync
    <2> QED BY <1>2, <2>1 DEF Input
  <1>4. /\ nbyte' \in {0, nbyte + 1} /\ own' = (nbyte' # 0) /\ len' \in 0..(MaxLen + 1)
        /\ len' = IF nbyte + 1 = Header THEN Payload ELSE len
        /\ nbyte' = 0 <=> nbyte + 1 >= len' + Header
    BY <1>3, InFrameStep
  <1>5. PICK l \in Nat : len' = l
    BY <1>4
  <1>6. l >= 0 /\ (nbyte + 1 >= Header => l = Payload)
    BY <1>1, <1>4, <1>5, Constants
  <1>7. nbyte' = 0 <=> pos + 1 = Frame
    BY <1>1, <1>4, <1>5, <1>6, Constants, InsideCounts
  <1>8. lost' = lost
    <2>1. nbyte + 1 = Frame <=> pos + 1 = Frame
      BY <1>1
    <2> QED BY <2>1, InsideCounts DEF Decoded
  <1>9. intact' = TRUE
    BY <1>1, InsideCounts
  <1>10. Swallowed' /\ Fresh'
    BY <1>8, <1>9 DEF ParserInv, Swallowed, Fresh
  <1>11. ASSUME nbyte' = 0 PROVE ParserInv'
    <2>1. pos' = 0 /\ own' = FALSE
      BY <1>4, <1>7, <1>11, InsideCounts
    <2> QED BY <1>10, <1>11, <2>1, Constants DEF ParserInv, InStep, Strayed, Searching, Doomed
  <1>12. ASSUME nbyte' = nbyte + 1 PROVE ParserInv'
    <2>1. nbyte' # 0 /\ nbyte' >= 2
      BY <1>1, <1>12
    <2>2. pos' = pos + 1
      BY <1>7, <2>1, InsideCounts
    <2>3. nbyte' >= Header => len' = Payload
      BY <1>5, <1>6, <1>12
    <2>4. InStep'
      BY <1>1, <1>9, <1>12, <2>1, <2>2, <2>3 DEF InStep
    <2>5. Strayed' /\ Searching'
      BY <1>4, <2>1 DEF Strayed, Searching, Doomed
    <2> QED BY <1>10, <2>4, <2>5 DEF ParserInv
  <1>13. own' \/ Decoded
    <2>1. nbyte' = 0 => nbyte + 1 = Frame
      BY <1>1, <1>7
    <2> QED BY <2>1, <1>4 DEF Decoded
  <1> QED BY <1>4, <1>11, <1>12, <1>13

\* Reading a wrong frame: each byte of the device is one of that frame's.
LEMMA StrayedByte ==
  ASSUME ImuTypeOK, Bounded, ParserInv, Byte, ~own, nbyte > 0
  PROVE  ParserInv'
  <1>1. /\ nbyte \in Nat /\ nbyte >= 2
        /\ lost * Frame + Come + 2 <= nbyte
        /\ lost \in Nat
    BY Constants DEF ParserInv, Strayed, ImuTypeOK, Bounded
  <1>2. PICK b \in Kinds : Input(b, pos = 1 /\ intact, FALSE)
    <2>1. own = FALSE
      BY DEF ImuTypeOK
    <2> QED BY <2>1 DEF Byte
  <1>3. InFrame(FALSE)
    <2>1. ~Sync(b, pos = 1 /\ intact)
      BY <1>1 DEF Sync
    <2> QED BY <1>2, <2>1 DEF Input
  <1>4. /\ nbyte' \in {0, nbyte + 1} /\ own' = FALSE /\ prev' = "sync2"
        /\ nbyte + 1 <= Header + MaxLen
    BY <1>3, InFrameStep
  <1>5. /\ lost' * Frame \in Nat /\ Come' \in Nat
        /\ lost' * Frame + Come' + 2 <= nbyte + 1
        /\ ~intact' => lost' = 0
    <2>1. CASE ~intact
      <3>1. lost = 0 /\ lost' = 0
        BY <2>1, InsideCounts DEF ParserInv, Fresh
      <3>2. Come' = 0
        BY <2>1, InsideCounts DEF Come
      <3> QED BY <3>1, <3>2, <1>1, Multiples
    <2>2. CASE intact /\ pos + 1 = Frame
      <3>1. Come = pos /\ Come' = 0 /\ intact'
        BY <2>2, InsideCounts DEF Come
      <3>2. lost * Frame \in Nat /\ (lost + 1) * Frame = lost * Frame + Frame
        BY <1>1, Multiples
      <3>3. CASE lost' = lost
        BY <3>1, <3>2, <3>3, <1>1, InsideCounts
      <3>4. CASE lost' = lost + 1
        BY <3>1, <3>2, <3>4, <2>2, <1>1, InsideCounts, Constants
      <3> QED BY <3>3, <3>4, InsideCounts
    <2>3. CASE intact /\ pos + 1 # Frame
      <3>1. Come = pos /\ Come' = pos + 1 /\ intact' /\ lost' = lost
        BY <2>3, InsideCounts DEF Come
      <3>2. lost * Frame \in Nat /\ pos \in Nat
        BY <1>1, Multiples, InsideCounts
      <3> QED BY <3>1, <3>2, <1>1
    <2> QED BY <2>1, <2>2, <2>3
  <1>6. PICK k \in Nat : k = lost' * Frame
    BY <1>5
  <1>7. PICK c \in Nat : Come' = c
    BY <1>5
  <1>8. k + c + 2 <= nbyte + 1
    BY <1>5, <1>6, <1>7
  <1>9. InStep' /\ Fresh'
    BY <1>4, <1>5 DEF InStep, Fresh
  <1>10. Swallowed'
    <2>1. k <= 3 + MaxLen + Frame
      BY <1>8, <1>4, <1>1, Constants
    <2> QED BY <2>1, <1>6 DEF Swallowed
  <1>11. Strayed'
    <2>1. nbyte' > 0 => nbyte' = nbyte + 1
      BY <1>4
    <2> QED BY <2>1, <1>5 DEF Strayed
  <1>12. Searching'
    <2>1. ASSUME Doomed' PROVE lost' * Frame <= 3 + MaxLen
      <3>1. Come' = pos' /\ pos' > 0
        BY <2>1 DEF Doomed, Come
      <3>2. c > 0
        BY <3>1, <1>7
      <3>3. k <= 3 + MaxLen
        BY <3>2, <1>8, <1>4, <1>1, Constants
      <3> QED BY <3>3, <1>6
    <2> QED BY <2>1, <1>4 DEF Searching
  <1> QED BY <1>9, <1>10, <1>11, <1>12 DEF ParserInv

\* Searching: the frame in progress is lost, unless its first byte was the last
\* or it holds the next wrong header.
LEMMA SearchingByte ==
  ASSUME ImuTypeOK, Bounded, ParserInv, Byte, nbyte = 0
  PROVE  ParserInv'
  <1>1. PICK b \in Kinds :
          /\ NextByte(b)
          /\ Input(b, pos = 1 /\ intact, own)
    BY DEF Byte
  <1>2. Sync(b, pos = 1 /\ intact)
    <2>1. ~InFrame(own)
      BY DEF InFrame
    <2> QED BY <1>1, <2>1 DEF Input
  <1>3. /\ prev' = b
        /\ nbyte' = IF prev = "sync1" /\ b = "sync2" THEN 2 ELSE 0
        /\ own' = (nbyte' = 2 /\ pos = 1 /\ intact)
    BY <1>2 DEF Sync
  <1>4. own' \in BOOLEAN /\ intact \in BOOLEAN
    BY <1>3 DEF ImuTypeOK
  <1>5. lost \in Nat /\ lost * Frame \in Nat /\ (lost + 1) * Frame = lost * Frame + Frame
    BY Multiples, ByteCounts
  <1>6. CASE nbyte' = 2 /\ ~own'
    <2>1. Misled
      BY <1>6 DEF Misled
    <2>2. own' = FALSE
      BY <1>6, <1>4
    <2>3. lost' = 0 /\ (intact' => pos' = 0)
      BY <2>1, ByteCounts
    <2>4. nbyte' \in Nat /\ nbyte' # 1
      BY <1>6
    <2> QED BY <2>2, <2>3, <2>4, Fault
  <1>7. CASE nbyte' = 2 /\ own'
    <2>1. pos = 1 /\ intact
      BY <1>3, <1>7
    <2>2. ~Misled
      BY <1>7 DEF Misled
    <2>3. pos' = 2 /\ intact' = TRUE /\ lost' = lost
      <3>1. pos + 1 # Frame
        BY <2>1, Constants
      <3>2. pos' = 2 /\ lost' = lost
        BY <2>1, <2>2, <3>1, ByteCounts
      <3>3. intact' = TRUE
        BY <2>1, <2>2, <1>4, ByteCounts
      <3> QED BY <3>2, <3>3
    <2>4. Swallowed' /\ Fresh'
      BY <2>3 DEF ParserInv, Swallowed, Fresh
    <2> QED BY <1>7, <2>3, <2>4, Constants DEF ParserInv, InStep, Strayed, Searching, Doomed
  <1>8. CASE nbyte' = 0
    <2>1. own' = FALSE /\ ~Misled
      <3>1. nbyte' # 2
        BY <1>8
      <3> QED BY <3>1, <1>3, <1>4 DEF Misled
    <2>2. CASE ~intact
      <3>1. lost' = 0 /\ (intact' => pos' = 0)
        BY <2>1, <2>2, ByteCounts DEF ParserInv, Fresh
      <3>2. nbyte' \in Nat /\ nbyte' # 1
        BY <1>8
      <3> QED BY <2>1, <3>1, <3>2, Fault
    <2>3. CASE intact /\ pos = 0
      <3>1. b = "sync1"
        BY <1>1, <2>3 DEF NextByte
      <3>2. pos + 1 # Frame
        BY <2>3, Constants
      <3>3. pos' = 1 /\ lost' = lost
        BY <2>1, <2>3, <3>2, ByteCounts
      <3>4. intact' = TRUE
        BY <2>1, <2>3, <1>4, ByteCounts
      <3>5. Swallowed'
        BY <3>3 DEF ParserInv, Swallowed
      <3> QED BY <1>3, <1>8, <2>1, <3>1, <3>3, <3>4, <3>5
              DEF ParserInv, InStep, Strayed, Searching, Doomed, Fresh
    <2>4. CASE intact /\ pos > 0
      <3>1. pos = 1 => b = "sync2"
        BY <1>1 DEF NextByte
      <3>2. ~(pos = 1 /\ prev = "sync1")
        BY <3>1, <1>3, <1>8
      <3>3. lost * Frame <= 3 + MaxLen
        BY <2>4, <3>2 DEF ParserInv, Searching, Doomed
      <3>4. intact' = TRUE
        BY <2>1, <2>4, <1>4, ByteCounts
      <3>5. Swallowed'
        <4>1. CASE lost' = lost
          BY <4>1 DEF ParserInv, Swallowed
        <4>2. CASE lost' = lost + 1
          BY <4>2, <3>3, <1>5, Constants DEF Swallowed
        <4> QED BY <4>1, <4>2, <2>1, ByteCounts
      <3>6. Searching'
        <4>1. CASE pos + 1 = Frame
          <5>1. pos' = 0
            BY <4>1, ByteCounts
          <5> QED BY <5>1 DEF Searching, Doomed
        <4>2. CASE pos + 1 # Frame
          <5>1. lost' = lost
            BY <2>1, <4>2, ByteCounts
          <5> QED BY <5>1, <3>3 DEF Searching
        <4> QED BY <4>1, <4>2
      <3> QED BY <1>8, <2>1, <3>4, <3>5, <3>6 DEF ParserInv, InStep, Strayed, Fresh
    <2> QED BY <2>2, <2>3, <2>4, ByteCounts
  <1> QED BY <1>3, <1>6, <1>7, <1>8

LEMMA ParserStep == ImuTypeOK /\ Bounded /\ ParserInv /\ [ImuNext]_imuVars => ParserInv'
  <1> SUFFICES ASSUME ImuTypeOK, Bounded, ParserInv, [ImuNext]_imuVars PROVE ParserInv'
    OBVIOUS
  <1>1. CASE Byte
    <2>1. nbyte \in Nat
      BY Constants DEF ImuTypeOK
    <2>2. nbyte = 0 \/ nbyte > 0
      BY <2>1
    <2> QED BY <1>1, <2>2, InStepByte, StrayedByte, SearchingByte
  <1>2. nbyte' \in Nat /\ nbyte' # 1
    BY TypeStep, Constants DEF ImuTypeOK, Bounded
  <1>3. CASE LoseByte
    <2>1. lost' = 0 /\ own' = FALSE /\ (intact' => pos' = 0)
      BY <1>3 DEF LoseByte
    <2> QED BY <1>2, <2>1, Fault
  <1>4. CASE StrayByte
    <2>1. PICK b \in Kinds : Input(b, FALSE, FALSE)
      BY <1>4 DEF StrayByte
    <2>2. own' = FALSE
      <3>1. CASE Sync(b, FALSE)
        BY <3>1 DEF Sync
      <3>2. CASE InFrame(FALSE)
        BY <3>2 DEF InFrame
      <3> QED BY <2>1, <3>1, <3>2 DEF Input
    <2>3. lost' = 0 /\ (intact' => pos' = 0)
      BY <1>4 DEF StrayByte
    <2> QED BY <1>2, <2>2, <2>3, Fault
  <1>5. CASE UNCHANGED imuVars
    BY <1>5 DEF imuVars, ParserInv, InStep, Strayed, Come, Searching, Doomed, Fresh, Swallowed
  <1> QED BY <1>1, <1>3, <1>4, <1>5 DEF ImuNext

\* However the line loses or inserts bytes and whatever the frames hold, no more
\* frames are lost in a row than one wrong header can swallow, until the parser
\* has the device's frames or takes the next wrong header: ch_serial_input never
\* keeps reading in the wrong place.
THEOREM ResyncsSoonHolds == ImuSpec => []ResyncsSoon
  <1>1. ImuTypeOK /\ ParserInv => ResyncsSoon
    BY SwallowedBounds, Constants DEF ImuTypeOK, ParserInv, Swallowed, ResyncsSoon
  <1> QED BY <1>1, TypeInit, TypeStep, ParserInit, ParserStep, PTL DEF ImuSpec

\* A parser that reads the device's frames goes on reading them whatever they
\* hold: ch_serial_input looks for the sync bytes between frames only.
THEOREM StaysInStepHolds == ImuSpec => StaysInStep
  <1>1. ImuTypeOK /\ Bounded /\ ParserInv /\ [ImuNext]_imuVars
          => [own /\ Byte => own' \/ Decoded]_imuVars
    BY InStepByte
  <1> QED BY <1>1, TypeInit, TypeStep, ParserInit, ParserStep, PTL DEF ImuSpec, StaysInStep
==============================================================================
