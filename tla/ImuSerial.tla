----------------------------- MODULE ImuSerial -----------------------------
(***************************************************************************)
(* The frame parser of the IMU driver (ch_serial.c in serial_imu), byte by *)
(* byte on a line that may lose, change or insert bytes.  A frame is two   *)
(* sync bytes, a length, a checksum and a payload.  A byte is abstracted   *)
(* to whether it is one of the sync bytes; a length is any when it is read *)
(* from the wrong place; a checksum is right when the frame is read from   *)
(* its first byte and the line did nothing to it.  The device is external. *)
(***************************************************************************)
EXTENDS Integers

CONSTANTS
  Payload,  \* length of the device's payload (76 for an IMUSOL packet)
  MaxLen    \* MAXRAWLEN - CH_HDR_SIZE (506)

ASSUME PayloadAssumption == Payload \in Nat \ {0}
ASSUME MaxLenAssumption == MaxLen \in Nat /\ Payload <= MaxLen

Header == 6  \* CH_HDR_SIZE
Frame == Header + Payload
Kinds == {"sync1", "sync2", "other"}
\* Frames that one wrong header can swallow: four bytes of it and its payload.
MaxSwallowed == (4 + MaxLen + Frame - 1) \div Frame

VARIABLES
  pos,     \* bytes of the present frame that the device has sent
  intact,  \* since the present frame began the line has done nothing to it,
           \* and the parser has taken nothing in it for a header
  nbyte,   \* raw->nbyte
  prev,    \* raw->buf[1] while nbyte = 0
  len,     \* raw->len
  own,     \* the parser reads the present frame, from its first byte on
  lost     \* history: frames sent whole and not decoded since the line's last
           \* fault and the parser's last wrong header

imuVars == <<pos, intact, nbyte, prev, len, own, lost>>

ImuTypeOK ==
  /\ pos \in 0..(Frame - 1) /\ intact \in BOOLEAN
  /\ nbyte \in 0..(Header + MaxLen) /\ prev \in Kinds /\ len \in 0..(MaxLen + 1)
  /\ own \in BOOLEAN
  /\ lost \in 0..(MaxSwallowed + 1)

ImuInit ==
  /\ pos = 0 /\ intact = TRUE
  /\ nbyte = 0 /\ prev = "other" /\ len = 0
  /\ own = FALSE /\ lost = 0

-----------------------------------------------------------------------------
\* ch_serial_input

\* sync_ch: the last two bytes are compared.
Sync(byte, first) ==
  /\ nbyte = 0
  /\ prev' = byte
  /\ nbyte' = IF prev = "sync1" /\ byte = "sync2" THEN 2 ELSE 0
  /\ own' = (nbyte' = 2 /\ first)
  /\ UNCHANGED len

\* Mutant of TooLong: the length is not compared with the buffer's.
LengthUnchecked(l) == FALSE

\* A length the buffer has no room for: the search begins again.
TooLong(l) == l > MaxLen

\* Mutant of InFrame: the two sync bytes begin a frame wherever they come.
InFrameResyncs(good) ==
  /\ nbyte > 0
  /\ len' \in IF nbyte + 1 # Header THEN {len} ELSE IF good THEN {Payload} ELSE 0..(MaxLen + 1)
  /\ LET n == nbyte + 1
         done == (n = Header /\ TooLong(len')) \/ n >= len' + Header IN
     /\ nbyte' \in IF done THEN {0} ELSE {n, 2}
     /\ own' = (good /\ nbyte' = n)
  /\ prev' = "sync2"

\* The next byte of a frame; the sixth completes its length.  buf[1], the second
\* sync byte, is what the search for the next frame begins with.
InFrame(good) ==
  /\ nbyte > 0
  /\ len' \in IF nbyte + 1 # Header THEN {len} ELSE IF good THEN {Payload} ELSE 0..(MaxLen + 1)
  /\ LET n == nbyte + 1
         done == (n = Header /\ TooLong(len')) \/ n >= len' + Header IN
     /\ nbyte' = IF done THEN 0 ELSE n
     /\ own' = (good /\ ~done)
  /\ prev' = "sync2"

\* The byte goes into the parser.  first: it is the second of an intact frame;
\* good: it is the next byte of the frame the parser reads.
Input(byte, first, good) == Sync(byte, first) \/ InFrame(good)

-----------------------------------------------------------------------------
\* The line

\* What the device sends next.  Checksum and payload are sent as they are, so
\* the two sync bytes may come in them too.
NextByte(b) ==
  /\ pos = 0 => b = "sync1"
  /\ pos = 1 => b = "sync2"

\* Decoded: this byte completes the frame and the parser was reading it.
Decoded == own /\ nbyte + 1 = Frame

\* This byte has made the searching parser take something else for a header.
Misled == nbyte = 0 /\ nbyte' = 2 /\ ~own'

\* The device's next byte arrives.
Byte ==
  \E b \in Kinds :
    /\ NextByte(b)
    /\ Input(b, pos = 1 /\ intact, own)
    /\ pos' = (pos + 1) % Frame
    /\ intact' = ((intact /\ ~Misled) \/ pos' = 0)
    /\ lost' = IF Misled THEN 0
               ELSE IF pos' = 0 /\ intact /\ ~Decoded /\ lost <= MaxSwallowed
                      THEN lost + 1 ELSE lost

\* The device's next byte gets lost.
LoseByte ==
  /\ pos' = (pos + 1) % Frame
  /\ intact' = (pos' = 0)
  /\ own' = FALSE
  /\ lost' = 0
  /\ UNCHANGED <<nbyte, prev, len>>

\* A byte comes that the device did not send.
StrayByte ==
  \E b \in Kinds :
    /\ Input(b, FALSE, FALSE)
    /\ intact' = (pos = 0)
    /\ lost' = 0
    /\ UNCHANGED pos

ImuNext == Byte \/ LoseByte \/ StrayByte

ImuSpec == ImuInit /\ [][ImuNext]_imuVars

-----------------------------------------------------------------------------
\* A parser that reads the device's frames goes on decoding them one after the
\* other, whatever they hold: only a fault of the line takes it out of step.
StaysInStep == [][own /\ Byte => own' \/ Decoded]_imuVars

\* Out of step it loses no more whole frames than one wrong header can swallow,
\* whatever length that header holds and wherever in a frame it ends, until it
\* has found the device's frames or takes the next wrong header.  How often the
\* sync bytes in a payload mislead it again nothing in the protocol bounds.
ResyncsSoon == lost <= MaxSwallowed
=============================================================================
