---------------------------- MODULE NmeaFraming -----------------------------
(***************************************************************************)
(* The NMEA parser object cuts the bytes of the device into sentences        *)
(* (src/src/gypsy-nmea-parser.c).  Bytes come in chunks of any size, are     *)
(* appended to a buffer, and each sentence that ends in CR is handed to      *)
(* nmea_parse_sentence and moved out of the buffer.  The buffer is modelled  *)
(* byte by byte, what lies behind the terminating NUL included: that is what *)
(* the moves get wrong.                                                     *)
(***************************************************************************)
EXTENDS Integers, Sequences

CONSTANTS
    Ends,               \* where in the stream each sentence sent ends
    READ_BUFFER_SIZE,
    MaxNoise,           \* bound: bytes lost on the line, at most one burst to a read
    MaxSplits           \* bound: reads that end between a CR and its LF

EndOf(k) == IF k = 0 THEN 0 ELSE Ends[k]
Span(k) == EndOf(k) - EndOf(k - 1)

\* A sentence has a body, and fits into the buffer.
ASSUME FramingAssumption ==
    /\ Ends \in Seq(Nat)
    /\ \A j, k \in DOMAIN Ends : j < k => Ends[j] < Ends[k]
    /\ READ_BUFFER_SIZE \in Nat
    /\ \A k \in DOMAIN Ends : Span(k) \in 4 .. READ_BUFFER_SIZE
    /\ MaxNoise \in Nat
    /\ MaxSplits \in Nat

NUL == 0
CR == -1
LF == -2
Dollar == -3

SentenceAt(p) == CHOOSE k \in DOMAIN Ends : EndOf(k - 1) < p /\ p <= EndOf(k)

\* Sentence k is a dollar sign, a body with its checksum, which is bytes k, and a
\* line end.
ByteOf(k, p) ==
    IF p = EndOf(k - 1) + 1 THEN Dollar
    ELSE IF p = EndOf(k) - 1 THEN CR
    ELSE IF p = EndOf(k) THEN LF
    ELSE k

Stream == [p \in 1 .. EndOf(Len(Ends)) |-> ByteOf(SentenceAt(p), p)]
Bytes == {NUL, CR, LF, Dollar} \cup DOMAIN Ends

VARIABLES
    pos,              \* bytes of the stream that left the device
    noise,            \* bytes lost so far
    splits,           \* reads that ended behind a CR so far
    fault,            \* history: the end of the last read that was disturbed
    buffer,
    chars_in_buffer,  \* -1 is the gsize 0 - 1
    parsed,           \* the sentences that passed nmea_parse_sentence
    crashed           \* memmove was called with a size wrapped around

vars == <<pos, noise, splits, fault, buffer, chars_in_buffer, parsed, crashed>>

\* The variables keep their types: in particular no read goes past the buffer,
\* and only the first step on a stale CR takes the count below zero.
TypeOK ==
    /\ pos \in 0 .. Len(Stream)
    /\ noise \in 0 .. MaxNoise
    /\ splits \in 0 .. MaxSplits
    /\ fault \in 0 .. pos
    /\ buffer \in [0 .. READ_BUFFER_SIZE -> Bytes]
    /\ chars_in_buffer \in -1 .. READ_BUFFER_SIZE
    /\ parsed \in Seq(DOMAIN Ends)
    /\ crashed \in BOOLEAN

Init ==
    /\ pos = 0
    /\ noise = 0
    /\ splits = 0
    /\ fault = 0
    /\ buffer = [i \in 0 .. READ_BUFFER_SIZE |-> NUL]
    /\ chars_in_buffer = 0
    /\ parsed = << >>
    /\ crashed = FALSE

-----------------------------------------------------------------------------
\* strchr (buffer, '\r'): the CRs in front of the first NUL.
Crs == {i \in 0 .. READ_BUFFER_SIZE :
          buffer[i] = CR /\ \A j \in 0 .. i : buffer[j] # NUL}

Eos == CHOOSE i \in Crs : \A j \in Crs : i <= j

-----------------------------------------------------------------------------
(* gypsy_nmea_parser_get_buffer, the read, and the head of received_data.    *)

\* A full buffer is given up, and so is a count that wrapped around.
ReadAt == IF chars_in_buffer \in 0 .. READ_BUFFER_SIZE - 1 THEN chars_in_buffer ELSE 0

\* Mutant: the whole buffer counts as free, wherever the next byte goes.
SpaceWhole == READ_BUFFER_SIZE

Space == READ_BUFFER_SIZE - ReadAt

\* Of the bytes of one read, d were lost in front of the g-th; the others are
\* counted from 0.  Here is where in the stream byte i stands.
Place(i, g, d) == pos + 1 + i + (IF i < g THEN 0 ELSE d)

\* Mutant: what is read is not terminated.
FilledOpen(n, g, d) ==
    [i \in 0 .. READ_BUFFER_SIZE |->
       IF i \in ReadAt .. ReadAt + n - 1 THEN Stream[Place(i - ReadAt, g, d)] ELSE buffer[i]]

\* The buffer when n bytes were read into it and terminated.
Filled(n, g, d) ==
    [i \in 0 .. READ_BUFFER_SIZE |->
       IF i \in ReadAt .. ReadAt + n - 1 THEN Stream[Place(i - ReadAt, g, d)]
       ELSE IF i = ReadAt + n THEN NUL
       ELSE buffer[i]]

\* A read of n bytes, in which or in front of which the line lost d in a row.
Read(n, g, d) ==
    LET splitEnd == Stream[pos + n + d] = CR
    IN  /\ ~crashed
        /\ Crs = {}
        /\ n <= Space
        /\ pos + n + d <= Len(Stream)
        /\ noise + d <= MaxNoise
        /\ splitEnd => splits < MaxSplits
        /\ pos' = pos + n + d
        /\ noise' = noise + d
        /\ splits' = IF splitEnd THEN splits + 1 ELSE splits
        /\ fault' = IF splitEnd \/ d > 0 THEN pos + n + d ELSE fault
        /\ buffer' = Filled(n, g, d)
        /\ chars_in_buffer' = ReadAt + n
        /\ UNCHANGED <<parsed, crashed>>

-----------------------------------------------------------------------------
(* The body of the loop in gypsy_nmea_parser_received_data.                  *)

\* Mutant: the line feed is not accounted for.
LengthToCr == Eos + 1

SentenceLength == IF buffer[Eos + 1] = LF THEN Eos + 2 ELSE Eos + 1

Terminated == IF SentenceLength > 1 THEN [buffer EXCEPT ![Eos] = NUL] ELSE buffer

\* The byte at an index; behind the buffer lies the padding of the structure.
At(b, i) == IF i <= READ_BUFFER_SIZE THEN b[i] ELSE NUL

\* The bytes moved to the front, from two behind the CR on.
Moved == (chars_in_buffer - SentenceLength) + 1

\* nmea_parse_sentence accepts what starts with a dollar sign and has a
\* checksum that fits.
Accepted ==
    {k \in DOMAIN Ends :
        /\ Eos = Span(k) - 2
        /\ \A i \in 0 .. Eos - 1 : buffer[i] = Stream[EndOf(k - 1) + 1 + i]}

TakeSentence ==
    /\ ~crashed
    /\ Crs # {}
    /\ parsed' = IF Accepted = {} THEN parsed
                 ELSE Append(parsed, CHOOSE k \in Accepted : TRUE)
    /\ IF Moved < 0
         THEN /\ crashed' = TRUE
              /\ UNCHANGED <<buffer, chars_in_buffer>>
         ELSE /\ buffer' = [i \in 0 .. READ_BUFFER_SIZE |->
                              IF i < Moved THEN At(Terminated, i + Eos + 2)
                              ELSE Terminated[i]]
              /\ chars_in_buffer' = chars_in_buffer - SentenceLength
              /\ UNCHANGED crashed
    /\ UNCHANGED <<pos, noise, splits, fault>>

-----------------------------------------------------------------------------
\* Where nothing is lost there is one way to read n bytes.
Reads ==
    \E n \in 1 .. READ_BUFFER_SIZE, d \in 0 .. MaxNoise :
        \E g \in 0 .. n - 1 : (d = 0 => g = 0) /\ Read(n, g, d)

Next == Reads \/ TakeSentence

Spec == Init /\ [][Next]_vars

-----------------------------------------------------------------------------
\* The sentences whose last byte has left the device.
Complete == {k \in DOMAIN Ends : EndOf(k) <= pos}

\* On a line that loses nothing, the sentences that have come in are parsed, each
\* once and in their order.
Parsed == (noise = 0 /\ Crs = {}) => parsed = [k \in Complete |-> k]

\* "NMEA sentences end with <CR><LF>": whatever the chunks, as long as none ends
\* between the two, the sentences of a line that loses nothing are all parsed.
ParsedAll == splits = 0 => Parsed

\* "So we never run off the end": the CR that is found lies in front of the
\* end of the data, bytes lost or not, if no read ended behind a CR.
NeverRunsOff == (splits = 0 /\ Crs # {}) => Eos < chars_in_buffer

\* The size that is handed to memmove wraps around (line 136), which ends the
\* daemon, only where a read has ended between a CR and its LF, and before
\* anything else is read.
CrashFollowsSplit == crashed => splits > 0 /\ pos = fault

\* A read is disturbed when bytes are missing in it or when it ends behind a CR.
\* Either the daemon crashes at once on a line end that was split, and on no
\* other disturbance and no later, or it has got away: then it is deaf no longer
\* than it takes to fill the buffer, and a sentence that begins that much
\* later, or still later, is parsed.
LossIsBounded ==
    /\ CrashFollowsSplit
    /\ (~crashed /\ Crs = {}) => \A k \in Complete :
         EndOf(k - 1) >= fault + READ_BUFFER_SIZE => \E i \in DOMAIN parsed : parsed[i] = k
=============================================================================
