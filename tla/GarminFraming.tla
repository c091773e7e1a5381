---------------------------- MODULE GarminFraming ----------------------------
(***************************************************************************)
(* The Garmin parser object cuts the bytes of a Garmin receiver into packets *)
(* (src/src/gypsy-garmin-parser.c).  A packet is a header, the last of whose *)
(* fields is the size of the data, and the data.  The length of the packet   *)
(* in front is computed once for everything one read brings.                *)
(*                                                                         *)
(* A byte is the pair of its packet and its place in it, so that a header    *)
(* that is looked for in the wrong place shows.                             *)
(***************************************************************************)
EXTENDS Integers, Sequences

CONSTANTS
    Ends,                 \* where in the stream each packet sent ends
    GARMIN_HEADER_SIZE,
    READ_BUFFER_SIZE,
    Misread               \* lengths that bytes other than a header may spell

EndOf(k) == IF k = 0 THEN 0 ELSE Ends[k]

\* The header and mDataSize bytes.
PacketLength(k) == EndOf(k) - EndOf(k - 1)

ASSUME PacketsAssumption ==
    /\ Ends \in Seq(Nat)
    /\ \A j, k \in DOMAIN Ends : j < k => Ends[j] < Ends[k]
    /\ GARMIN_HEADER_SIZE \in Nat \ {0}
    /\ READ_BUFFER_SIZE \in Nat
    /\ \A k \in DOMAIN Ends : PacketLength(k) \in GARMIN_HEADER_SIZE .. READ_BUFFER_SIZE
    /\ Misread \subseteq Nat /\ Misread # {}

PacketAt(p) == CHOOSE k \in DOMAIN Ends : EndOf(k - 1) < p /\ p <= EndOf(k)
Stream == [p \in 1 .. EndOf(Len(Ends)) |-> <<PacketAt(p), p - EndOf(PacketAt(p) - 1)>>]

VARIABLES
    pos,       \* bytes of the stream that were read
    buffer,    \* the bytes_in_buffer first bytes of the buffer
    pktlen,    \* the local variable of received_data
    handled,   \* the packets that were translated
    garbled,   \* something was translated that is no packet
    uneven     \* history: packets of several lengths met in the buffer

vars == <<pos, buffer, pktlen, handled, garbled, uneven>>

\* The variables keep their types: in particular no read goes past the buffer.
TypeOK ==
    /\ pos \in 0 .. Len(Stream)
    /\ buffer \in Seq((DOMAIN Ends) \X (Nat \ {0}))
    /\ Len(buffer) <= READ_BUFFER_SIZE
    /\ pktlen \in Nat
    /\ handled \in Seq(DOMAIN Ends)
    /\ garbled \in BOOLEAN
    /\ uneven \in BOOLEAN

\* The buffer of a new parser is zeroed.
Init ==
    /\ pos = 0
    /\ buffer = << >>
    /\ pktlen = GARMIN_HEADER_SIZE
    /\ handled = << >>
    /\ garbled = FALSE
    /\ uneven = FALSE

-----------------------------------------------------------------------------
\* Mutant: a packet is taken only when nothing came behind it.
ReadyExact ==
    Len(buffer) >= GARMIN_HEADER_SIZE /\ Len(buffer) = pktlen

\* The condition of the loop in received_data.
Ready == Len(buffer) >= GARMIN_HEADER_SIZE /\ Len(buffer) >= pktlen

\* gypsy_garmin_parser_get_buffer.
Space == READ_BUFFER_SIZE - Len(buffer)

\* The lengths the header in front of the buffer may spell.
LengthsIn(bytes) ==
    IF bytes[1][2] = 1 THEN {PacketLength(bytes[1][1])} ELSE Misread

PacketsOf(bytes) == {bytes[i][1] : i \in DOMAIN bytes}

\* A read returns some bytes, received_data is called with them, and computes
\* the length of the packet in front.
Read(n) ==
    /\ ~Ready
    /\ n <= Space
    /\ pos + n <= Len(Stream)
    /\ pos' = pos + n
    /\ buffer' = buffer \o SubSeq(Stream, pos + 1, pos + n)
    /\ pktlen' \in LengthsIn(buffer')
    /\ uneven' = (uneven \/ \E j, k \in PacketsOf(buffer') : PacketLength(j) # PacketLength(k))
    /\ UNCHANGED <<handled, garbled>>

\* Mutant: only the data is moved out, and the header is left.
RestOfData == SubSeq(buffer, pktlen - GARMIN_HEADER_SIZE + 1, Len(buffer))

Rest == SubSeq(buffer, pktlen + 1, Len(buffer))

\* One turn of the loop.  The packet in front is translated for what its header
\* says it is, and as many bytes as pktlen says are moved out.
HandlePacket ==
    /\ Ready
    /\ IF buffer[1][2] = 1 /\ Len(buffer) >= PacketLength(buffer[1][1])
         THEN /\ handled' = Append(handled, buffer[1][1])
              /\ UNCHANGED garbled
         ELSE /\ garbled' = TRUE
              /\ UNCHANGED handled
    /\ buffer' = Rest
    /\ UNCHANGED <<pos, pktlen, uneven>>

-----------------------------------------------------------------------------
ReadSome == \E n \in 1 .. READ_BUFFER_SIZE : Read(n)

Next == ReadSome \/ HandlePacket

Spec == Init /\ [][Next]_vars

\* The receiver sends, and the main loop reads what has arrived.
FairSpec == Spec /\ WF_vars(ReadSome) /\ WF_vars(HandlePacket)

-----------------------------------------------------------------------------
Complete == {k \in DOMAIN Ends : EndOf(k) <= pos}

\* As long as the packets that meet in the buffer are of one length, between
\* two reads exactly the packets that are complete have been translated, in
\* their order, and nothing else has: however they were cut into reads.
HandledInOrder ==
    (~uneven /\ ~Ready) =>
        /\ handled = [k \in Complete |-> k]
        /\ ~garbled

\* In that case every packet is translated in the end: the buffer never fills
\* up with a packet that does not end.
HandlesAll == [](~uneven) => <>(Len(handled) = Len(Ends))
=============================================================================
