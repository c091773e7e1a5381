--------------------------- MODULE MCNmeaFraming ----------------------------
(***************************************************************************)
(* NmeaFraming for TLC: short sentences, of which two fill the buffer; and   *)
(* the operators of NmeaFields against what they are meant to compute.       *)
(***************************************************************************)
EXTENDS NmeaFraming, NmeaFields

const_Short == [k \in 1 .. 7 |-> 4 * k]

TextsUpTo(n, alphabet) == UNION {[1 .. k -> alphabet] : k \in 0 .. n}

-----------------------------------------------------------------------------
(* What the commas of a text separate, the text taken as a whole.           *)
Pieces(text) ==
    LET commas == SetToSortSeq({i \in DOMAIN text : text[i] = DELIMITER}, <)
        ends == <<0>> \o commas \o <<Len(text) + 1>>
    IN  [k \in 1 .. Len(ends) - 1 |-> SubSeq(text, ends[k] + 1, ends[k + 1] - 1)]

\* The fields found are the pieces, as many as were asked for, with two
\* exceptions: an empty text has no field, and a blank piece behind the last
\* comma is found even when one more than was asked for (nmea-parser.c:49-94).
ASSUME SplitFindsThePieces ==
    \A text \in TextsUpTo(6, {DELIMITER, Letter}), room \in 1 .. 4 :
        LET pieces == Pieces(text)
            oneMore == Len(pieces) = room + 1 /\ Last(pieces) = << >>
        IN  split_sentence(text, room) =
                IF text = << >> THEN << >>
                ELSE IF oneMore THEN pieces
                ELSE SubSeq(pieces, 1, IF Len(pieces) < room THEN Len(pieces) ELSE room)

\* A GSV sentence that is taken has every field its parser reads, however many
\* satellites it lists (nmea-parser.c:304-338).
ASSUME GsvReadsWhatIsThere ==
    \A field_count \in 0 .. Wanted.GPGSV + 1 :
        parse_gsv(field_count) => GsvReads(field_count) \subseteq 0 .. field_count - 1

\* Blank fields count: a GGA sentence of nothing but commas is as long as a
\* full one and is taken, a GSV sentence that is cut behind a satellite's
\* number is not (nmea-parser.c:304, 470).
ASSUME BlankFieldsCount ==
    /\ parse_tag("GPGGA", [i \in 1 .. Wanted.GPGGA - 1 |-> DELIMITER])
    /\ ~parse_tag("GPGGA", [i \in 1 .. Wanted.GPGGA - 2 |-> DELIMITER])
    /\ ~parse_tag("GPGSV", <<1, DELIMITER, 1, DELIMITER, 1, DELIMITER, 7>>)
    /\ parse_tag("GPGSV", <<1, DELIMITER, 1, DELIMITER, 0>>)

\* A sentence without a sum, or with a wrong one, is refused, and a tag that is
\* not known is no error (nmea-parser.c:592-690).
ASSUME OnlySoundSentences ==
    \A start \in {"$", "x"}, checksum \in {"none", "right", "wrong"}, comma \in BOOLEAN,
       tag \in Tags \cup {"GPGLL"} :
        nmea_parse_sentence([start |-> start, checksum |-> checksum,
                             comma |-> comma, tag |-> tag, data |-> << >>])
            <=> start = "$" /\ checksum = "right" /\ comma /\ tag = "GPGLL"

-----------------------------------------------------------------------------
Digit(n, place) == (n \div place) % 10

\* An angle as a receiver writes it: degrees, minutes, a point, hundredths.
Written(degrees, hundredths, width) ==
    (IF width = 3 THEN <<Digit(degrees, 100)>> ELSE << >>)
        \o <<Digit(degrees, 10), Digit(degrees, 1),
             Digit(hundredths, 1000), Digit(hundredths, 100), Point,
             Digit(hundredths, 10), Digit(hundredths, 1)>>

Minutes == {0, 1, 99, 100, 999, 1000, 3000, 5999}

\* What is written is read back, on both sides of the equator and of Greenwich
\* (nmea-parser.c:88-160).
ASSUME AnglesAreReadBack ==
    /\ \A degrees \in 0 .. 89, minutes \in Minutes :
          /\ calculate_latitude(Written(degrees, minutes, 2), "N") = 6000 * degrees + minutes
          /\ calculate_latitude(Written(degrees, minutes, 2), "S") = -(6000 * degrees + minutes)
    /\ \A degrees \in 0 .. 179, minutes \in Minutes :
          /\ calculate_longitude(Written(degrees, minutes, 3), "E") = 6000 * degrees + minutes
          /\ calculate_longitude(Written(degrees, minutes, 3), "W") = -(6000 * degrees + minutes)

\* A field is known exactly when it starts the way it has to: a blank one never
\* is, and a longitude takes one digit more than a latitude
\* (nmea-parser.c:96-108, 129-147, 162-205).
ASSUME BlankIsNotSet ==
    \A text \in TextsUpTo(4, {0, 9, Point, Letter}) :
        LET digits(n) == Len(text) >= n /\ \A i \in 1 .. n : IsDigit(text[i])
            number == digits(1) \/ (Len(text) > 1 /\ text[1] = Point /\ IsDigit(text[2]))
        IN  /\ (calculate_latitude(text, "N") # NotSet) <=> digits(2)
            /\ (calculate_longitude(text, "E") # NotSet) <=> digits(3)
            /\ (calculate_altitude(text) # NotSet) <=> number
            /\ (calculate_speed(text) # NotSet) <=> number
            /\ (calculate_direction(text) # NotSet) <=> number
=============================================================================
