----------------------------- MODULE NmeaFields -----------------------------
(***************************************************************************)
(* How nmea-parser.c takes a sentence apart: the checks before a parser is  *)
(* chosen, the split at the commas, the number of fields each parser asks   *)
(* for, and the conversion of the fields of a position and a course.        *)
(*                                                                          *)
(* A text is a sequence of characters: the digits 0 .. 9 stand for           *)
(* themselves.  Numbers are read to two places and counted in hundredths,    *)
(* angles in hundredths of a minute.  Signs and exponents, which strtod      *)
(* knows, are left out.                                                      *)
(***************************************************************************)
EXTENDS Integers, Sequences, SequencesExt

DELIMITER == -1
Point == -2
Letter == -3    \* any other character
IsDigit(c) == c \in 0 .. 9

NoDigit == {DELIMITER, Point, Letter}

\* The first place from b on of one of the characters, else the end of the text.
FirstFrom(text, b, characters) ==
    CHOOSE e \in b .. Len(text) + 1 :
        /\ e = Len(text) + 1 \/ text[e] \in characters
        /\ \A i \in b .. e - 1 : text[i] \notin characters

\* The fields of a text from place b on, found from left to right, where there is
\* room for so many.  A blank field is seen only between two commas or, as an extra
\* step, behind the last one; the extra step does not ask whether there is room.
FieldsFrom(text) ==
    LET n == Len(text)
        fields[room \in Nat] ==
            [b \in 1 .. n + 1 |->
                LET end == FirstFrom(text, b, {DELIMITER})
                    field == << SubSeq(text, b, end - 1) >>
                IN  IF b = n + 1 \/ room = 0 THEN << >>
                    ELSE field \o (CASE end = n + 1 -> << >>
                                     [] end = n -> << << >> >>
                                     [] OTHER -> fields[room - 1][end + 1])]
    IN  fields

split_sentence(text, num_fields) == FieldsFrom(text)[num_fields][1]

-----------------------------------------------------------------------------
(* The parsers.                                                             *)

Wanted == [GPRMC |-> 11, GPGGA |-> 14, GPGSA |-> 17, GPGSV |-> 19]
Tags == DOMAIN Wanted

\* Does the parser go on with this many fields?  C's remainder is negative for
\* fewer than three, and then no more zero than this one.
parse_gsv(field_count) == (field_count - 3) % 4 = 0
parse_gsa(field_count) == field_count >= Wanted.GPGSA
parse_gga(field_count) == field_count >= Wanted.GPGGA
parse_rmc(field_count) == field_count >= Wanted.GPRMC

GSV_FIRST_SAT == 3
GSV_LAST_SAT == 15

\* The fields a parser reads, numbered as in the code.
GsvReads(field_count) ==
    {0, 1} \cup UNION {i .. i + 3 : i \in {j \in GSV_FIRST_SAT .. GSV_LAST_SAT :
                          (j - GSV_FIRST_SAT) % 4 = 0 /\ j < field_count}}

\* A sentence with a tag no parser is for is not an error.
parse_tag(tag, data) ==
    tag \in Tags =>
        LET field_count == Len(split_sentence(data, Wanted[tag]))
        IN  CASE tag = "GPGSV" -> parse_gsv(field_count)
              [] tag = "GPGSA" -> parse_gsa(field_count)
              [] tag = "GPGGA" -> parse_gga(field_count)
              [] tag = "GPRMC" -> parse_rmc(field_count)

\* The sum behind the * is that of what stands in front of it; a sentence
\* without one is refused.
check_checksum(sentence) == sentence.checksum = "right"

\* A sentence: its first character, its checksum ("right", "wrong", "none"),
\* whether it has a comma, its tag and the rest.
nmea_parse_sentence(sentence) ==
    /\ sentence.start = "$"
    /\ check_checksum(sentence)
    /\ sentence.comma
    /\ parse_tag(sentence.tag, sentence.data)

-----------------------------------------------------------------------------
(* Numbers.                                                                 *)

NotSet == -10000000    \* no field holds this number

Number(digits) == FoldLeft(LAMBDA n, d : 10 * n + d, 0, digits)

\* What strtod makes of the text: the longest number it starts with, or
\* nothing.
Strtod(text) ==
    LET point == FirstFrom(text, 1, NoDigit)
        hasPoint == point <= Len(text) /\ text[point] = Point
        end == IF hasPoint THEN FirstFrom(text, point + 1, NoDigit)
                           ELSE point
        places == IF hasPoint THEN SubSeq(text, point + 1, end - 1) ELSE << >>
    IN  IF point = 1 /\ places = << >> THEN NotSet
        ELSE 100 * Number(SubSeq(text, 1, point - 1))
                 + Number(SubSeq(places \o <<0, 0>>, 1, 2))

\* As many digits of degrees as the field has, then minutes, if any.
Angle(value, width, negative) ==
    LET rest == SubSeq(value, width + 1, Len(value))
        minutes == IF Strtod(rest) = NotSet THEN 0 ELSE Strtod(rest)
        angle == 6000 * Number(SubSeq(value, 1, width)) + minutes
    IN  IF \E i \in 1 .. width : i > Len(value) \/ ~IsDigit(value[i]) THEN NotSet
        ELSE IF negative THEN -angle ELSE angle

calculate_latitude(value, direction) == Angle(value, 2, direction = "S")
calculate_longitude(value, direction) == Angle(value, 3, direction = "W")

calculate_altitude(value) == Strtod(value)
calculate_speed(value) == Strtod(value)
calculate_direction(value) == Strtod(value)
=============================================================================
