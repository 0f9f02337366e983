----------------------------- MODULE TimeStamp -----------------------------
(***************************************************************************)
(* The timestamp of a line: a pattern of the kind of strftime is checked   *)
(* and prepared once; strings of whole minutes are cached and the seconds  *)
(* are written into a copy.                                                *)
(***************************************************************************)
EXTENDS FormatSpec, TextField

CONSTANTS
  Zones,         \* time zones: the offsets from UTC, in minutes, and the months on daylight saving time
  Minutes,       \* minutes since the epoch
  UtcTime,       \* the broken down time of each in UTC ...
  LocalTime,     \* ... and in each zone
  Ticks,         \* the digits of the seconds and nanoseconds within a minute
  TimeFormats,   \* the parts of formats
  StampRooms,    \* what the output has room for
  CacheSize,     \* 7 in the code
  CharIsSigned   \* whether char is signed

VARIABLES
  encoder,  \* the members of encoder_timestamp_mixin and the zone it is in
  asked,    \* the parts of the format
  refused,  \* what init_encoder_timestamp() returned
  stamp     \* the time last written, its text and the error

stampVars == <<encoder, asked, refused, stamp>>

Capacity     == 63   \* of small_string<64>
Percent      == 37
Second       == 83   \* S
OffsetChar   == 122  \* z
Placeholder  == 1    \* where the seconds come
NoSecond     == 255
\* H M S Y a d m y z
Conversions  == {72, 77, 83, 89, 97, 100, 109, 121, 122}
\* "%Y-%m-%d %H:%M:%S %z"
DefaultTimeFormat == <<37, 89, 45, 37, 109, 45, 37, 100, 32, 37, 72, 58, 37, 77, 58, 37, 83, 32, 37, 122>>
DayNames == << <<83, 117, 110>>, <<77, 111, 110>>, <<84, 117, 101>>, <<87, 101, 100>>, <<84, 104, 117>>,
               <<70, 114, 105>>, <<83, 97, 116>> >>

\* The last k digits of n
DigitsOf(n, k) == [i \in 1 .. k |-> Zero + ((n \div 10 ^ (k - i)) % 10)]

-----------------------------------------------------------------------------
\* format_utc_offset_string()
OffsetString(minutes) ==
  LET abs == IF minutes < 0 THEN -minutes ELSE minutes
  IN  <<IF minutes < 0 THEN 45 ELSE 43>> \o DigitsOf(((abs \div 60) * 100) + (abs % 60), 4)

OffsetIn(zone, month) == IF month \in zone.daylightMonths THEN zone.daylight ELSE zone.standard

\* get_utc_offset(): March is asked first, February last, until both offsets
\* are known; a month the system fails for is left out.
GetUtcOffset(zone) ==
  LET FirstOf(S)  == CHOOSE m \in S : \A n \in S : (m + 9) % 12 <= (n + 9) % 12
      known       == (1 .. 12) \ zone.failingMonths
      standard    == known \ zone.daylightMonths
      daylight    == known \cap zone.daylightMonths
      Offset(S, T) == IF S # {} THEN OffsetIn(zone, FirstOf(S))
                      ELSE IF T # {} THEN OffsetIn(zone, FirstOf(T)) ELSE 0
  IN  [standard |-> OffsetString(Offset(standard, daylight)), daylight |-> OffsetString(Offset(daylight, standard))]

-----------------------------------------------------------------------------
NoStamp == [key |-> -1, text |-> <<>>]

\* A new encoder in a zone
NewEncoder(zone) ==
  [format |-> <<>>, utc |-> FALSE, length |-> 0, precision |-> 6, second |-> NoSecond, zone |-> zone,
   offset |-> GetUtcOffset(zone), cache |-> [i \in 1 .. CacheSize |-> NoStamp], insert |-> 1]

\* valid_strftime_string()
RECURSIVE ValidStrftime(_, _)
ValidStrftime(s, hasSecond) ==
  IF s = <<>> THEN TRUE
  ELSE LET c == DecodeUtf8(s)
           t == Drop(s, c.used)
       IN  IF c.code # Percent THEN Safe(c.code) /\ ValidStrftime(t, hasSecond)
           ELSE /\ Begins(t, Conversions \cup {Percent})
                /\ t[1] = Second => ~hasSecond
                /\ ValidStrftime(Tail(t), hasSecond \/ t[1] = Second)

\* preformat_time_format(): the seconds get a place, and UTC its offset.  Each
\* byte is looked at together with the next, the second of %% as well.
RECURSIVE Preformat(_, _)
Preformat(e, s) ==
  LET Starts(c) == Len(s) > 1 /\ s[1] = Percent /\ s[2] = c IN
  CASE Starts(Second) ->
         [i \in 1 .. (IF e.precision = 0 THEN 2 ELSE e.precision + 3) |-> Placeholder] \o Preformat(e, Drop(s, 2))
    [] Starts(OffsetChar) /\ e.utc -> OffsetString(0) \o Preformat(e, Drop(s, 2))
    [] OTHER -> IF s = <<>> THEN s ELSE <<s[1]>> \o Preformat(e, Tail(s))

\* What a conversion specifier other than %S stands for at a time.
Convert1(e, c, time) ==
  CASE c = Percent    -> <<Percent>>
    [] c = 89         -> DigitsOf(time.year, 4)
    [] c = 109        -> DigitsOf(time.month, 2)
    [] c = 100        -> DigitsOf(time.day, 2)
    [] c = 72         -> DigitsOf(time.hour, 2)
    [] c = 77         -> DigitsOf(time.min, 2)
    [] c = OffsetChar -> IF time.isdst THEN e.offset.daylight ELSE e.offset.standard
    [] c = 121        -> DigitsOf(time.year, 2)
    [] c = 97         -> DayNames[time.wday + 1]
    [] OTHER          -> <<Percent, c>>

RECURSIVE FormatWith(_, _, _)
FormatWith(e, s, time) ==
  CASE Len(s) <= 1                     -> s
    [] Len(s) > 1 /\ s[1] # Percent    -> <<s[1]>> \o FormatWith(e, Tail(s), time)
    [] Len(s) > 1 /\ s[1] = Percent    -> Convert1(e, s[2], time) \o FormatWith(e, Drop(s, 2), time)

\* A bug: a text that is too long is cut.
FormatTimeCut(e, time) ==
  LET text == FormatWith(e, e.format, time) IN SubSeq(text, 1, Min({Len(text), Capacity}))

\* format_time(): nothing if it is too long.
FormatTime(e, time) ==
  LET text == FormatWith(e, e.format, time) IN IF Len(text) > Capacity THEN <<>> ELSE text

\* create_time_string()
CreateTimeString(e, minute) == FormatTime(e, IF e.utc THEN UtcTime[minute] ELSE LocalTime[e.zone][minute])

-----------------------------------------------------------------------------
Result(error, e) == [error |-> error, encoder |-> e]

\* decompose_format(): the encoder with its precision, the format, and what is
\* left; no format if there is a sign, # or 0.
DecomposeFormat(e, s) ==
  LET Decomposed(rest, filled, width, precision) ==
        [good |-> SkipSignAlt0(rest) = rest, rest |-> precision.rest,
         encoder |-> [e EXCEPT !.precision = Min({precision.value, 9})],
         format |-> [NoFormat EXCEPT !.width = width.value,
                                     !.align = IF filled # <<>> THEN Last(filled) ELSE 0,
                                     !.fill = IF Len(filled) > 1 THEN Front(filled) ELSE @]]
      Behind(rest, width) ==
        Once(LAMBDA precision : Decomposed(rest, SubSeq(s, 1, Len(s) - Len(rest)), width, precision),
             GetPrecision(width.rest))
  IN  Once(LAMBDA rest : Once(LAMBDA width : Behind(rest, width), GetWidth(rest)), SkipFillAlign(s))

\* set_time_format(), where the time of the epoch shows how long the text is.
SetTimeFormat(e, s) ==
  LET zoned   == [e EXCEPT !.utc = Begins(s, {85})]
      rest    == SkipOne(s, {LocaleChar, 85})
      pattern   == IF rest = <<>> THEN DefaultTimeFormat ELSE rest
      pref    == Preformat(zoned, pattern)
      done    == [zoned EXCEPT !.format = pref]
      text    == CreateTimeString(done, 0)
  IN  CASE Len(pattern) > Capacity                                          -> Result("str_long", zoned)
        [] Len(pattern) <= Capacity /\ ~ValidStrftime(pattern, FALSE)         -> Result("fmt_bad", zoned)
        [] Len(pattern) <= Capacity /\ ValidStrftime(pattern, FALSE)          ->
             IF Len(pref) > Capacity THEN Result("str_long", [zoned EXCEPT !.format = pattern])
             ELSE Result(IF text = <<>> THEN "str_long" ELSE "none", [done EXCEPT !.length = Len(text)])

\* The characters utf8_str_trim() counts: every byte beyond ASCII is one of its
\* own where a char is signed.
CharsOf(text) == IF CharIsSigned THEN Len(text) ELSE StrTrim(text, MaxPrecision).chars

\* apply_fill_align(): the fill becomes part of the pattern.
ApplyFillAlign(e, format) ==
  LET chars  == CharsOf(CreateTimeString(e, 0))
      filled == ShiftFill(Counted(e.format, chars), Capacity, format).bytes
      length == e.length + Len(filled) - Len(e.format)
  IN  IF length > Capacity THEN Result("str_long", e)
      ELSE Result("none", [e EXCEPT !.format = filled, !.length = length])

\* prepare_seconds_placeholder()
PrepareSeconds(e) ==
  LET text   == CreateTimeString(e, 0)
      places == {i \in DOMAIN text : text[i] = Placeholder}
  IN  [e EXCEPT !.second = IF places = {} THEN NoSecond ELSE Min(places) - 1,
                !.format = [i \in DOMAIN @ |-> IF @[i] = Placeholder THEN Zero ELSE @[i]]]

\* init_encoder_timestamp()
InitEncoderTimestamp(e, s) ==
  LET Prepared(filled) ==
        IF filled.error # "none" THEN filled ELSE Result("none", PrepareSeconds(filled.encoder))
      Patterned(set, format) ==
        IF set.error # "none" THEN set ELSE Once(Prepared, ApplyFillAlign(set.encoder, format))
      Parsed(p) ==
        IF ~p.good THEN Result("fmt_bad", e)
        ELSE Once(LAMBDA set : Patterned(set, p.format), SetTimeFormat(p.encoder, p.rest))
  IN  IF e.format # <<>> THEN Result("double_init", e) ELSE Once(Parsed, DecomposeFormat(e, s))

-----------------------------------------------------------------------------
\* write_second(): the digits down to the precision, two at a time from the
\* last; those in front of the first that counts stay as they are.
WriteSecond(e, text, ticks) ==
  LET n       == 2 + e.precision
      digits  == SubSeq(ticks, 1, n)
      counts  == {i \in 1 .. n : digits[i] # Zero}
      size    == IF e.precision = 0 THEN 2 ELSE n + 1
      used    == IF counts = {} THEN 0 ELSE 2 * ((n - Min(counts) + 2) \div 2)
      place   == SubSeq(text, e.second + 1, e.second + size)
      padded  == <<Zero>> \o digits
      numbers == SubSeq(place, 1, size - used) \o SubSeq(padded, Len(padded) - used + 1, Len(padded))
      pointed == IF e.precision = 0 THEN numbers ELSE <<numbers[2], numbers[3], Dot>> \o Drop(numbers, 3)
  IN  IF e.second = NoSecond THEN text
      ELSE SubSeq(text, 1, e.second) \o pointed \o Drop(text, e.second + size)

\* The bytes copied from a time string: a small_string has zeros behind its end.
Copied(e, text) == [i \in 1 .. e.length |-> IF i <= Len(text) THEN text[i] ELSE 0]

Cached(e, minute) == {i \in 1 .. CacheSize : e.cache[i].key = minute /\ e.cache[i].text # <<>>}

\* time_string_cache::find(), or a new string
TimeString(e, minute) ==
  IF Cached(e, minute) # {} THEN e.cache[Min(Cached(e, minute))].text ELSE CreateTimeString(e, minute)

\* A bug: what is cached has the seconds of the first call in it.
CacheWithSeconds(e, minute, text) ==
  IF Cached(e, minute) # {} THEN e
  ELSE [e EXCEPT !.cache[e.insert] = [key |-> minute, text |-> WriteSecond(e, text, [i \in 1 .. 11 |-> 53])],
                 !.insert = (@ % CacheSize) + 1]

\* The cache after a time string was found or made; replace_oldest()
Cache(e, minute, text) ==
  IF Cached(e, minute) # {} THEN e
  ELSE [e EXCEPT !.cache[e.insert] = [key |-> minute, text |-> text], !.insert = (@ % CacheSize) + 1]

-----------------------------------------------------------------------------
\* The text of the parts of a format
TimeFormatText(p) == p.fill \o p.align \o p.sign \o p.width \o p.precision \o p.zone \o FlattenSeq(p.pieces)

NotAsked == [pieces |-> <<>>, zone |-> <<0>>]
Unwritten == [minute |-> 0, ticks |-> <<>>, error |-> "none", text |-> <<>>]

StampInit == encoder = NewEncoder(CHOOSE z \in Zones : TRUE) /\ asked = NotAsked /\ refused = "none" /\ stamp = Unwritten

\* A formatter with a timestamp is made, in some zone.
MakeEncoder(zone, p) ==
  \E e \in {NewEncoder(zone)}, s \in {TimeFormatText(p)} : \E r \in {InitEncoderTimestamp(e, s)} :
    /\ asked' = p /\ encoder' = r.encoder /\ refused' = r.error
    /\ UNCHANGED stamp

\* encode_timestamp() of the message of a minute
EncodeTimestamp(minute, ticks, room) ==
  LET text  == TimeString(encoder, minute)
      error == CASE minute < 0                             -> "input_bad"
                 [] minute >= 0 /\ room < encoder.length   -> "buff_full"
                 [] minute >= 0 /\ room >= encoder.length  -> "none"
  IN  /\ stamp' = IF error # "none" THEN [Unwritten EXCEPT !.error = error]
                  ELSE [minute |-> minute, ticks |-> ticks, error |-> error,
                        text |-> WriteSecond(encoder, Copied(encoder, text), ticks)]
      /\ encoder' = IF error # "none" THEN encoder ELSE Cache(encoder, minute, text)
      /\ UNCHANGED <<asked, refused>>

StampNext ==
  \/ asked = NotAsked /\ \E zone \in Zones, p \in TimeFormats : MakeEncoder(zone, p)
  \/ asked # NotAsked /\ refused = "none" /\
     \E minute \in Minutes \cup {-1}, ticks \in Ticks, room \in StampRooms : EncodeTimestamp(minute, ticks, room)

-----------------------------------------------------------------------------
\* References.  What strftime() writes for a piece of a pattern, with the
\* seconds cut to the precision and the offset the local time has, and what
\* the whole is filled to.
OffsetAt(zone, minute) ==
  LET utc   == UtcTime[minute]
      local == LocalTime[zone][minute]
      apart == 60 * (local.hour - utc.hour) + local.min - utc.min
  IN  CASE local.day = utc.day                -> apart
        [] local.day # utc.day /\ apart < 0   -> apart + 1440
        [] local.day # utc.day /\ apart >= 0  -> apart - 1440

Precision(p) == IF p.precision = <<>> THEN 9 ELSE Min({9, Number(Tail(p.precision))})

Strftime(p, piece, zone, minute, ticks) ==
  LET utc  == p.zone = <<85>>
      time == IF utc THEN UtcTime[minute] ELSE LocalTime[zone][minute]
  IN  CASE Len(piece) = 2 /\ piece[1] = Percent /\ piece[2] = Second ->
             SubSeq(ticks, 1, 2) \o (IF Precision(p) = 0 THEN <<>> ELSE <<Dot>> \o SubSeq(ticks, 3, 2 + Precision(p)))
        [] Len(piece) = 2 /\ piece[1] = Percent /\ piece[2] = OffsetChar ->
             OffsetString(IF utc THEN 0 ELSE OffsetAt(zone, minute))
        [] Len(piece) = 2 /\ piece[1] = Percent /\ ~(piece[2] \in {Second, OffsetChar}) ->
             Convert1(encoder, piece[2], time)
        [] OTHER -> piece

\* The pieces of a format; none is "%Y-%m-%d %H:%M:%S %z".
PiecesOf(p) ==
  IF p.pieces # <<>> THEN p.pieces
  ELSE <<<<37, 89>>, <<45>>, <<37, 109>>, <<45>>, <<37, 100>>, <<32>>, <<37, 72>>, <<58>>, <<37, 77>>, <<58>>,
         <<37, 83>>, <<32>>, <<37, 122>>>>

Written(p, zone, minute, ticks) ==
  FlattenSeq([i \in DOMAIN PiecesOf(p) |-> Strftime(p, PiecesOf(p)[i], zone, minute, ticks)])

Grows(p, text)   == (IF p.width = <<>> THEN 0 ELSE Number(p.width)) - NumChars(text)
FillOf(p)        == IF p.fill = <<>> THEN <<Space>> ELSE p.fill
Filled(p, text)  == ShiftFill(Counted(text, NumChars(text)), 1000,
                              [NoFormat EXCEPT !.width = Number(p.width), !.fill = FillOf(p),
                                               !.align = IF p.align = <<>> THEN 0 ELSE p.align[1]]).bytes
Percents(p)      == Cardinality({i \in DOMAIN p.pieces : p.pieces[i] = <<Percent, Percent>>})

\* Patterns the encoder takes for others: the second of %% together with the
\* letter behind it, and a fill of percents; and where char is signed, texts
\* beyond ASCII are taken to be longer than they are.
Misread(p) ==
  \/ \E i \in 1 .. Len(p.pieces) - 1 : /\ p.pieces[i] = <<Percent, Percent>>
                                       /\ Begins(p.pieces[i + 1], {Second, OffsetChar})
  \/ p.fill = <<Percent>>
  \/ CharIsSigned /\ p.width # <<>> /\ \E i \in DOMAIN p.pieces : p.pieces[i][1] > 127

\* What is written is what strftime() writes for the pattern, with the seconds
\* the message has, filled as far as 63 bytes go.
IsStrftime ==
  stamp # Unwritten /\ stamp.error = "none" =>
    LET text == Written(asked, encoder.zone, stamp.minute, stamp.ticks)
        size == Len(text) + Grows(asked, text) * Len(FillOf(asked))
    IN  IF Grows(asked, text) <= 0 THEN stamp.text = text
        ELSE \/ stamp.text = Filled(asked, text)
             \/ stamp.text = text /\ size + Percents(asked) > Capacity

\* Every stamp is what its pattern says, whatever minute was cached or evicted
\* before, in UTC and in the zone, unless the pattern is misread.
WrittenAsAsked == asked # NotAsked /\ ~Misread(asked) => IsStrftime

\* A pattern is refused if it has something that is not allowed or is longer
\* than 63 bytes, as it is or as it is written, and for nothing else.
RefusedForCause ==
  asked # NotAsked /\ ~Misread(asked) =>
    LET pattern == FlattenSeq(asked.pieces)
        text    == Written(asked, encoder.zone, 0, [i \in 1 .. 11 |-> Zero])
        bad     == \/ asked.sign # <<>>
                   \/ \E i \in DOMAIN asked.pieces : /\ asked.pieces[i][1] = Percent
                                                     /\ ~(asked.pieces[i][2] \in Conversions \cup {Percent})
                   \/ \E i, j \in DOMAIN asked.pieces : i # j /\ asked.pieces[i] = <<Percent, Second>>
                                                             /\ asked.pieces[j] = <<Percent, Second>>
        size    == Len(text) + Max({0, Grows(asked, text)}) * Len(FillOf(asked))
    IN  CASE refused = "fmt_bad"  -> bad
          [] refused = "str_long" -> asked.sign = <<>> /\ Max({Len(pattern), size + Percents(asked)}) > Capacity
          [] refused = "none"     -> ~bad /\ Max({Len(pattern), Len(text), encoder.length}) <= Capacity
          [] OTHER                -> FALSE

\* A stamp is what was asked for, or was refused for a cause: the two above.
StampIsAsked == WrittenAsAsked /\ RefusedForCause
=============================================================================
