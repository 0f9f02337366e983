---------------------------- MODULE MCTimeStamp ----------------------------
(***************************************************************************)
(* Timestamps for TLC: zones on both sides of UTC, minutes around the      *)
(* beginning of daylight saving time, and patterns that are good, bad and  *)
(* as long as there is room for.                                           *)
(***************************************************************************)
EXTENDS TimeStamp

Budapest == [standard |-> 60, daylight |-> 120, daylightMonths |-> 4 .. 10, failingMonths |-> {4}]
StJohns  == [standard |-> -210, daylight |-> -150, daylightMonths |-> 4 .. 10, failingMonths |-> {}]
MCZones  == {Budapest, StJohns}

TimeOf(year, month, day, hour, min, wday, isdst) ==
  [year |-> year, month |-> month, day |-> day, hour |-> hour, min |-> min, wday |-> wday, isdst |-> isdst]

MCMinutes == {0, 28530779, 28530780}
MCUtcTime ==
  0 :> TimeOf(1970, 1, 1, 0, 0, 4, FALSE) @@ 28530779 :> TimeOf(2024, 3, 31, 0, 59, 0, FALSE) @@
  28530780 :> TimeOf(2024, 3, 31, 1, 0, 0, FALSE)
MCLocalTime ==
  Budapest :> (0 :> TimeOf(1970, 1, 1, 1, 0, 4, FALSE) @@ 28530779 :> TimeOf(2024, 3, 31, 1, 59, 0, FALSE) @@
               28530780 :> TimeOf(2024, 3, 31, 3, 0, 0, TRUE)) @@
  StJohns :> (0 :> TimeOf(1969, 12, 31, 20, 30, 3, FALSE) @@ 28530779 :> TimeOf(2024, 3, 30, 22, 29, 6, TRUE) @@
              28530780 :> TimeOf(2024, 3, 30, 22, 30, 6, TRUE))

\* 00.000000000, 07.000450000 and 59.999999999
MCTicks == {[i \in 1 .. 11 |-> 48], <<48, 55, 48, 48, 48, 52, 53, 48, 48, 48, 48>>,
            [i \in 1 .. 11 |-> IF i = 1 THEN 53 ELSE 57]}

Hour     == <<37, 72>>
Minute   == <<37, 77>>
Sec      == <<37, 83>>
Year     == <<37, 89>>
Offset   == <<37, 122>>
Weekday  == <<37, 97>>
Twice    == <<37, 37>>
NotKnown == <<37, 113>>
LetterX  == <<120>>
Accented == <<195, 169>>
Dots     == [i \in 1 .. 40 |-> 58]

MCPieces ==
  {<<>>, <<Minute>>, <<LetterX>>, <<Sec, LetterX>>, <<Hour, LetterX, Minute>>, <<Offset, Year>>,
   <<Twice, LetterX, Sec>>, <<Weekday, Accented, Sec>>, <<Sec, Twice, Offset, Weekday>>, <<Sec, Sec>>,
   <<Hour, NotKnown>>, <<Dots, Sec, Year>>, <<Offset, Year, Dots, Offset, Sec>>,
   <<Dots, Offset, Offset, Offset, Offset>>, <<Dots, Dots>>}

TimeFormat(fill, align, sign, width, precision, zone, pieces) ==
  [fill |-> fill, align |-> align, sign |-> sign, width |-> width, precision |-> precision, zone |-> zone,
   pieces |-> pieces]

MCTimeFormats ==
  {TimeFormat(<<>>, <<>>, <<>>, <<>>, precision, zone, pieces) :
     precision \in {<<>>, <<46, 48>>, <<46, 51>>}, zone \in {<<>>, <<85>>}, pieces \in MCPieces} \cup
  {TimeFormat(fill, <<align>>, <<>>, width, <<46, 50>>, <<76>>, pieces) :
     fill \in {<<>>, <<226, 130, 172>>}, align \in {62, 94}, width \in {<<49, 50>>, <<54, 51>>, <<55, 48>>},
     pieces \in {<<Minute>>, <<Sec, LetterX>>, <<Offset, Year>>, <<Hour, NotKnown>>, <<Twice, LetterX, Sec>>,
                 <<Weekday, Accented, Sec>>, <<Dots, Dots>>}} \cup
  {TimeFormat(<<42>>, <<60>>, <<sign>>, <<49, 50>>, <<46, 50>>, <<76>>, <<Minute>>) : sign \in {43, 35, 48}}

\* A percent sign with the letter S behind it, which is no field
MCPercentFormats == {TimeFormat(<<>>, <<>>, <<>>, <<>>, <<>>, <<85>>, <<Twice, <<Second>>>>)}

StampSpec ==
  /\ StampInit /\ SpecInit /\ FieldInit
  /\ [][StampNext /\ UNCHANGED <<specVars, fieldVars>>]_<<stampVars, specVars, fieldVars>>
=============================================================================
