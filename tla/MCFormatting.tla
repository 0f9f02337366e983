---------------------------- MODULE MCFormatting ----------------------------
(***************************************************************************)
(* The formatter, in the parts that share no state: the line of a call,    *)
(* whose values are units; a field with a text, byte by byte; the          *)
(* specification of a field; timestamps; and format strings with the lines *)
(* along them.  Each is checked while the others are at their beginning.   *)
(***************************************************************************)
EXTENDS MCLogCall, MCText, MCFormatSpec, MCTimeStamp, MCFormatString

Init == CallInit /\ FieldInit /\ SpecInit /\ StampInit /\ FormatInit

NoCall   == phase = "idle"
NoField  == written = "nothing"
NoSpec   == spec = NotRead
NoStamps == asked = NotAsked
NoFormatString == items.of = "nothing"

Next ==
  \/ NoField /\ NoSpec /\ NoStamps /\ NoFormatString
     /\ CallNext /\ UNCHANGED <<fieldVars, specVars, stampVars, formatVars>>
  \/ NoCall /\ NoSpec /\ NoStamps /\ NoFormatString
     /\ FieldNext /\ UNCHANGED <<callVars, specVars, stampVars, formatVars>>
  \/ NoCall /\ NoField /\ NoStamps /\ NoFormatString
     /\ SpecNext /\ UNCHANGED <<callVars, fieldVars, stampVars, formatVars>>
  \/ NoCall /\ NoField /\ NoSpec /\ NoFormatString
     /\ StampNext /\ UNCHANGED <<callVars, fieldVars, specVars, formatVars>>
  \/ NoCall /\ NoField /\ NoSpec /\ NoStamps
     /\ FormatNext /\ UNCHANGED <<callVars, fieldVars, specVars, stampVars>>

Spec == Init /\ [][Next]_<<callVars, fieldVars, specVars, stampVars, formatVars>>
=============================================================================
