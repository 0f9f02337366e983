---------------------------- MODULE MCFormatSpec ----------------------------
(***************************************************************************)
(* Specifications for TLC: every text of a few bytes, and every choice of  *)
(* parts, some of them no part of a specification for the formatter.       *)
(***************************************************************************)
EXTENDS FormatSpec

\* * < ^ - # 0 1 . L x j } and a control character
MCAlphabet == {42, 60, 94, 45, 35, 48, 49, 46, 76, 120, 106, 125, 5}

MCParts ==
  [fill : {<<>>, <<42>>, <<60>>, <<226, 130, 172>>}, align : {<<60>>, <<94>>},
   sign : {<<>>, <<32>>}, alternate : {<<>>, <<35>>}, zero : {<<>>, <<48>>},
   width : {<<>>, <<55>>, <<49, 48, 53, 50>>}, precision : {<<>>, <<46, 48>>, <<46, 51, 52>>},
   locale : {<<>>, <<76>>}, type : {<<>>, <<120>>}] \cup
  [fill : {<<>>}, align : {<<>>}, sign : {<<>>, <<43>>, <<45>>}, alternate : {<<>>, <<35>>}, zero : {<<>>, <<48>>},
   width : {<<>>, <<57, 57>>}, precision : {<<>>, <<46, 57, 57, 57, 57>>}, locale : {<<>>, <<76>>}, type : {<<t>> : t \in Types}] \cup
  [fill : {<<>>, <<5>>, <<224, 188, 128>>, <<42>>}, align : {<<62>>}, sign : {<<>>, <<45>>}, alternate : {<<>>},
   zero : {<<>>, <<48>>}, width : {<<>>, <<50, 48, 48, 48>>, <<50, 48, 48, 48, 48>>},
   precision : {<<>>, <<46, 48>>, <<46, 48, 49>>, <<46, 51, 52, 52, 52>>, <<46, 51, 52, 52, 52, 52>>},
   locale : {<<>>, <<76>>}, type : {<<>>, <<102>>}]
=============================================================================
