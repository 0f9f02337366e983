------------------------------ MODULE MCSinks ------------------------------
(***************************************************************************)
(* The sinks and what is behind them.  The parts share no state and are    *)
(* checked side by side: each takes its steps while the others are at      *)
(* their beginning, and, as the merge begins in many states, all but it    *)
(* while it is at one of them, and in colours.                              *)
(***************************************************************************)
EXTENDS SinkSort, InplaceMerge, Filter, Outputs, OutFile, Console, TLC

\* An output for one sink at a time, with a stream of its own, and an output
\* whose stream is shared with the program.
CONSTANTS single, shared, mine, ours
MCStreamOf == [o \in Outputs |-> IF o \in Shared THEN ours ELSE mine]

\* Lines of a few pieces: names of levels, beginnings and ends of them.
MCLevelNames == << <<"T","R","A","C","E">>, <<"D","E","B","U","G">>, <<"I","N","F","O">>, <<"W","A","R","N">>,
                   <<"E","R","R","O","R">>, <<"F","A","T","A","L">> >>
MCColouredNames == <<"*TRACE", "*DEBUG", "*INFO", "*WARN", "*ERROR", "*FATAL">>
MCPieces == ToSet(MCLevelNames) \cup {<<" ">>, <<"T","R">>, <<"A">>, <<"I","N">>, <<"E">>, <<"R","R","O","R">>}
MCLines == {p \o q \o r \o t : p \in MCPieces, q \in MCPieces, r \in MCPieces, t \in {<<>>, <<" ">>, <<"E","R","R","O","R">>}}

MCInit == SortInit /\ Init /\ FilterInit /\ OutInit /\ FileInit /\ ConsoleInit

Colours == ConsoleInit /\ colored

SortAlone    == FilterInit /\ OutInit /\ FileInit /\ Colours
FilterAlone  == SortInit /\ OutInit /\ FileInit /\ Colours
OutAlone     == SortInit /\ FilterInit /\ FileInit /\ Colours
FileAlone    == SortInit /\ FilterInit /\ OutInit /\ Colours
ConsoleAlone == SortInit /\ FilterInit /\ OutInit /\ FileInit
NoneBegun    == SortAlone /\ SortInit
NothingToMerge == pc = "enter" /\ start = 0 /\ left = 1 /\ right = 1 /\ \A i \in Places : stamp[i] = 0

MCNext ==
  \/ NoneBegun /\ Next /\ UNCHANGED <<sinkVars, filterVars, outVars, fileVars, consoleVars>>
  \/ NothingToMerge /\ SortAlone /\ SortNext /\ UNCHANGED <<vars, filterVars, outVars, fileVars, consoleVars>>
  \/ NothingToMerge /\ FilterAlone /\ FilterNext /\ UNCHANGED <<vars, sinkVars, outVars, fileVars, consoleVars>>
  \/ NothingToMerge /\ OutAlone /\ OutNext /\ UNCHANGED <<vars, sinkVars, filterVars, fileVars, consoleVars>>
  \/ NothingToMerge /\ FileAlone /\ FileNext /\ UNCHANGED <<vars, sinkVars, filterVars, outVars, consoleVars>>
  \/ NothingToMerge /\ ConsoleAlone /\ ConsoleNext /\ UNCHANGED <<vars, sinkVars, filterVars, outVars, fileVars>>

\* The handles of filters and the memory for them are interchangeable.
MCSymmetry == Permutations(Handles) \cup Permutations(Blocks)

MCSpec == MCInit /\ [][MCNext]_<<vars, sinkVars, filterVars, outVars, fileVars, consoleVars>>
=============================================================================
