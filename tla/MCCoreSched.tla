---------------------------- MODULE MCCoreSched ----------------------------
EXTENDS CoreSched
CONSTANTS a, b
\* A sink that is flushed every millisecond and one every other.
MCIntervals == [s \in Sinks |-> IF s = a THEN 1 ELSE 2]
\* Sinks that are flushed every millisecond.
MCEvery == [s \in Sinks |-> 1]
\* Sinks that are never flushed by time.
MCNone == [s \in Sinks |-> 0]
=============================================================================
