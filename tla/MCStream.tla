------------------------------ MODULE MCStream ------------------------------
(* Instances of Stream for TLC.                                            *)
EXTENDS Stream

\* Nothing; counts and the end marker, the last line unterminated; a second
\* count after the first; text after the marker; a stream without marker that
\* ends inside a line with counts.
MCBodies ==
    {<<>>,
     Line("usage") \o <<Newline>> \o Line("stop"),
     Line("usage") \o <<Newline>> \o Line("delta") \o <<Newline>> \o Line("stop") \o <<Newline>>,
     Line("stop") \o <<Newline>> \o Line("text") \o <<Newline>>,
     Line("text") \o <<Newline>> \o Line("delta")}

\* A negative limit, no limit, one that some bodies exceed, one that none does.
MCLimits == {-1, 0, 4, 10}
=============================================================================
