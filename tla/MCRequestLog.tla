--------------------------- MODULE MCRequestLog ---------------------------
\* A request, and another key that is the same number to the log.
EXTENDS RequestLog, TLC

MCKeyOf == [q \in {"q"} |-> "k1"]
MCDateOf == [q \in {"q"} |-> 3]
MCKeyNumber == [k \in {"k1", "k2"} |-> 0]
MCSymmetry == Permutations(Processes)
=============================================================================
