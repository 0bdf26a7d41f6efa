--------------------------- MODULE MCEntityDeltas ---------------------------
EXTENDS EntityDeltas

\* Three packets of a QuakeWorld client, one of a NetQuake server.
MCCalm == [p \in {"QW", "NQ"} |-> IF p = "QW" THEN 4 ELSE 2]
=============================================================================
