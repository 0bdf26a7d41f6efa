------------------------- MODULE MCChunkedDownload -------------------------
(* ChunkedDownload for TLC. *)
EXTENDS ChunkedDownload

\* three chunks, the last one short; two chunks, both full; one that is missing
MCSize == [f \in Files |-> CASE f = "map" -> 5 [] f = "skin" -> 4 [] OTHER -> 1]

\* four full chunks each
LongSize == [f \in Files |-> 8]
=============================================================================
