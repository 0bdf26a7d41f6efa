--------------------------- MODULE MCNetChanFrag ---------------------------
(* NetChanFrag for TLC. *)
EXTENDS NetChanFrag

\* one piece, two and three pieces, and an end at or off a multiple of 8
MCLengths == {0, 8, 17, 24, 32}

\* steps of 8 and 16 bytes, one of them not a multiple of 8
MCRooms == {8, 12, 16}
=============================================================================
