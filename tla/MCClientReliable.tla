-------------------------- MODULE MCClientReliable --------------------------
(* ClientReliable for TLC. *)
EXTENDS ClientReliable

\* a small block, one of another estimate, one as long as a back buffer, and one
\* that is longer than its writer said
Mixed == {[size |-> 1, estimate |-> 1], [size |-> 1, estimate |-> 2],
          [size |-> 3, estimate |-> 3], [size |-> 3, estimate |-> 1]}
=============================================================================
