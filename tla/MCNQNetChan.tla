---------------------------- MODULE MCNQNetChan ----------------------------
(* NQNetChan, over a network that loses packets, for TLC. *)
EXTENDS NQNetChanLive, FiniteSets

\* a client's message is shorter than in_fragment_buf, the server's is not
MCMaxMessage == [e \in End |-> IF e = "client" THEN 2 ELSE 3]

\* enough for either end's message to overflow
MCMaxWrites == [e \in End |-> IF e = "client" THEN 3 ELSE 4]

\* the game's datagrams that were sent to e
Games(e) == Cardinality({p \in net'[e] : p.type = "unreliable" /\ ~p.final})

\* one end writes all it may, or there are three messages and datagrams in all
OneEndOrFew ==
    LET games == Games("client") + Games("server") IN
    \/ games = 0 /\ \E e \in End : offered'[e] = 0
    \/ games + offered'["client"] + offered'["server"] <= 3
=============================================================================
