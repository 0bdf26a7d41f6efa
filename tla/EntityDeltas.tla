---------------------------- MODULE EntityDeltas ----------------------------
(***************************************************************************)
(* Replacement deltas (PEXT2_REPLACEMENTDELTAS): how a server keeps a      *)
(* client's picture of the entities up to date over packets that get lost. *)
(*                                                                         *)
(* SVFTE_EmitPacketEntities (engine/server/sv_ents.c) compares what is     *)
(* visible with what it told the client last (sentents), marks what        *)
(* differs in pendingdeltabits, writes as much of that as fits and logs    *)
(* what it wrote in the frame of the packet.  When an acknowledgement      *)
(* skips a frame, its log is folded back into the pending bits.  The       *)
(* client (CLFTE_ParseEntities, engine/client/cl_ents.c) applies each      *)
(* packet to the last picture that was valid.                              *)
(*                                                                         *)
(* A QuakeWorld client asks for every packet and acknowledges in the       *)
(* packet header; a NetQuake client is sent packets at the server's own    *)
(* pace, several where one is too small, and lists the numbers it got.     *)
(* protocol says which of the two this connection is.                      *)
(*                                                                         *)
(* An entity is absent or has a value per field; a field's value is the    *)
(* number of the change that set it, 0 in the baseline and Null in an      *)
(* entity that was never reset.  The wire holds what is in flight: packets *)
(* are lost and overtake each other, and the channel drops what is older   *)
(* than the last one it let through.  Left out: the split between players  *)
(* and other entities beyond their exemption from the round robin, CSQC    *)
(* entities, bone data, stats, and growing the log (SV_ExpandNackFrames).  *)
(***************************************************************************)
EXTENDS Integers, Sequences, FiniteSets, FiniteSetsExt, SequencesExt

CONSTANTS Protocols,    \* of "QW" and "NQ", the ones to look at
          MaxEnt,       \* entities are 1..MaxEnt
          Fields,       \* what UF_ bits tell apart in an entity
          Sticky,       \* entities with PVSF_NOREMOVE
          Slots,        \* sv.allocated_client_slots
          Backup,       \* UPDATE_BACKUP
          Room,         \* entities that fit into every packet
          MaxChanges,   \* bound: frames that find the world changed
          MaxSequence,  \* bound: packets either side sends
          Calm,         \* bound, per protocol: from this packet on nothing
                        \* changes and nothing is lost
          MaxFlight     \* bound: packets in flight in one direction

Ents == 1..MaxEnt

ASSUME DeltaAssumption == /\ Protocols \subseteq {"QW", "NQ"}
                          /\ {MaxEnt, Room, MaxFlight} \subseteq Nat \ {0}
                          /\ Backup \in Nat \ {0, 1}
                          /\ Fields \cap {"reset", "reset2", "remove"} = {}
                          /\ {Slots, MaxChanges, MaxSequence} \subseteq Nat
                          /\ Calm \in [{"QW", "NQ"} -> Nat]
                          /\ Sticky \subseteq Ents
                          /\ Slots < Room

VARIABLES protocol,
          world,            \* what the client should see: svs.entstatebuffer
          changes,          \* frames in which it had changed
          sentents,         \* client_t: what the server told it last
          pendingdeltabits, \* client_t: bits to send, per entity; 0 is the world
          frames,           \* client_t: the log of the last Backup packets
          server,           \* client_t: sequences and flags
          client,           \* cl and cls.netchan
          s2c, c2s,         \* packets in flight
          waits,            \* history: packets in which a due entity had no room
          lapsed,           \* history: the server lost count of its frames
          misled            \* history: entities it removed by mistake

vars == <<protocol, world, changes, sentents, pendingdeltabits, frames, server,
          client, s2c, c2s, waits, lapsed, misled>>
-----------------------------------------------------------------------------
Absent == [f \in Fields |-> -2]
Null == [f \in Fields |-> -1]       \* nullentitystate
Baseline == [f \in Fields |-> 0]

Nobody == [e \in Ents |-> Absent]

\* UF_RESET, UF_SV_RESET2, UF_SV_REMOVE and a bit for every field
Bits == {"reset", "reset2", "remove"} \cup Fields
NoBits == [e \in 0..MaxEnt |-> {}]

\* Below every sequence: lastsequence_acknowledged starts at -2000000000.
Never == -(MaxSequence + Backup + 2)

\* What one packet says of an entity.
Nothing == [kind |-> "nothing", reset |-> FALSE, data |-> << >>]
Removal == [kind |-> "remove", reset |-> FALSE, data |-> << >>]
Update(reset, bits, ent) ==
    [kind |-> "update", reset |-> reset, data |-> [f \in bits |-> ent[f]]]

\* The sequence of the frame being built.
Sequence == IF protocol = "NQ" THEN server.unreliable ELSE server.incoming

\* From then on the world stands still and one side waits for the other.
Packets == IF protocol = "NQ" THEN server.unreliable ELSE client.outgoing
Quiet == Packets >= Calm[protocol]
Delivered == s2c = {} /\ c2s = {} /\ client.acks = << >>
Settled == Packets > MaxSequence /\ Delivered /\ ~server.send /\ ~server.burst

Init == /\ protocol \in Protocols
        /\ world = Nobody
        /\ changes = 0
        /\ sentents = Nobody
        /\ pendingdeltabits = [NoBits EXCEPT ![0] = {"remove"}]
        /\ frames = [i \in 0..Backup - 1 |-> [sequence |-> 0, resend |-> NoBits]]
        /\ server = [incoming |-> 0, outgoing |-> 1, unreliable |-> 0,
                     delta |-> 0, acked |-> Never, next |-> 0,
                     send |-> FALSE, burst |-> FALSE]
        /\ client = [ents |-> Nobody, valid |-> 0, parsed |-> 0,
                     incoming |-> IF protocol = "NQ" THEN -1 ELSE 0,
                     outgoing |-> 1, acks |-> << >>]
        /\ s2c = {}
        /\ c2s = {}
        /\ waits = [e \in Ents |-> 0]
        /\ lapsed = FALSE
        /\ misled = {}
-----------------------------------------------------------------------------
(* What the snapshot of the client's PVS (SV_Snapshot_BuildQ1) may find when *)
(* a frame is built: entities that appeared, changed a field or vanished     *)
(* since the last one.                                                       *)

Afterwards(ent) ==
    IF ent = Absent THEN {Absent} \cup {[Baseline EXCEPT ![f] = changes + 1] : f \in Fields}
    ELSE {ent, Absent} \cup {[ent EXCEPT ![f] = changes + 1] : f \in Fields}

Snapshots ==
    IF changes < MaxChanges /\ ~Quiet
    THEN {w \in [Ents -> UNION {Afterwards(world[e]) : e \in Ents}] :
            \A e \in Ents : w[e] \in Afterwards(world[e])}
    ELSE {world}
-----------------------------------------------------------------------------
(* The log of sent frames. *)

Slot(sequence) == sequence % Backup

\* SV_CSQC_DroppedPacket for each of a run of sequences: a frame that was
\* generated has its log folded into the pending bits, once.
Dropped(fr, run) == {i \in DOMAIN fr : fr[i].sequence \in run}

FoldBits(pending, fr, run) ==
    [e \in DOMAIN pending |->
        pending[e] \cup UNION {fr[i].resend[e] : i \in Dropped(fr, run)}]

FoldFrames(fr, run) ==
    [i \in DOMAIN fr |-> IF i \in Dropped(fr, run)
                         THEN [fr[i] EXCEPT !.resend = NoBits] ELSE fr[i]]

\* SV_AckEntityFrame: everything between the last acknowledgement and this
\* one is assumed lost.
AckRunSlip(acked, framenum) == acked + 2 .. Min({framenum, acked + 1 + Backup}) - 1
AckRun(acked, framenum) == acked + 1 .. Min({framenum, acked + 1 + Backup}) - 1

\* SV_ReplaceEntityFrame: the frame about to be overwritten counts as lost too.
ReplaceRun(acked, framenum) ==
    acked + 1 .. Min({framenum - Backup, acked + 1 + Backup})

Acked(acked, framenum) == Max({acked, framenum})
-----------------------------------------------------------------------------
(* SVFTE_EmitPacketEntities: what has to be said.  pend is pendingdeltabits *)
(* as the frame being replaced leaves it.                                   *)

\* SVFTE_DeltaCalcBits
Changed(from, to) == {f \in Fields : from[f] # to[f]}

\* Without a frame to build on the client is told to forget everything.
WipesSlip(pend) == "remove" \in pend[0]
Wipes(pend) == server.delta < 0 \/ "remove" \in pend[0]

Told(pend) == IF Wipes(pend) THEN Nobody ELSE sentents

\* An entity that is there again despite a remove that is still owed (resent)
\* gets the cheap reset.
Revived(bits) == IF "remove" \in bits THEN (bits \ {"remove"}) \cup {"reset2"} ELSE bits

MarkedEntity(old, new, bits, sticky) ==
    CASE new = Absent /\ old # Absent /\ ~sticky -> {"remove"}
      [] new = Absent /\ (old = Absent \/ sticky) -> bits
      [] new # Absent /\ old = Absent -> {"reset", "reset2"}
      [] new # Absent /\ old # Absent -> Revived(bits) \cup Changed(old, new)

Marked(w, pend) ==
    [e \in 0..MaxEnt |->
        IF e = 0 THEN IF Wipes(pend) THEN {"remove"} ELSE pend[0]
        ELSE MarkedEntity(Told(pend)[e], w[e],
                          IF Wipes(pend) THEN {} ELSE pend[e], e \in Sticky)]

NowTold(w, pend) ==
    [e \in Ents |-> IF w[e] = Absent /\ e \in Sticky THEN Told(pend)[e] ELSE w[e]]
-----------------------------------------------------------------------------
(* SVFTE_EmitPacketEntities: what is said in this packet.  m is Marked, t is *)
(* NowTold.                                                                  *)

\* A reset2 alone waits for something else to change.
Due(m) == {e \in Ents : m[e] \ {"reset2"} # {}}

\* Bits of an entity that is gone: nothing is written, and the bits that are
\* logged are whatever an earlier frame left in that place of the log.
Ghosts(m, t) == {e \in Due(m) : "remove" \notin m[e] /\ t[e] = Absent}
StaleBits == {{}, {"remove"}, {"reset"}, Fields}

\* After an overflow the next packet starts where the last one stopped; the
\* players are in every packet.
SkippedSlip(m, t) == {}
Skipped(m, t) == {e \in Due(m) : /\ "remove" \notin m[e]
                                 /\ t[e] # Absent
                                 /\ Slots < e /\ e < server.next}

Written(m, t, stop) == {e \in Due(m) \ (Ghosts(m, t) \cup Skipped(m, t)) : e < stop}

\* Where the loop ends: at the end, or where it looks for room in vain.
Stops(m, t) == {MaxEnt + 1} \cup {e \in Due(m) : Cardinality(Written(m, t, e)) >= Room}

Item(m, t, e) ==
    CASE "remove" \in m[e] -> Removal
      [] "remove" \notin m[e] /\ {"reset", "reset2"} \cap m[e] # {} ->
            Update(TRUE, Changed(Baseline, t[e]), t[e])
      [] {"remove", "reset", "reset2"} \cap m[e] = {} -> Update(FALSE, m[e], t[e])

\* What is logged for a written entity: a second reset is not tracked.
Logged(bits) == CASE "remove" \in bits -> {"remove"}
                  [] "remove" \notin bits /\ "reset2" \in bits -> bits \ {"reset2"}
                  [] {"remove", "reset2"} \cap bits = {} /\ "reset" \in bits -> {"reset"}
                  [] {"remove", "reset2", "reset"} \cap bits = {} -> bits

LogOf(m, t, stop, stale) ==
    [e \in 0..MaxEnt |-> IF e = 0 THEN m[0]
                         ELSE IF e \in Written(m, t, stop) THEN Logged(m[e])
                         ELSE IF e \in Ghosts(m, t) /\ e < stop THEN stale
                         ELSE {}]

\* What is still to be sent after the packet.
Rest(m, t, stop) ==
    [e \in 0..MaxEnt |-> IF e \in {0} \cup Written(m, t, stop)
                            \/ (e \in Ghosts(m, t) /\ e < stop)
                         THEN {} ELSE m[e]]

\* Packets an entity had to wait for; a packet that removes something, and one
\* without room for any entity, send the round robin back: counting starts anew.
Waiting(m, t, stop) ==
    [e \in Ents |-> IF e \in Due(m) \ (Written(m, t, stop) \cup Ghosts(m, t))
                       /\ \A x \in Written(m, t, stop) : "remove" \notin m[x]
                    THEN waits[e] + 1 ELSE 0]

\* A frame that was neither acknowledged nor folded back is overwritten, or
\* counts as acknowledged from now on.
Lapses(fr, acked) ==
    \E i \in DOMAIN fr : /\ fr[i].sequence > server.acked
                         /\ fr[i].resend # NoBits
                         /\ i = Slot(Sequence) \/ fr[i].sequence <= acked

\* A remove that was resent goes out though the entity is back: nothing that is
\* PVSF_NOREMOVE is looked at when it is not visible.
Misled(m, t, stop) == {e \in Written(m, t, stop) : "remove" \in m[e] /\ t[e] # Absent}

\* Where the next packet starts: at the first entity without room, if any.
NextIndex(section, stop) == IF section /\ stop <= MaxEnt THEN stop ELSE 0

\* The packet, with or without a svcfte_updateentities section, leaves.
Emit(w, pend, fr, acked, section, stop, stale, burst) ==
    LET m == Marked(w, pend)
        t == NowTold(w, pend)
    IN /\ world' = w
       /\ changes' = IF w = world THEN changes ELSE changes + 1
       /\ sentents' = t
       /\ pendingdeltabits' = IF section THEN Rest(m, t, stop) ELSE m
       /\ frames' = [fr EXCEPT ![Slot(Sequence)] =
                        [sequence |-> Sequence,
                         resend |-> IF section THEN LogOf(m, t, stop, stale) ELSE NoBits]]
       /\ s2c' = s2c \cup
            {[seq |-> Sequence, section |-> section, clear |-> section /\ m[0] # {},
              items |-> [e \in Ents |-> IF section /\ e \in Written(m, t, stop)
                                        THEN Item(m, t, e) ELSE Nothing]]}
       /\ lapsed' = (lapsed \/ Lapses(fr, acked))
       /\ misled' = IF section THEN misled \cup Misled(m, t, stop) ELSE misled
       /\ waits' = IF section THEN Waiting(m, t, stop) ELSE [e \in Ents |-> 0]
       /\ server' = [server EXCEPT
            !.acked = acked,
            !.next = NextIndex(section, stop),
            !.send = FALSE,
            !.burst = burst,
            !.outgoing = IF protocol = "NQ" THEN @ ELSE @ + 1,
            !.incoming = IF protocol = "NQ" THEN @ + 1 ELSE @,
            !.unreliable = IF protocol = "NQ" THEN @ + 1 ELSE @]
-----------------------------------------------------------------------------
(* The server. *)

\* SV_SendClientMessages for this client, up to and including the first (for
\* QuakeWorld the only) packet of SV_WriteEntitiesToClient.
SendFrame ==
    LET run == ReplaceRun(server.acked, server.outgoing)
        pend == FoldBits(pendingdeltabits, frames, run)
        fr == FoldFrames(frames, run)
        acked == Acked(server.acked, server.outgoing - Backup)
    IN /\ ~server.burst
       /\ protocol = "QW" => server.send
       /\ Sequence <= MaxSequence
       /\ Cardinality(s2c) < MaxFlight
       /\ Quiet => protocol = "QW" \/ Delivered
       /\ \E w \in Snapshots :
            \/ /\ ~Quiet
               /\ Emit(w, pend, fr, acked, FALSE, MaxEnt + 1, {}, FALSE)
            \/ \E stop \in Stops(Marked(w, pend), NowTold(w, pend)) :
                 \E stale \in IF Ghosts(Marked(w, pend), NowTold(w, pend)) = {}
                              THEN {{}} ELSE StaleBits,
                    burst \in IF protocol = "NQ" /\ stop <= MaxEnt THEN BOOLEAN ELSE {FALSE} :
                      Emit(w, pend, fr, acked, TRUE, stop, stale, burst)
       /\ UNCHANGED <<protocol, client, c2s>>

\* The loop of SV_WriteEntitiesToClient: a NetQuake client gets another packet
\* at once when the entities did not fit into the last one.
SendMore ==
    LET m == Marked(world, pendingdeltabits)
        t == NowTold(world, pendingdeltabits)
    IN /\ server.burst
       /\ \/ /\ Cardinality(s2c) < MaxFlight
             /\ Sequence <= MaxSequence
             /\ \E stop \in Stops(m, t) :
                  \E stale \in IF Ghosts(m, t) = {} THEN {{}} ELSE StaleBits,
                     burst \in IF stop <= MaxEnt THEN BOOLEAN ELSE {FALSE} :
                       Emit(world, pendingdeltabits, frames, server.acked, TRUE, stop, stale, burst)
          \/ /\ Cardinality(s2c) >= MaxFlight \/ Sequence > MaxSequence
             /\ server' = [server EXCEPT !.burst = FALSE]
             /\ UNCHANGED <<world, changes, sentents, pendingdeltabits,
                            frames, s2c, waits, lapsed, misled>>
       /\ UNCHANGED <<protocol, client, c2s>>

\* Netchan_CanPacket says no: the answer to this packet is skipped.
Choke == /\ protocol = "QW" /\ server.send
         /\ ~Quiet
         /\ server' = [server EXCEPT !.send = FALSE]
         /\ UNCHANGED <<protocol, world, changes, sentents, pendingdeltabits,
                        frames, client, s2c, c2s, waits, lapsed, misled>>

\* The packets a channel lets through, and what is still in flight after one:
\* a packet that is older than the last is dropped.
Arrives(p, wire) == Quiet => \A q \in wire : q.seq >= p.seq
AfterSlip(p, wire) == wire \ {p}
After(p, wire) == {q \in wire : q.seq > p.seq}

\* SVQW_ExecuteClientMessage: the sequences, clc_delta, and the header's
\* acknowledgement.
ReceiveQW(p) ==
    LET run == AckRun(server.acked, p.ack)
        slipped == p.seq < server.outgoing
    IN /\ server' = [server EXCEPT
            !.incoming = p.seq,
            !.outgoing = IF slipped THEN @ ELSE p.seq,
            !.send = ~slipped,
            !.delta = p.delta,
            !.acked = Acked(@, p.ack)]
       /\ pendingdeltabits' = FoldBits(pendingdeltabits, frames, run)
       /\ frames' = FoldFrames(frames, run)
       /\ UNCHANGED lapsed

\* clcdp_ackframe for each number of a list: what the numbers skip is lost.
Before(acks, i) == Max({server.acked} \cup {acks[k] : k \in 1..i - 1})
AckRuns(acks) == UNION {AckRun(Before(acks, i), acks[i]) : i \in DOMAIN acks}
Clipped(acks) == \E i \in DOMAIN acks : acks[i] > Before(acks, i) + 1 + Backup

\* SVNQ_ExecuteClientMessage: the sequences and the list of acknowledgements,
\* of which -1 asks for everything again.
ReceiveNQ(p) ==
    LET run == AckRuns(p.acks)
        pend == IF -1 \in Range(p.acks) THEN [pendingdeltabits EXCEPT ![0] = {"remove"}]
                                        ELSE pendingdeltabits
    IN /\ server' = [server EXCEPT !.outgoing = server.incoming,
                                   !.delta = IF p.acks = << >> THEN @ ELSE Last(p.acks),
                                   !.acked = Before(p.acks, Len(p.acks) + 1)]
       /\ pendingdeltabits' = FoldBits(pend, frames, run)
       /\ frames' = FoldFrames(frames, run)
       /\ lapsed' = (lapsed \/ Clipped(p.acks))

ServerReceive(p) == /\ ~server.burst
                    /\ Quiet => ~server.send
                    /\ Arrives(p, c2s)
                    /\ IF protocol = "NQ" THEN ReceiveNQ(p) ELSE ReceiveQW(p)
                    /\ c2s' = After(p, c2s)
                    /\ UNCHANGED <<protocol, world, changes, sentents, client, s2c, waits,
                                   misled>>
-----------------------------------------------------------------------------
(* The client. *)

\* CLFTE_ReadDelta
ReadDelta(item, old) ==
    LET base == IF item.reset THEN Baseline ELSE IF old = Absent THEN Null ELSE old
    IN [f \in Fields |-> IF f \in DOMAIN item.data THEN item.data[f] ELSE base[f]]

Apply(item, old) == CASE item.kind = "nothing" -> old
                      [] item.kind = "remove" -> Absent
                      [] item.kind = "update" -> ReadDelta(item, old)

\* CLFTE_ParseEntities: the packet is applied to the last valid picture; a
\* client that has none shows nothing until it is told to start afresh.
ParseEntities(p) ==
    LET parsed == IF protocol = "NQ" THEN client.parsed + 1 ELSE p.seq
        usable == /\ client.valid # 0
                  /\ parsed - client.valid < Backup - 1
                  /\ Slot(parsed) # Slot(client.valid)
        old == IF usable /\ ~p.clear THEN client.ents ELSE Nobody
        isvalid == usable \/ p.clear
        ack == IF client.valid = 0 THEN -1 ELSE p.seq
    IN [client EXCEPT
            !.incoming = p.seq,
            !.parsed = parsed,
            !.acks = IF protocol = "QW" THEN @
                     ELSE IF Len(@) = Backup THEN [@ EXCEPT ![Backup] = ack]
                     ELSE Append(@, ack),
            !.ents = IF isvalid THEN [e \in Ents |-> Apply(p.items[e], old[e])] ELSE Nobody,
            !.valid = IF isvalid THEN parsed ELSE 0]

ClientReceive(p) == /\ Arrives(p, s2c)
                    /\ client' = IF p.section THEN ParseEntities(p)
                                 ELSE [client EXCEPT !.incoming = p.seq]
                    /\ s2c' = After(p, s2c)
                    /\ UNCHANGED <<protocol, world, changes, sentents, pendingdeltabits,
                                   frames, server, c2s, waits, lapsed, misled>>

\* CLQW_SendCmd and the netchan's header: a picture that has become too old is
\* given up, and without one no delta is asked for.
SendQW ==
    LET valid == IF client.outgoing - client.valid >= Backup - 1 THEN 0 ELSE client.valid
    IN /\ Quiet => Delivered /\ ~server.send
       /\ client' = [client EXCEPT !.outgoing = @ + 1, !.valid = valid]
       /\ c2s' = c2s \cup {[seq |-> client.outgoing, ack |-> client.incoming,
                            delta |-> IF valid = 0 THEN -1 ELSE valid]}

\* CLNQ_SendCmd: every number since the last packet.
SendNQ == /\ IF Quiet THEN client.acks # << >> ELSE client.outgoing < Calm[protocol]
          /\ client' = [client EXCEPT !.outgoing = @ + 1, !.acks = << >>]
          /\ c2s' = c2s \cup {[seq |-> client.outgoing, acks |-> client.acks]}

ClientSend == /\ client.outgoing <= MaxSequence
              /\ Cardinality(c2s) < MaxFlight
              /\ IF protocol = "NQ" THEN SendNQ ELSE SendQW
              /\ UNCHANGED <<protocol, world, changes, sentents, pendingdeltabits, frames,
                             server, s2c, waits, lapsed, misled>>
-----------------------------------------------------------------------------
Lose == /\ \/ \E p \in s2c : p.seq < Calm[protocol] /\ s2c' = s2c \ {p} /\ UNCHANGED c2s
           \/ \E p \in c2s : p.seq < Calm[protocol] /\ c2s' = c2s \ {p} /\ UNCHANGED s2c
        /\ UNCHANGED <<protocol, world, changes, sentents, pendingdeltabits, frames,
                       server, client, waits, lapsed, misled>>

Next == \/ SendFrame
        \/ SendMore
        \/ Choke
        \/ \E p \in c2s : ServerReceive(p)
        \/ ClientSend
        \/ \E p \in s2c : ClientReceive(p)
        \/ Lose

Spec == Init /\ [][Next]_vars
-----------------------------------------------------------------------------

\* The server still has e to send, or has it in the log of a frame that is not
\* acknowledged.
InTheBooks(e) ==
    \/ e \in Due(pendingdeltabits)
    \/ \E i \in DOMAIN frames : /\ frames[i].sequence > server.acked
                                /\ frames[i].resend[e] # {} \/ frames[i].resend[0] # {}

StartsAfresh == \/ client.valid = 0
                \/ server.delta < 0
                \/ "remove" \in pendingdeltabits[0]

\* specs/replacementdeltas.txt of the logs and SV_CSQC_DroppedPacket: where a
\* client's picture differs from what SVFTE_EmitPacketEntities believes it told
\* the client (sentents), the server knows; where it has lost track of what it
\* sent, it starts from scratch.  Nobody knows of an entity removed by mistake.
LossesAreTracked ==
    StartsAfresh \/ \A e \in Ents \ misled : client.ents[e] # sentents[e] => InTheBooks(e)

\* The same as long as no frame of a NetQuake client was overwritten or clipped
\* before it was acknowledged: packets lost, reordered and delayed in both
\* directions, entities that vanish and come back, and packets too small never
\* leave a difference that SV_AckEntityFrame and SV_ReplaceEntityFrame miss.
NothingForgotten == (protocol = "NQ" /\ lapsed) \/ LossesAreTracked

\* SVFTE_EmitPacketEntities resumes at nextdeltaindex: between two packets that
\* remove something no entity waits longer than one turn of the round robin,
\* however often the entities before it change.
EveryoneHasATurn == \A e \in Ents : waits[e] < MaxEnt

\* Packets that overtake each other, and resends of what was logged: the
\* client's picture of an entity never goes back to an older change (to the
\* baseline it does, of an entity that was new again).
NeverOlder ==
    [][\A e \in Ents, f \in Fields :
          /\ client.ents[e] # Absent /\ client'.ents[e] # Absent
          /\ client'.ents[e][f] # 0
          => client'.ents[e][f] >= client.ents[e][f]]_vars

\* Once the world stands still and packets come through, the packets up to
\* MaxSequence suffice for the client to see what there is: what
\* SVFTE_EmitPacketEntities owes is sent, CLFTE_ParseEntities gets a picture it
\* may build on, and both agree on it.
CatchesUp ==
    Settled => \/ protocol = "NQ" /\ lapsed
               \/ /\ \A e \in Ents \ misled : client.ents[e] = sentents[e]
                  /\ \A e \in Ents \ Sticky : client.ents[e] = world[e]
=============================================================================
