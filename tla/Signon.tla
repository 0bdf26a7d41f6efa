------------------------------- MODULE Signon -------------------------------
(***************************************************************************)
(* How a QuakeWorld client gets into the game, and into the next one when  *)
(* the map changes under its feet.                                         *)
(*                                                                         *)
(* The server (engine/server/sv_user.c) sends the serverdata, the          *)
(* serverinfo, the names of the sounds and models, waits for the client's  *)
(* prespawn, sends what it has of the map, stuffs "cmd spawn", answers     *)
(* spawn with "skins" and lets the player in when begin comes.             *)
(* prespawn_stage says where it is.  The client (engine/client/cl_parse.c, *)
(* cl_input.c) answers each of these through a list of commands that       *)
(* CL_SendCmd empties into its reliable message.  A change of map starts   *)
(* everything anew with a new spawncount, whatever is still under way.     *)
(*                                                                         *)
(* Each direction is a reliable stream (ReliableStream is what the channel *)
(* promises): out.message and c2s hold what the reader has not parsed, of  *)
(* the message being filled and of the one in flight.  How much fits into  *)
(* a message is left open.  Messages are parsed one by one; how they are   *)
(* packed is left open too.  Left out: what else fills the messages, the   *)
(* map checksum, failed loads, cinematics, redirects, and other seats.     *)
(***************************************************************************)
EXTENDS Integers, Sequences, SequencesExt

CONSTANTS Sounds, Models,   \* names in the lists of every map
          SignonData,       \* particles, statics, baselines: what follows prespawn
          MaxSpawncount,    \* bound: maps
          MaxEvents         \* bound: reconnects, missing files and changes of the
                            \* userinfo, together

ASSUME SignonAssumption ==
    /\ {Sounds, Models, SignonData, MaxSpawncount} \subseteq Nat \ {0}
    /\ MaxEvents \in Nat

VARIABLES deltas,   \* the client has PEXT2_REPLACEMENTDELTAS
          server,   \* svs.spawncount and the client_t
          out,      \* netchan.message and what is in flight, and the back buffers
          client,   \* cl, cls and clientcmdlist
          c2s,      \* the client's reliable stream
          frame,    \* the map of the last entity frame under way, or 0
          spent,    \* how many of MaxEvents happened
          left      \* history: the maps on which a begin of another map was taken

vars == <<deltas, server, out, client, c2s, frame, spent, left>>

\* prespawn_stage; SIGNON stands for the stages from PARTICLES to BASELINES.
INVALID == 0
SERVERINFO == 1
SOUNDLIST == 2
MODELLIST == 3
MAPCHECK == 4
SIGNON == 5
SPAWN == 6
COMPLETED == 7

\* What the server writes: names are what a piece of a list holds.
Msg(kind, map) == [kind |-> kind, map |-> map, names |-> {}, last |-> FALSE]
Piece(kind, map, names, last) ==
    [kind |-> kind, map |-> map, names |-> names, last |-> last]

\* What the client writes, with the userinfo the user has when it is written.
Command(name, map) == [name |-> name, map |-> map, info |-> client.info]

Init == /\ deltas \in BOOLEAN
        /\ \E known \in BOOLEAN :
             server = [spawncount |-> 1, state |-> "connected", stage |-> INVALID,
                       idx |-> 0, soundlist |-> FALSE, modellist |-> FALSE,
                       pextknown |-> known, setup |-> FALSE, spawned |-> FALSE, info |-> 0]
        /\ out = [message |-> << >>, backbuf |-> << >>]
        /\ client = [state |-> "connected", servercount |-> 0, serverinfo |-> 0,
                     sounds |-> {}, models |-> {}, signon |-> {},
                     sendprespawn |-> FALSE, worldmodel |-> FALSE, valid |-> FALSE,
                     downloading |-> FALSE, info |-> 0, sync |-> FALSE,
                     cmds |-> <<[name |-> "new", map |-> 0]>>]
        /\ c2s = << >>
        /\ frame = 0
        /\ spent = 0
        /\ left = {}
-----------------------------------------------------------------------------
(* Writing to the client. *)

\* MSG_Write straight to netchan.message
Direct(o, msg) == [o EXCEPT !.message = Append(@, msg)]

\* ClientReliableWrite: behind what is in the back buffers, else into the
\* message if there is room; an empty message has.
Write(o, msg) ==
    LET back == [o EXCEPT !.backbuf = Append(@, msg)]
    IN IF o.backbuf # << >> THEN {back}
       ELSE {Direct(o, msg)} \cup IF o.message = << >> THEN {} ELSE {back}

\* SV_SendClientMessages: back buffers move to the message, if they fit.
Flushed(o) ==
    {[message |-> o.message \o SubSeq(o.backbuf, 1, n),
      backbuf |-> SubSeq(o.backbuf, n + 1, Len(o.backbuf))] :
         n \in (IF o.message = << >> /\ o.backbuf # << >> THEN 1 ELSE 0)..Len(o.backbuf)}
-----------------------------------------------------------------------------
(* SV_New_f: from the start, unless the client is in the game. *)

Restarted(s) == [s EXCEPT !.stage = IF s.state = "spawned" \/ ~s.pextknown THEN INVALID
                                    ELSE SERVERINFO,
                          !.idx = 0]

Greeted(s, o) == CASE s.state = "spawned" -> {o}
                   [] s.state # "spawned" /\ ~s.pextknown -> Write(o, Msg("pext", s.spawncount))
                   [] s.state # "spawned" /\ s.pextknown -> Write(o, Msg("serverdata", s.spawncount))

New(s) == /\ server' = Restarted(s)
          /\ out' \in Greeted(s, out)

\* Nobody is in the game between two maps.
TakenOutSlip(s) == [s EXCEPT !.spawned = FALSE, !.setup = FALSE]
TakenOut(s) == [s EXCEPT !.state = "connected", !.spawned = FALSE, !.setup = FALSE]

\* SV_Map_f with SV_SpawnServer: the client is told, taken out of the game and
\* greeted on the next map.
MapChange ==
    LET s == [TakenOut(server) EXCEPT !.spawncount = @ + 1]
    IN /\ server.spawncount < MaxSpawncount
       /\ server' = Restarted(s)
       /\ \E told \in Write(out, Msg("changing", server.spawncount)) :
            \E sent \in Flushed(told) : out' \in Greeted(s, sent)
       /\ UNCHANGED <<deltas, client, c2s, frame, spent, left>>
-----------------------------------------------------------------------------
(* The commands of the client. *)

\* The next one is name, and is taken from the stream.
Takes(name) == /\ c2s # << >> /\ Head(c2s).name = name
               /\ c2s' = Tail(c2s)
               /\ UNCHANGED <<deltas, client, frame, spent>>

Stale == Head(c2s).map # server.spawncount

ExecNew == Takes("new") /\ New(server) /\ UNCHANGED left

\* SV_Pext_f
ExecPext == /\ Takes("pext")
            /\ \/ server.pextknown /\ UNCHANGED <<server, out>>
               \/ ~server.pextknown /\ New([server EXCEPT !.pextknown = TRUE])
            /\ UNCHANGED left

\* SVQW_Soundlist_f and SVQW_Modellist_f
ExecList == /\ \/ Takes("soundlist") /\ server' = [server EXCEPT !.soundlist = TRUE]
               \/ Takes("modellist") /\ server' = [server EXCEPT !.modellist = TRUE]
            /\ UNCHANGED <<out, left>>

\* SV_SetInfo_f
ExecSetinfo == /\ Takes("setinfo")
               /\ server' = [server EXCEPT !.info = Head(c2s).info]
               /\ UNCHANGED <<out, left>>

\* SVQW_PreSpawn_f
ExecPrespawn ==
    /\ Takes("prespawn")
    /\ \/ /\ server.state = "spawned" \/ server.stage # MAPCHECK
          /\ UNCHANGED <<server, out>>
       \/ /\ server.state = "connected" /\ server.stage = MAPCHECK /\ Stale
          /\ New(server)
       \/ /\ server.state = "connected" /\ server.stage = MAPCHECK /\ ~Stale
          /\ server' = [server EXCEPT !.stage = MAPCHECK + 1, !.idx = 0]
          /\ UNCHANGED out
    /\ UNCHANGED left

\* SVQW_Spawn_f: the edict is set up, and the client told of all there is.
SpawnIsEarly == server.stage <= SPAWN \/ Stale

ExecSpawn ==
    /\ Takes("spawn")
    /\ \/ server.state = "spawned" /\ UNCHANGED <<server, out>>
       \/ server.state = "connected" /\ SpawnIsEarly /\ New(server)
       \/ /\ server.state = "connected" /\ ~SpawnIsEarly
          /\ server' = [server EXCEPT !.setup = TRUE]
          /\ out' \in Write(out, Msg("skins", server.spawncount))
    /\ UNCHANGED left

\* SV_Begin_f: it is in the game before it is asked which.
BeginIsStaleSlip == FALSE
BeginIsStale == Stale

ExecBegin ==
    /\ Takes("begin")
    /\ \/ server.state = "spawned" /\ UNCHANGED <<server, out, left>>
       \/ /\ server.state = "connected" /\ BeginIsStale
          /\ New([server EXCEPT !.state = "spawned"])
          /\ left' = left \cup {server.spawncount}
       \/ /\ server.state = "connected" /\ ~BeginIsStale
          /\ server' = [server EXCEPT !.state = "spawned", !.spawned = TRUE]
          /\ UNCHANGED <<out, left>>

Execute == \/ ExecNew \/ ExecPext \/ ExecList \/ ExecSetinfo
           \/ ExecPrespawn \/ ExecSpawn \/ ExecBegin
-----------------------------------------------------------------------------
(* SV_SendClientMessages: back buffers first, then SV_SendClientPrespawnInfo *)
(* stage by stage.                                                           *)

SendBackbuf == /\ out.backbuf # << >>
               /\ out' \in Flushed(out) \ {out}
               /\ UNCHANGED <<deltas, server, client, c2s, frame, spent, left>>

\* SV_SendClientPrespawnInfo does nothing behind a back buffer.
Idle == out.backbuf = << >>

\* The lists are written straight into the message; the serverinfo before them
\* may have gone to a back buffer.
ListsMayGoSlip == \A msg \in ToSet(out.backbuf) : msg.kind = "serverinfo"
ListsMayGo == out.backbuf = << >>

SendServerinfo ==
    /\ server.stage = SERVERINFO /\ Idle
    /\ out' \in Write(out, Msg("serverinfo", server.spawncount))
    /\ server' = [server EXCEPT !.stage = SOUNDLIST, !.idx = 0]
    /\ UNCHANGED <<deltas, client, c2s, frame, spent, left>>

\* From prespawn_idx on as much as fits: some names, or the rest and the end.
Pieces(total) == {p \in [n : 0..total - server.idx, last : BOOLEAN] :
                     IF p.last THEN p.n = total - server.idx ELSE p.n > 0}
Names(p) == server.idx + 1..server.idx + p.n

Advanced(s, p) == [s EXCEPT !.stage = IF p.last THEN @ + 1 ELSE @,
                            !.idx = IF p.last THEN 0 ELSE @ + p.n]

\* A client without replacement deltas asks for every piece.
SendSoundlist ==
    /\ server.stage = SOUNDLIST /\ ListsMayGo
    /\ deltas \/ server.soundlist
    /\ \E p \in Pieces(Sounds) :
         /\ server' = Advanced([server EXCEPT !.soundlist = FALSE], p)
         /\ out' = Direct(out, Piece("soundlist", server.spawncount, Names(p), p.last))
    /\ UNCHANGED <<deltas, client, c2s, frame, spent, left>>

SendModellist ==
    /\ server.stage = MODELLIST /\ ListsMayGo
    /\ deltas \/ server.modellist
    /\ \E p \in Pieces(Models) :
         /\ server' = Advanced([server EXCEPT !.modellist = FALSE], p)
         /\ out' = Direct(out, Piece("modellist", server.spawncount, Names(p), p.last))
    /\ UNCHANGED <<deltas, client, c2s, frame, spent, left>>

\* The stages from PARTICLES to BASELINES, and behind the last of it "cmd spawn".
SendSignon ==
    /\ server.stage = SIGNON /\ Idle
    /\ \E p \in Pieces(SignonData) :
         LET sent == IF p.n = 0 THEN out
                     ELSE Direct(out, Piece("signon", server.spawncount, Names(p), p.last))
         IN IF p.last
            THEN /\ server' = [server EXCEPT !.stage = COMPLETED, !.idx = 0]
                 /\ out' \in Write(sent, Msg("spawn", server.spawncount))
            ELSE /\ server' = Advanced(server, p)
                 /\ out' = sent
    /\ UNCHANGED <<deltas, client, c2s, frame, spent, left>>

\* SV_SendClientDatagram: entities for whoever is in the game.  A frame that is
\* lost is one not sent.
SendFrame == /\ server.state = "spawned"
             /\ frame' = server.spawncount
             /\ UNCHANGED <<deltas, server, out, client, c2s, spent, left>>
-----------------------------------------------------------------------------
(* The client: what it is sent. *)

\* CL_RemoveClientCommands, and CL_SendClientCommand behind it
Without(cmds, name) ==
    LET kept[i \in 0..Len(cmds)] ==
            IF i = 0 THEN << >>
            ELSE IF cmds[i].name = name THEN kept[i - 1] ELSE Append(kept[i - 1], cmds[i])
    IN kept[Len(cmds)]
Send(c, name) ==
    [c EXCEPT !.cmds = Append(@, [name |-> name, map |-> c.servercount])]
Resend(c, name) == Send([c EXCEPT !.cmds = Without(@, name)], name)

\* CL_Changing_f, which leaves a client alone that is downloading
Changing(c) == IF c.downloading THEN c ELSE [c EXCEPT !.state = "connected"]

\* CLQW_ParseServerData with CL_ClearState: of the last map only the commands
\* in the list remain.
ClearedSlip(c, map) ==
    [c EXCEPT !.servercount = map, !.serverinfo = 0, !.sounds = {}, !.models = {},
              !.signon = {}, !.sendprespawn = FALSE, !.worldmodel = FALSE]
Cleared(c, map) ==
    [c EXCEPT !.servercount = map, !.serverinfo = 0, !.sounds = {}, !.models = {},
              !.signon = {}, !.sendprespawn = FALSE, !.worldmodel = FALSE, !.valid = FALSE]

ParseServerData(c, msg) ==
    Resend([Cleared(c, msg.map) EXCEPT !.state = "onserver", !.cmds = Without(@, "new")],
           "soundlist")

Parsed(c, msg) ==
    LET got == {msg.map} \X msg.names
    IN CASE msg.kind = "changing" -> Changing(c)
         [] msg.kind = "serverdata" -> ParseServerData(c, msg)
         [] msg.kind = "serverinfo" -> [c EXCEPT !.serverinfo = msg.map]
         [] msg.kind = "soundlist" -> Resend([c EXCEPT !.sounds = @ \cup got],
                                             IF msg.last THEN "modellist" ELSE "soundlist")
         [] msg.kind = "modellist" ->
                IF msg.last THEN [c EXCEPT !.models = @ \cup got, !.sendprespawn = TRUE]
                ELSE Resend([c EXCEPT !.models = @ \cup got], "modellist")
         [] msg.kind = "signon" -> [c EXCEPT !.signon = @ \cup got]
         [] msg.kind = "pext" -> Send(c, "pext")
         [] msg.kind = "spawn" -> [c EXCEPT !.cmds =
                Append(@, [name |-> "spawn", map |-> msg.map])]
         [] msg.kind = "skins" -> Send(c, "begin")

\* A packet of the next map overtakes the entity frames of the last one.
Receive == /\ out.message # << >>
           /\ LET msg == Head(out.message)
              IN /\ client' = Parsed(client, msg)
                 /\ frame' = IF msg.kind = "serverdata" /\ frame < msg.map THEN 0 ELSE frame
           /\ out' = [out EXCEPT !.message = Tail(@)]
           /\ UNCHANGED <<deltas, server, c2s, spent, left>>

\* An entity frame: cl.validsequence
ReceiveFrame == /\ frame # 0
                /\ frame' = 0
                /\ client' = [client EXCEPT !.valid = TRUE]
                /\ UNCHANGED <<deltas, server, out, c2s, spent, left>>
-----------------------------------------------------------------------------
(* The client: what it does by itself, once a frame. *)

\* CL_RequestNextDownload: a missing file is asked for, and arrives or not.
Download == /\ client.sendprespawn /\ ~client.downloading
            /\ spent < MaxEvents /\ spent' = spent + 1
            /\ client' = [client EXCEPT !.downloading = TRUE]
            /\ UNCHANGED <<deltas, server, out, c2s, frame, left>>

DownloadEnds == /\ client.downloading
                /\ client' = [client EXCEPT !.downloading = FALSE]
                /\ UNCHANGED <<deltas, server, out, c2s, frame, spent, left>>

\* CL_RequestNextDownload with nothing left to fetch: the models are loaded and
\* the server may go on.
Load == /\ client.sendprespawn /\ ~client.downloading
        /\ client' = Resend([client EXCEPT !.sendprespawn = FALSE, !.worldmodel = TRUE],
                            "prespawn")
        /\ UNCHANGED <<deltas, server, out, c2s, frame, spent, left>>

\* Host_Frame: the first update is the final signon stage.
MakeActive == /\ client.state = "onserver" /\ client.valid /\ client.worldmodel
              /\ client' = [client EXCEPT !.state = "active"]
              /\ UNCHANGED <<deltas, server, out, c2s, frame, spent, left>>

\* CL_Reconnect_f of a user who sees the map change
Reconnect == /\ client.state = "connected" /\ ~client.downloading
             /\ spent < MaxEvents /\ spent' = spent + 1
             /\ client' = Send(client, "new")
             /\ UNCHANGED <<deltas, server, out, c2s, frame, left>>

SetInfo == /\ spent < MaxEvents /\ spent' = spent + 1
           /\ client' = [client EXCEPT !.info = @ + 1, !.sync = TRUE]
           /\ UNCHANGED <<deltas, server, out, c2s, frame, left>>

\* CL_SendCmd holds spawn, and what is behind it, until the userinfo is sent.
HoldsSlip(c, cmd) == FALSE
Holds(c, cmd) == cmd.name = "spawn" /\ c.sync /\ c.serverinfo # 0

SendUserinfo == /\ client.sync /\ client.serverinfo # 0
                /\ c2s' = Append(c2s, Command("setinfo", client.servercount))
                /\ client' = [client EXCEPT !.sync = FALSE]
                /\ UNCHANGED <<deltas, server, out, frame, spent, left>>

\* The userinfo goes first if the message has room for it.
SendCommands ==
    /\ client.cmds # << >> /\ ~Holds(client, Head(client.cmds))
    /\ c2s = << >> => ~(client.sync /\ client.serverinfo # 0)
    /\ LET cmd == Head(client.cmds) IN c2s' = Append(c2s, Command(cmd.name, cmd.map))
    /\ client' = [client EXCEPT !.cmds = Tail(@)]
    /\ UNCHANGED <<deltas, server, out, frame, spent, left>>
-----------------------------------------------------------------------------
Next == \/ MapChange \/ Execute
        \/ SendBackbuf \/ SendServerinfo \/ SendSoundlist \/ SendModellist
        \/ SendSignon \/ SendFrame
        \/ Receive \/ ReceiveFrame
        \/ Download \/ DownloadEnds \/ Load \/ MakeActive
        \/ Reconnect \/ SetInfo \/ SendUserinfo \/ SendCommands

Spec == Init /\ [][Next]_vars

\* Both programs run frame after frame and the channel delivers.  Nobody has to
\* change the map, reconnect, miss a file or change a name.
FairSpec == /\ Spec
            /\ WF_vars(Execute)
            /\ WF_vars(SendBackbuf) /\ WF_vars(SendServerinfo)
            /\ WF_vars(SendSoundlist) /\ WF_vars(SendModellist)
            /\ WF_vars(SendSignon) /\ WF_vars(SendFrame)
            /\ WF_vars(Receive) /\ WF_vars(ReceiveFrame)
            /\ WF_vars(DownloadEnds) /\ WF_vars(Load) /\ WF_vars(MakeActive)
            /\ WF_vars(SendUserinfo) /\ WF_vars(SendCommands)
-----------------------------------------------------------------------------
\* All of a list of the map the client is told it plays, and nothing else.
Whole(got, total) == got = {client.servercount} \X (1..total)

\* The serverinfo and both lists are the whole lists of this map, in however many
\* pieces and over however many restarts they came, when the client goes about
\* its downloads, loads the models and starts the client-side program, all of
\* which read them (sv_user.c:1659, where the lists once overtook the serverinfo).
ListsAreWhole ==
    client.sendprespawn \/ client.worldmodel =>
        /\ client.serverinfo = client.servercount
        /\ Whole(client.sounds, Sounds)
        /\ Whole(client.models, Models)

\* A client takes its first entity frame for the end of the signon
\* (cl_main.c:7672).  It is right: nothing of this map, from the models to the last
\* baseline, is missing then, and no frame of another map was taken for it.
ActiveIsComplete ==
    client.state = "active" /\ (\A map \in left : map < client.servercount) =>
        /\ client.worldmodel
        /\ Whole(client.signon, SignonData)

\* A player the server lets into the game has an edict set up on this map, for a
\* client that is on this map too and was sent all of it, whatever the maps did
\* in between (SV_Begin_f's and SV_Spawn_f's spawncount).
SpawnedIsThere ==
    server.state = "spawned" /\ server.spawncount \notin left =>
        /\ server.spawned /\ server.setup
        /\ client.servercount = server.spawncount
        /\ Whole(client.signon, SignonData)

\* When spawn sets the player up, the server has the userinfo as the user had it
\* when the spawn was written ("don't send the spawn until all pending userinfos
\* have been flushed", cl_input.c:3425).
SpawnKnowsUserinfo ==
    [][~server.setup /\ server'.setup => server.info >= Head(c2s).info]_vars

Joined == /\ server.state = "spawned" /\ server.spawned
          /\ client.state = "active" /\ client.servercount = server.spawncount

\* Whatever was under way when the map changed, the client ends up in the game on
\* the last map, unless a begin of an earlier one got in its way.
EveryoneIsRestarted == <>[](Joined \/ server.spawncount \in left)
=============================================================================
