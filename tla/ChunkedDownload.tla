--------------------------- MODULE ChunkedDownload ---------------------------
(***************************************************************************)
(* Chunked downloads (PEXT_CHUNKEDDOWNLOADS): a client fetches files from  *)
(* its server one at a time, and each file in chunks that it asks for.     *)
(*                                                                         *)
(* The client (engine/client/cl_parse.c) keeps a list of the blocks of the *)
(* file: missing, pending or received.  Every frame it gives up requests   *)
(* that are more than ten packets old, asks for some missing chunks with   *)
(* unreliable "nextdl" commands, and when nothing is missing renames the   *)
(* temporary file.  The server (engine/server/sv_user.c) puts a chunk into *)
(* the client's next datagram or, when that is full, sends it out of band. *)
(* Files are opened and closed by reliable commands, and the server says   *)
(* reliably that a file starts or cannot be had.                           *)
(*                                                                         *)
(* up is what the client has said and the server has not seen: reliable    *)
(* commands arrive, requests may be lost, and nothing overtakes, because   *)
(* the channel drops late packets (NetChan).  packet is the one packet     *)
(* between server and client; it brings the first rel messages of the      *)
(* reliable stream, then the datagram's chunk.  Out of band chunks take    *)
(* their own ways.  Offsets are counted in units of which a chunk has      *)
(* BlockSize; a chunk's data is the name of the file it was read from.     *)
(*                                                                         *)
(* Left out: redirections, demos, other download methods, the rate (a poll *)
(* may ask for any number of chunks), paths too narrow for a datagram with *)
(* a chunk, and resuming: DL_Begun never takes a list of valid chunks over *)
(* (see the README).                                                       *)
(***************************************************************************)
EXTENDS Integers, Sequences, FiniteSets, SequencesExt

CONSTANTS Files,        \* names
          Absentees,    \* those the server does not have or does not give
          Size,         \* of each file
          BlockSize,    \* DLBLOCKSIZE
          MaxAsked,     \* bound: chunks one poll may ask for
          MaxEnqueued,  \* bound: downloads ordered
          MaxSkips,     \* bound: downloads the player stops
          MaxErrors,    \* bound: files that fail to open, reads that fail
          MayBeLate     \* whether an out of band answer may come after its
                        \* request was given up

None == "none"

ASSUME DownloadAssumption ==
    /\ None \notin Files
    /\ Absentees \subseteq Files
    /\ Size \in [Files -> Nat \ {0}]
    /\ BlockSize \in Nat \ {0}
    /\ {MaxAsked, MaxEnqueued, MaxSkips, MaxErrors} \subseteq Nat
    /\ MayBeLate \in BOOLEAN

VARIABLES list,         \* cl.downloadlist, the next one first
          dl,           \* cls.download
          dlsequence,   \* the number of the last download
          disk,         \* what is under each file's real name
          ended,        \* Host_EndGame
          up,           \* commands under way to the server
          download,     \* client_t: the file the server has open
          datagram,     \* client_t: the chunk in the next datagram, if any
          rel,          \* the reliable messages under way to the client
          packet,       \* the packet under way to the client
          oob,          \* the out of band chunks under way to the client
          enqueued, skips, errors   \* how often

vars == <<list, dl, dlsequence, disk, ended, up, download, datagram, rel, packet,
          oob, enqueued, skips, errors>>
-----------------------------------------------------------------------------
Chunks == 0 .. Max({Size[f] : f \in Files}) \div BlockSize

Block(start, end, state) == [start |-> start, end |-> end, state |-> state]

\* a temporary file: which file's data each chunk holds
NoData == [c \in Chunks |-> None]

\* CL_SendDownloadStartRequest: DL_QWPENDING
Pending(f, sequence) ==
    [file |-> f, sequence |-> sequence, method |-> "pending", blocks |-> <<>>,
     completedbytes |-> 0, data |-> NoData, stray |-> FALSE]

NoDownload == [Pending(None, 0) EXCEPT !.method = None]

\* the commands of the client
Nextdl(c, sequence) == [cmd |-> "nextdl", chunk |-> c, sequence |-> sequence]
Stop == [cmd |-> "stop"]                       \* nextdl -1
Download(f) == [cmd |-> "download", file |-> f]

\* what the server sends: data read from file to answer request sequence
Chunk(c, f, sequence) == [num |-> c, file |-> f, sequence |-> sequence]

NoPacket == [rel |-> 0, chunks |-> {}, state |-> None]

Init == /\ list = <<>>
        /\ dl = NoDownload
        /\ dlsequence = 0
        /\ disk = [f \in Files |-> [data |-> NoData, stray |-> FALSE, state |-> None]]
        /\ ended = FALSE
        /\ up = <<>>
        /\ download = None
        /\ datagram = {}
        /\ rel = <<>>
        /\ packet = NoPacket
        /\ oob = {}
        /\ enqueued = 0 /\ skips = 0 /\ errors = 0
-----------------------------------------------------------------------------
(***************************************************************************)
(* DL_Completed walks along the list of blocks.  w.done is what lies       *)
(* behind, w.rest ahead; the last of w.done is prev, the first of w.rest   *)
(* is b.  Data from start to end has arrived.                              *)
(***************************************************************************)
\* the branch taken for b: what becomes of it, with the block to be merged as cur
Cut(b, start, end) ==
    CASE b.state = "RECEIVED" ->
           [before |-> <<>>, cur |-> b, after |-> <<>>, bytes |-> 0]
      [] b.state # "RECEIVED" /\ b.start >= start /\ b.end <= end ->
           [before |-> <<>>, cur |-> [b EXCEPT !.state = "RECEIVED"], after |-> <<>>,
            bytes |-> b.end - b.start]
      [] b.state # "RECEIVED" /\ start > b.start /\ end < b.end ->
           [before |-> <<>>, cur |-> [b EXCEPT !.end = start],
            after |-> <<Block(start, end, "RECEIVED"), [b EXCEPT !.start = end]>>,
            bytes |-> end - start]
      [] b.state # "RECEIVED" /\ start <= b.start /\ b.start < end /\ end < b.end ->
           [before |-> <<>>, cur |-> Block(b.start, end, "RECEIVED"),
            after |-> <<[b EXCEPT !.start = end]>>, bytes |-> end - b.start]
      [] b.state # "RECEIVED" /\ b.start < start /\ start < b.end /\ b.end <= end ->
           [before |-> <<[b EXCEPT !.end = end]>>, cur |-> Block(end, b.end, "RECEIVED"),
            after |-> <<>>, bytes |-> b.end - end]

Touches(b, start, end) == b.state = "RECEIVED" \/ (b.start < end /\ start < b.end)

StartsReceived(blocks) == blocks # <<>> /\ Head(blocks).state = "RECEIVED"

EndsReceived(blocks) == blocks # <<>> /\ Last(blocks).state = "RECEIVED"

\* merge cur with the next block, then with the previous one
Merged(done, cur, rest) ==
    LET joins == StartsReceived(rest)
        c == IF joins THEN [cur EXCEPT !.end = Head(rest).end] ELSE cur
    IN  [done |-> IF EndsReceived(done)
                  THEN [done EXCEPT ![Len(done)].end = c.end]
                  ELSE Append(done, c),
         rest |-> IF joins THEN Tail(rest) ELSE rest]

Walk(w, start, end) ==
    IF w.rest = <<>> THEN w
    ELSE LET b == Head(w.rest) IN
         IF Touches(b, start, end)
         THEN LET k == Cut(b, start, end)
                  m == Merged(w.done \o k.before, k.cur, k.after \o Tail(w.rest))
              IN  [done |-> m.done, rest |-> m.rest, bytes |-> w.bytes + k.bytes]
         ELSE [w EXCEPT !.done = Append(@, b), !.rest = Tail(@)]

DL_Completed(d, start, end) ==
    LET steps == Len(d.blocks) + 2     \* a block is cut into three at most once
        walk[i \in 0..steps] ==
            IF i = 0 THEN [done |-> <<>>, rest |-> d.blocks, bytes |-> 0]
            ELSE Walk(walk[i - 1], start, end)
    IN  [d EXCEPT !.blocks = walk[steps].done,
                  !.completedbytes = @ + walk[steps].bytes]
-----------------------------------------------------------------------------
(***************************************************************************)
(* DLC_RequestDownloadChunks walks likewise: lost requests are given up    *)
(* and joined with what follows, and missing chunks asked for until quota  *)
(* is used up.                                                             *)
(***************************************************************************)
GivenUp(b, lost) == b.state = "PENDING" /\ b \in lost

\* how many blocks at the head of rest are joined to one given up
JoinedTo(rest, lost) ==
    Max({n \in 0..Len(rest) :
            \A i \in 1..n : rest[i].state = "MISSING" \/ GivenUp(rest[i], lost)})

Revert(b, rest, lost) ==
    LET n == JoinedTo(rest, lost) IN
    IF GivenUp(b, lost)
    THEN [block |-> Block(b.start, IF n = 0 THEN b.end ELSE rest[n].end, "MISSING"),
          rest |-> SubSeq(rest, n + 1, Len(rest))]
    ELSE [block |-> b, rest |-> rest]

\* Ask for the first chunk of a missing block, and split it off.
Ask(w, b, rest) ==
    LET c == b.start \div BlockSize
        cut == (c + 1) * BlockSize
        splits == b.end - b.start > BlockSize
    IN  [done |-> Append(w.done, Block(b.start, IF splits THEN cut ELSE b.end, "PENDING")),
         rest |-> IF splits THEN <<Block(cut, b.end, "MISSING")>> \o rest ELSE rest,
         asked |-> Append(w.asked, c)]

AskStep(w, lost, quota) ==
    IF w.rest = <<>> \/ Len(w.asked) = quota THEN w
    ELSE LET r == Revert(Head(w.rest), Tail(w.rest), lost) IN
         IF r.block.state = "MISSING"
         THEN Ask(w, r.block, r.rest)
         ELSE [w EXCEPT !.done = Append(@, r.block), !.rest = r.rest]

DLC_RequestDownloadChunks(d, lost, quota) ==
    LET steps == Len(d.blocks) + quota
        walk[i \in 0..steps] ==
            IF i = 0 THEN [done |-> <<>>, rest |-> d.blocks, asked |-> <<>>]
            ELSE AskStep(walk[i - 1], lost, quota)
        end == walk[steps]
    IN  [blocks |-> end.done \o end.rest, asked |-> end.asked]
-----------------------------------------------------------------------------
(***************************************************************************)
(* The client.  c stands for its list, dl, dlsequence, disk and up; a      *)
(* handler is a sequence of changes to them.                               *)
(***************************************************************************)
Client == [list |-> list, dl |-> dl, dlsequence |-> dlsequence, disk |-> disk, up |-> up]

ClientBecomes(c) == /\ list' = c.list
                    /\ dl' = c.dl
                    /\ dlsequence' = c.dlsequence
                    /\ disk' = c.disk
                    /\ up' = c.up

\* CL_RequestNextDownload with CL_SendDownloadStartRequest
RequestNextDownload(c) ==
    IF c.dl # NoDownload \/ c.list = <<>> THEN c
    ELSE [c EXCEPT !.list = Tail(@),
                   !.dlsequence = @ + 1,
                   !.dl = Pending(Head(c.list), c.dlsequence + 1),
                   !.up = Append(@, Download(Head(c.list)))]

\* DL_Abort: the server is told if the file had begun
DL_Abort(c) ==
    [c EXCEPT !.dl = NoDownload,
              !.up = IF c.dl.method = "chunks" THEN Append(@, Stop) ELSE @]

\* CL_DownloadFinished: DL_Abort with QDL_COMPLETED
DownloadFinished(c) ==
    DL_Abort([c EXCEPT !.disk[c.dl.file] =
                  [data |-> c.dl.data, stray |-> c.dl.stray, state |-> "there"]])

DownloadFailed(c, f) ==
    LET a == IF c.dl.file = f THEN DL_Abort(c) ELSE c IN
    [a EXCEPT !.list = SelectSeq(@, LAMBDA g : g # f)]

\* DL_Begun, with nothing to resume
DL_Begun(d) == [d EXCEPT !.method = "chunks",
                         !.blocks = <<Block(0, Size[d.file], "MISSING")>>]

(* The data of chunk k is written where it belongs.  The last chunk of a    *)
(* file is cut short; one that starts behind the end is not.                *)
Stored(d, k) ==
    LET written == IF k.num * BlockSize = Size[d.file] THEN d.data
                   ELSE [d.data EXCEPT ![k.num] = k.file]
    IN  [d EXCEPT !.data = written, !.stray = @ \/ k.sequence # d.sequence]

\* the end of CL_ParseChunkedDownload
Parsed(c, k) ==
    IF c.dl.method # "chunks" \/ k.num * BlockSize > Size[c.dl.file] + BlockSize THEN c
    ELSE LET d == DL_Completed(Stored(c.dl, k), k.num * BlockSize, (k.num + 1) * BlockSize)
             n == [c EXCEPT !.dl = d]
         IN  IF d.completedbytes = Size[d.file] THEN DownloadFinished(n) ELSE n
-----------------------------------------------------------------------------
\* The client parses one packet at a time, and does nothing else meanwhile.
Free == ~ended /\ packet.state # "reading"

Server == <<download, datagram>>
Counts == <<enqueued, skips, errors>>

\* CL_EnqueDownload, as the player's download command calls it
Enqueue(f) ==
    /\ Free
    /\ enqueued < MaxEnqueued
    /\ f # dl.file /\ \A i \in 1..Len(list) : list[i] # f
    /\ list' = <<f>> \o list
    /\ enqueued' = enqueued + 1
    /\ UNCHANGED <<dl, dlsequence, disk, ended, up, Server, rel, packet, oob, skips, errors>>

\* CL_SkipDownload_f
Skip ==
    /\ Free
    /\ skips < MaxSkips
    /\ dl # NoDownload
    /\ ClientBecomes(RequestNextDownload(DL_Abort(Client)))
    /\ skips' = skips + 1
    /\ UNCHANGED <<ended, Server, rel, packet, oob, enqueued, errors>>

\* CL_SendDownloadReq, between downloads
PollNext ==
    /\ Free
    /\ dl = NoDownload /\ list # <<>>
    /\ ClientBecomes(RequestNextDownload(Client))
    /\ UNCHANGED <<ended, Server, rel, packet, oob, Counts>>

(* The answers to a request b that may still come.  Those in a datagram     *)
(* come, if at all, with the first packet the server sends once it has read *)
(* the request, and no later packet was received before.  So b is more than *)
(* ten packets old only when its request and its datagram are gone; the     *)
(* out of band answer may still be on its way, if it is that slow.          *)
Underway(b) ==
    LET num == b.start \div BlockSize
        asked == \E i \in 1..Len(up) : up[i] = Nextdl(num, dl.sequence)
        answers == datagram \cup packet.chunks \cup (IF MayBeLate THEN {} ELSE oob)
    IN  asked \/ \E k \in answers : k.num = num /\ k.sequence = dl.sequence

\* Mutant: requests never grow old.
LostSlip == {}

Lost == {b \in Range(dl.blocks) : b.state = "PENDING" /\ ~Underway(b)}

\* Mutant: only the requests of this poll count as still pending.
PollSlip(lost, quota) ==
    /\ Free
    /\ dl.method = "chunks"
    /\ LET r == DLC_RequestDownloadChunks(dl, lost, quota)
           c == [Client EXCEPT !.dl.blocks = r.blocks,
                               !.up = @ \o [i \in 1..Len(r.asked) |->
                                                Nextdl(r.asked[i], dl.sequence)]]
       IN  ClientBecomes(IF r.asked # <<>> THEN c ELSE DownloadFinished(c))
    /\ UNCHANGED <<ended, Server, rel, packet, oob, Counts>>

\* DLC_Poll: with nothing pending any more, the download is complete
Poll(lost, quota) ==
    /\ Free
    /\ dl.method = "chunks"
    /\ LET r == DLC_RequestDownloadChunks(dl, lost, quota)
           c == [Client EXCEPT !.dl.blocks = r.blocks,
                               !.up = @ \o [i \in 1..Len(r.asked) |->
                                                Nextdl(r.asked[i], dl.sequence)]]
           pending == \E b \in Range(r.blocks) : b.state = "PENDING"
       IN  ClientBecomes(IF pending THEN c ELSE DownloadFinished(c))
    /\ UNCHANGED <<ended, Server, rel, packet, oob, Counts>>

PollChunks == \E lost \in SUBSET Lost, quota \in 1..MaxAsked : Poll(lost, quota)

\* CL_ReadPacket: the packet brings some of the reliable messages it could
ReadPacket(n) ==
    /\ Free
    /\ packet.state = "sent"
    /\ n \in 0..packet.rel
    /\ packet' = [packet EXCEPT !.rel = n, !.state = "reading"]
    /\ UNCHANGED <<list, dl, dlsequence, disk, ended, up, Server, rel, oob, Counts>>

Reading == ~ended /\ packet.state = "reading"

\* the reliable message the client has come to
Parsing(msg) == /\ Reading
                /\ packet.rel > 0
                /\ Head(rel).msg = msg
                /\ packet' = [packet EXCEPT !.rel = @ - 1]
                /\ rel' = Tail(rel)

(* The start of a download: ignored without one, the end of the game when   *)
(* it is not the one that was asked for.                                    *)
ReadStart ==
    /\ Parsing("start")
    /\ ended' = (dl # NoDownload /\ (dl.method = "chunks" \/ dl.file # Head(rel).file))
    /\ dl' = IF dl.method = "pending" /\ ~ended' THEN DL_Begun(dl) ELSE dl
    /\ UNCHANGED <<list, dlsequence, disk, up, Server, oob, Counts>>

\* the temporary file cannot be opened
ReadStartFails ==
    /\ Parsing("start")
    /\ errors < MaxErrors
    /\ dl.method = "pending" /\ dl.file = Head(rel).file
    /\ ClientBecomes(DownloadFailed(Client, dl.file))
    /\ errors' = errors + 1
    /\ UNCHANGED <<ended, Server, oob, enqueued, skips>>

ReadError ==
    /\ Parsing("error")
    /\ ClientBecomes(IF dl = NoDownload THEN Client
                     ELSE RequestNextDownload(DownloadFailed(Client, Head(rel).file)))
    /\ UNCHANGED <<ended, Server, oob, Counts>>

\* the datagram, which says no more of a chunk than its number
ReadDatagram ==
    /\ Reading
    /\ packet.rel = 0
    /\ ClientBecomes(IF packet.chunks = {} THEN Client
                     ELSE Parsed(Client, CHOOSE k \in packet.chunks : TRUE))
    /\ packet' = NoPacket
    /\ UNCHANGED <<ended, Server, rel, oob, Counts>>

\* CL_ParseOOBDownload; the network may bring a packet twice
ReadOutOfBand(k) ==
    /\ Free
    /\ ClientBecomes(IF k.sequence = dl.sequence THEN Parsed(Client, k) ELSE Client)
    /\ oob' \in {oob, oob \ {k}}
    /\ UNCHANGED <<ended, Server, rel, packet, Counts>>
-----------------------------------------------------------------------------
(* The server. *)

Says(msg, f) == rel' = Append(rel, [msg |-> msg, file |-> f])

Hears(cmd) == /\ ~ended
              /\ up # <<>> /\ Head(up).cmd = cmd
              /\ up' = Tail(up)

Others == <<list, dl, dlsequence, disk, ended>>

\* SV_BeginDownload_f
BeginDownload ==
    /\ Hears("download")
    /\ LET f == Head(up).file IN
       IF f \in Absentees
       THEN download' = None /\ Says("error", f)
       ELSE download' = f /\ Says("start", f)
    /\ UNCHANGED <<Others, datagram, packet, oob, Counts>>

\* nextdl -1
StopDownload ==
    /\ Hears("stop")
    /\ download' = None
    /\ UNCHANGED <<Others, datagram, rel, packet, oob, Counts>>

(* SV_NextChunkedDownload.  The chunk goes into the datagram if there is    *)
(* room, never for two; else out of band, unless the client is choked.      *)
Answer == Chunk(Head(up).chunk, download, Head(up).sequence)

\* Mutant: the room in the datagram is not looked at.

AnswerInDatagram ==
    /\ Hears("nextdl")
    /\ download # None
    /\ datagram = {}
    /\ datagram' = {Answer}
    /\ UNCHANGED <<Others, download, rel, packet, oob, Counts>>

AnswerOutOfBand ==
    /\ Hears("nextdl")
    /\ download # None
    /\ oob' = oob \cup {Answer}
    /\ UNCHANGED <<Others, download, datagram, rel, packet, Counts>>

\* choked, or nothing is open; or the request was lost on its way
NoAnswer ==
    /\ Hears("nextdl")
    /\ UNCHANGED <<Others, download, datagram, rel, packet, oob, Counts>>

\* VFS_READ fails
AnswerFails ==
    /\ Hears("nextdl")
    /\ download # None
    /\ errors < MaxErrors
    /\ errors' = errors + 1
    /\ download' = None
    /\ Says("error", download)
    /\ UNCHANGED <<Others, datagram, packet, oob, enqueued, skips>>

(* SV_SendClientDatagram, which keeps room for what the datagram holds; the *)
(* reliable message goes with any packet.                                   *)
Send ==
    /\ ~ended
    /\ packet = NoPacket
    /\ datagram # {} \/ rel # <<>>
    /\ packet' = [rel |-> Len(rel), chunks |-> datagram, state |-> "sent"]
    /\ datagram' = {}
    /\ UNCHANGED <<Others, up, download, rel, oob, Counts>>

(* The network. *)
LosePacket ==
    /\ packet.state = "sent"
    /\ packet' = NoPacket
    /\ UNCHANGED <<Others, up, Server, rel, oob, Counts>>

LoseOutOfBand(k) ==
    /\ oob' = oob \ {k}
    /\ UNCHANGED <<Others, up, Server, rel, packet, Counts>>
-----------------------------------------------------------------------------
Next == \/ \E f \in Files : Enqueue(f)
        \/ Skip \/ PollNext \/ PollChunks
        \/ \E n \in 0..packet.rel : ReadPacket(n)
        \/ ReadStart \/ ReadStartFails \/ ReadError \/ ReadDatagram
        \/ \E k \in oob : ReadOutOfBand(k) \/ LoseOutOfBand(k)
        \/ BeginDownload \/ StopDownload
        \/ AnswerInDatagram \/ AnswerOutOfBand \/ NoAnswer \/ AnswerFails
        \/ Send \/ LosePacket

Spec == Init /\ [][Next]_vars

(* Fairness.  Both programs run their frames for ever: the client polls,    *)
(* giving up what is lost, and parses what it has begun; the server reads   *)
(* commands and sends packets.  Requests that come again and again are not  *)
(* all refused, and what is sent again and again does not get lost for ever.*)
Parse == ReadStart \/ ReadError \/ ReadDatagram
Answers == AnswerInDatagram \/ AnswerOutOfBand
Hear == BeginDownload \/ StopDownload \/ Answers \/ NoAnswer

\* When a poll changes something.
Due == Free /\ dl.method = "chunks"
       /\ (Lost # {} \/ \A b \in Range(dl.blocks) : b.state # "PENDING")

(* Weak fairness of Parse and of Poll and strong fairness of the receipt of *)
(* out of band chunks are written out, with the conditions under which the  *)
(* actions are enabled, which TLC would take too long to work out.          *)
FairSpec ==
    /\ Spec
    /\ WF_vars(PollNext) /\ WF_vars(Hear) /\ WF_vars(Send)
    /\ SF_vars(Answers)
    /\ SF_vars(ReadPacket(packet.rel))
    /\ []<>~Due \/ []<><<Poll(Lost, 1)>>_vars
    /\ []<>~Reading \/ []<><<Parse>>_vars
    /\ <>[](~Free \/ oob = {}) \/ []<><<\E k \in oob : ReadOutOfBand(k)>>_vars
-----------------------------------------------------------------------------
(***************************************************************************)
(* Correctness.                                                            *)
(***************************************************************************)

Whole(f, data) ==
    \A c \in Chunks : data[c] = IF c * BlockSize < Size[f] THEN f ELSE None

(* "download to a temp name, and only rename to the real name when done, so *)
(* if interrupted a runt file wont be left" (cl_parse.c 836): whatever got  *)
(* lost, a file that bears its name is complete and has its own data -      *)
(* unless it took an answer that was meant for an earlier download.         *)
FinishedIsWhole ==
    \A f \in Files : disk[f].state # None /\ ~disk[f].stray => Whole(f, disk[f].data)

(* The same, of every file.                                                 *)
NoRuntFile ==
    \A f \in Files : disk[f].state # None => Whole(f, disk[f].data)

(* Every download that was ordered comes to an end, whatever is lost on the *)
(* way, refused or fails: requests are repeated until answered, a failed    *)
(* file is given up, and the next one is asked for.  Only a player who      *)
(* skips a file before the server has begun it may end the game instead:    *)
(* the start that comes is then "the wrong download".                       *)
QueueDrains ==
    (list # <<>> \/ dl # NoDownload)
        ~> ((list = <<>> /\ dl = NoDownload) \/ (ended /\ skips > 0))
=============================================================================
