------------------------------ MODULE SftpXfer ------------------------------
(***************************************************************************)
(* File transfer over SFTP: the request ids and the transfer manager of    *)
(* sftp.c, which keeps several reads or writes outstanding, and the loops  *)
(* of the two programs on top of it: psftp (psftp.c) and pscp in SFTP mode *)
(* (pscp.c). The programs are single threaded and wait for the server in   *)
(* sftp_recv; only there, and where they run pending callbacks, does the   *)
(* SSH connection below them make progress.                                *)
(*                                                                         *)
(* Files are sequences of units 0 .. Size - 1; a block is B units. The     *)
(* server answers each request once, in any order if Reorder.              *)
(***************************************************************************)
EXTENDS Naturals, Sequences, FiniteSets, SequencesExt

CONSTANTS
    Program,    \* "psftp" or "pscp"
    Direction,  \* "get" or "put"
    NFiles,     \* files of one session
    Size,       \* units in each file
    B,          \* units in a block: 32768 bytes to read, 4096 to write
    MaxReqs,    \* req_maxsize, in blocks
    Window,     \* requests that the SSH channel's window holds
    Reorder,    \* the server may answer out of order
    Faults,     \* what may go wrong, each once
    MaxFaults,  \* bound: how much of it goes wrong in a session
    Width       \* bits of an unsigned int

AllFaults == {"open", "read", "short", "cut", "write", "close", "local", "stray", "rekey"}

XferAssumption ==
    /\ Program \in {"psftp", "pscp"} /\ Direction \in {"get", "put"}
    /\ {NFiles, B, MaxReqs, Window, Width} \subseteq Nat \ {0} /\ Size \in Nat
    /\ Reorder \in BOOLEAN /\ Faults \subseteq AllFaults /\ MaxFaults \in Nat
    /\ 2 ^ Width > 2 * ((IF Direction = "get" THEN MaxReqs ELSE Size) + 2)

VARIABLES
    pc,         \* where the program is
    fate,       \* "running", or why it has given up
    sftp_requests, \* the requests without an answer: id -> what it asks for
    xfer,       \* struct fxp_xfer; its list of struct req is xfer.queue
    local,      \* [data : what is written, or how much is read; eof, err, wrerror]
    remote,     \* the units of the current file that the server has stored
    conn,       \* [out, wire, replies : queues; win, adjust : of the channel; held]
    faults,     \* faults still to come
    results     \* per finished file: [ok : no error reported, whole : the copy is complete]

vars == <<pc, fate, sftp_requests, xfer, local, remote, conn, faults, results>>

Never == Size + B * (MaxReqs + 2) + 1   \* UINT64_MAX, larger than any offset
Units == 0 .. Size - 1
File == [i \in 1 .. Size |-> i - 1]
Block(off) == {u \in Units : off <= u /\ u < off + B}
Ids == 0 .. 2 ^ Width - 1
Requests == [kind : {"open", "close", "read", "write"}, off : 0 .. Never]
Replies == [id : Ids, status : {"ok", "eof", "error"}, len : 0 .. B]
Waiting == pc \in {"opening", "recv", "finrecv", "closing"}

TypeOK ==
    /\ pc \in {"open", "opening", "loop", "recv", "finish", "finrecv", "close", "closing", "end"}
    /\ fate \in {"running", "fatal", "lost", "bumped"}
    /\ DOMAIN sftp_requests \subseteq Ids
    /\ \A i \in DOMAIN sftp_requests : sftp_requests[i] \in Requests
    /\ xfer \in [offset : 0 .. Never, furthestdata : 0 .. Never, filesize : 0 .. Never,
                 eof : BOOLEAN, err : BOOLEAN,
                 queue : Seq([off : 0 .. Never, complete : BOOLEAN, retlen : 0 .. B])]
    /\ Direction = "get" => Len(xfer.queue) <= MaxReqs
    /\ local \in [data : Seq(Units), eof : BOOLEAN, err : BOOLEAN, wrerror : BOOLEAN]
    /\ remote \subseteq Units /\ faults \subseteq Faults
    /\ conn \in [out : Seq(Ids), wire : Seq(Ids), replies : Seq(Replies),
                 win : 0 .. Window, adjust : 0 .. Window, held : BOOLEAN]
    /\ results \in Seq([ok : BOOLEAN, whole : BOOLEAN])

NewXfer(eof) == [offset |-> 0, furthestdata |-> 0, filesize |-> Never, eof |-> eof, err |-> FALSE,
                 queue |-> <<>>]
NewLocal == [data |-> <<>>, eof |-> FALSE, err |-> FALSE, wrerror |-> FALSE]

Init ==
    /\ pc = "open" /\ fate = "running" /\ sftp_requests = << >> /\ xfer = NewXfer(TRUE)
    /\ local = NewLocal /\ remote = {} /\ faults = Faults /\ results = << >>
    /\ conn = [out |-> <<>>, wire |-> <<>>, replies |-> <<>>, win |-> Window, adjust |-> 0, held |-> FALSE]

-----------------------------------------------------------------------------
(* Request ids. The search is over unsigned numbers, and low starts at -1. *)

U(n) == n % 2 ^ Width

\* the request at an index of the tree, which is sorted by id
index234(ids, k) == CHOOSE i \in ids : Cardinality({j \in ids : j < i}) = k

\* the id of a new request; REQUEST_ID_OFFSET is left out
sftp_alloc_request(ids) ==
    LET search[low \in Ids, high \in Ids] ==
            LET mid == U(high + low) \div 2
            IN  IF U(high + 2 ^ Width - low) <= 1 THEN low
                ELSE IF index234(ids, mid) = mid THEN search[mid, high] ELSE search[low, mid]
    IN  U(search[2 ^ Width - 1, Cardinality(ids)] + 1)

\* Send requests of one kind at these offsets: fxp_*_send, sftp_register and
\* fxp_set_userdata. The state is [reqs, out].
SendReq(s, req) ==
    LET id == sftp_alloc_request(DOMAIN s.reqs)
    IN  [reqs |-> [i \in DOMAIN s.reqs \cup {id} |-> IF i = id THEN req ELSE s.reqs[i]],
         out |-> Append(s.out, id)]

Send(reqs) ==
    \E s \in {FoldLeft(SendReq, [reqs |-> sftp_requests, out |-> conn.out], reqs)} :
        sftp_requests' = s.reqs /\ conn' = [conn EXCEPT !.out = s.out]

\* An answer takes its request out of the tree.
sftp_find_request(id) ==
    sftp_requests' = [i \in DOMAIN sftp_requests \ {id} |-> sftp_requests[i]]

-----------------------------------------------------------------------------
(* The transfer manager.                                                   *)

BUGxfer_done(x) == x.eof /\ x.queue = <<>>

xfer_done(x) == (x.eof \/ x.err) /\ x.queue = <<>>

\* how many reads xfer_download_queue adds
ToQueue(x) == IF x.eof \/ x.err THEN 0 ELSE MaxReqs - Len(x.queue)

Queued(x) ==
    LET n == ToQueue(x)
    IN  [x EXCEPT !.offset = @ + n * B,
                  !.queue = @ \o [i \in 1 .. n |-> [off |-> x.offset + (i - 1) * B,
                                                    complete |-> FALSE, retlen |-> 0]]]

xfer_download_queue ==
    /\ xfer' = Queued(xfer)
    /\ Send([i \in 1 .. ToQueue(xfer) |-> [kind |-> "read", off |-> xfer.offset + (i - 1) * B]])

Least(a, b) == IF a < b THEN a ELSE b

BUGxfer_download_gotpkt(x, p, off) ==
    [ret |-> IF p.status = "error" THEN "error" ELSE "ok",
     x |-> [x EXCEPT !.eof = @ \/ p.status = "eof",
                     !.err = @ \/ p.status = "error",
                     !.queue = [i \in DOMAIN @ |-> IF @[i].off = off
                                                   THEN [@[i] EXCEPT !.complete = TRUE, !.retlen = p.len]
                                                   ELSE @[i]]]]

\* The answer p to the read at this offset, after sftp_find_request: the
\* transfer and whether the caller is told of an error. (complete = -1 is
\* written over unless there is an error.)
xfer_download_gotpkt(x, p, off) ==
    LET furthest == IF p.len > 0 /\ x.furthestdata < off THEN off ELSE x.furthestdata
        size == IF p.len < B THEN Least(x.filesize, off + p.len) ELSE x.filesize
        failed == p.status = "error"
        short == ~failed /\ furthest > size
    IN  [ret |-> IF failed \/ short THEN "error" ELSE "ok",
         x |-> [x EXCEPT !.eof = @ \/ p.status = "eof",
                         !.err = @ \/ failed \/ short,
                         !.furthestdata = IF failed THEN @ ELSE furthest,
                         !.filesize = IF failed THEN @ ELSE size,
                         !.queue = [i \in DOMAIN @ |-> IF @[i].off = off
                                                       THEN [@[i] EXCEPT !.complete = TRUE, !.retlen = p.len]
                                                       ELSE @[i]]]]

\* The blocks that xfer_download_data hands back if it is called again and
\* again: the answered requests at the head of the list.
Available(x) ==
    LET done == {n \in 0 .. Len(x.queue) : \A i \in 1 .. n : x.queue[i].complete}
    IN  SubSeq(x.queue, 1, CHOOSE n \in done : \A m \in done : m <= n)

DataOf(rr) == [i \in 1 .. rr.retlen |-> rr.off + i - 1]

DropHead(x, n) == [x EXCEPT !.queue = SubSeq(@, n + 1, Len(@))]

\* An answer to a write: its request leaves the list.
xfer_upload_gotpkt(x, off) == [x EXCEPT !.queue = SelectSeq(@, LAMBDA rr : rr.off # off)]

-----------------------------------------------------------------------------
(* The connection. Requests wait in queues of the SSH layers until         *)
(* callbacks run, the channel's window allows them and no rekey holds them *)
(* back; they leave those queues empty when sftp_sendbuffer returns 0.     *)

\* the window, which reads, being short, leave alone
Costs == Direction = "put"

CallbackPending == conn.out # <<>> /\ conn.win > 0 /\ ~conn.held

Flushed(c) ==
    LET n == IF Costs THEN Least(Len(c.out), c.win) ELSE Len(c.out)
    IN  [c EXCEPT !.wire = @ \o SubSeq(c.out, 1, n), !.out = SubSeq(@, n + 1, Len(@)),
                  !.win = IF Costs THEN @ - n ELSE @]

xfer_upload_ready == conn.out = <<>> /\ ~conn.held

Running == fate = "running"
Fault(f) ==
    /\ f \in faults /\ Cardinality(Faults \ faults) < MaxFaults
    /\ faults' = faults \ {f}

\* In sftp_recv, the event loop runs callbacks.
LoopCallbacks ==
    /\ Running /\ Waiting /\ CallbackPending
    /\ conn' = Flushed(conn)
    /\ UNCHANGED <<pc, fate, sftp_requests, xfer, local, remote, faults, results>>

\* In sftp_recv, the event loop receives CHANNEL_WINDOW_ADJUST.
LoopWindow ==
    /\ Running /\ Waiting /\ conn.adjust > 0
    /\ conn' = [conn EXCEPT !.win = @ + conn.adjust, !.adjust = 0]
    /\ UNCHANGED <<pc, fate, sftp_requests, xfer, local, remote, faults, results>>

\* In sftp_recv, the event loop ends the rekey.
LoopRekeyed ==
    /\ Running /\ Waiting /\ conn.held
    /\ conn' = [conn EXCEPT !.held = FALSE]
    /\ UNCHANGED <<pc, fate, sftp_requests, xfer, local, remote, faults, results>>

-----------------------------------------------------------------------------
(* The server.                                                             *)

Answer(i, status, len) ==
    LET id == conn.wire[i]
    IN  conn' = [conn EXCEPT !.wire = RemoveAt(@, i), !.adjust = IF Costs THEN @ + 1 ELSE @,
                             !.replies = Append(@, [id |-> id, status |-> status, len |-> len])]

Serves(i, kind) ==
    /\ Running /\ i \in DOMAIN conn.wire /\ (i = 1 \/ Reorder)
    /\ sftp_requests[conn.wire[i]].kind = kind
    /\ UNCHANGED <<pc, fate, sftp_requests, xfer, local, results>>

ServerRead(i) ==
    /\ Serves(i, "read")
    /\ LET off == sftp_requests[conn.wire[i]].off
           n == Cardinality(Block(off))
       IN  \/ n > 0 /\ Answer(i, "ok", n) /\ UNCHANGED faults
           \/ n = 0 /\ Answer(i, "eof", 0) /\ UNCHANGED faults
           \/ Fault("read") /\ Answer(i, "error", 0)
           \* a short read, with data left in a later block or in none
           \/ /\ n > 1 /\ Fault(IF Block(off + B) # {} THEN "short" ELSE "cut")
              /\ Answer(i, "ok", n - 1)
    /\ UNCHANGED remote

ServerWrite(i) ==
    /\ Serves(i, "write")
    /\ \/ /\ Answer(i, "ok", 0) /\ UNCHANGED faults
          /\ remote' = remote \cup Block(sftp_requests[conn.wire[i]].off)
       \/ Fault("write") /\ Answer(i, "error", 0) /\ UNCHANGED remote

\* What is written may be lost if the file cannot be closed.
ServerOther(i) ==
    \E kind \in {"open", "close"} :
        /\ Serves(i, kind)
        /\ \/ Answer(i, "ok", 0) /\ UNCHANGED <<faults, remote>>
           \/ Fault(kind) /\ Answer(i, "error", 0) /\ remote' = {}

\* An answer to a request that was never made.
ServerStray ==
    /\ Running /\ pc = "recv" /\ Fault("stray")
    /\ conn' = [conn EXCEPT !.replies = Append(@, [id |-> 2 ^ Width - 1, status |-> "ok", len |-> 0])]
    /\ UNCHANGED <<pc, fate, sftp_requests, xfer, local, remote, results>>

-----------------------------------------------------------------------------
(* Opening and closing a file: sftp_wait_for_reply.                        *)

Single(kind, from, to) ==
    /\ Running /\ pc = from /\ pc' = to
    /\ Send(<<[kind |-> kind, off |-> 0]>>)
    /\ UNCHANGED <<fate, xfer, local, remote, faults, results>>

OpenFile == Single("open", "open", "opening") /\ Len(results) < NFiles

CloseFile == Single("close", "close", "closing")

\* sftp_recv returns the first packet of the connection
Receives == conn.replies # <<>> /\ conn' = [conn EXCEPT !.replies = Tail(@)]
Packet == Head(conn.replies)

\* The answer must be that to our request.
WaitForReply(kind) ==
    /\ Receives
    /\ sftp_find_request(Packet.id)
    /\ fate' = IF Packet.id \in DOMAIN sftp_requests /\ sftp_requests[Packet.id].kind = kind
               THEN fate ELSE "fatal"

\* For a download the reads are queued at once (xfer_download_init). If the
\* file cannot be opened the next one is tried; only pscp's sink ends.
Opened ==
    /\ Running /\ pc = "opening" /\ WaitForReply("open")
    /\ \/ /\ Packet.status = "ok" /\ pc' = "loop" /\ xfer' = NewXfer(Direction = "put")
          /\ local' = [NewLocal EXCEPT !.wrerror = local.wrerror]
          /\ remote' = {} /\ UNCHANGED results
       \/ /\ Packet.status # "ok" /\ results' = Append(results, [ok |-> FALSE, whole |-> FALSE])
          /\ pc' = IF Program = "pscp" /\ Direction = "get" THEN "end" ELSE "open"
          /\ UNCHANGED <<xfer, local, remote>>
    /\ UNCHANGED faults

Whole == IF Direction = "get" THEN local.data = File ELSE remote = Units

Finished(ok) == results' = Append(results, [ok |-> ok, whole |-> Whole])

\* Only sftp_put_file looks at the answer.
Looks == Program = "psftp" /\ Direction = "put"

Closed ==
    /\ Running /\ pc = "closing" /\ WaitForReply("close")
    /\ pc' = "open" /\ Finished(~local.err /\ (Looks => Packet.status = "ok"))
    /\ UNCHANGED <<xfer, local, remote, faults>>

\* A rekey begins, with a packet of the connection layer to be sent after it.
RekeyStarts ==
    /\ Running /\ Waiting /\ Fault("rekey")
    /\ conn' = [conn EXCEPT !.held = TRUE]
    /\ UNCHANGED <<pc, fate, sftp_requests, xfer, local, remote, results>>

End ==
    /\ Running /\ pc = "open" /\ Len(results) = NFiles
    /\ pc' = "end"
    /\ UNCHANGED <<fate, sftp_requests, xfer, local, remote, conn, faults, results>>

-----------------------------------------------------------------------------
(* Download.                                                               *)

\* The received packet, for the transfer: its state, and what the caller is
\* told: "ok", "error" or "INT_MIN".
GotRead ==
    IF Packet.id \in DOMAIN sftp_requests
    THEN xfer_download_gotpkt(xfer, Packet, sftp_requests[Packet.id].off)
    ELSE [ret |-> "INT_MIN", x |-> xfer]

GetQueue ==
    /\ Running /\ Direction = "get" /\ pc = "loop" /\ pc' = "recv"
    /\ IF Program = "psftp" THEN ~xfer_done(xfer) ELSE Len(local.data) < Size
    /\ xfer_download_queue
    /\ UNCHANGED <<fate, local, remote, faults, results>>

\* what reaches the local file if the writing of the block bad fails
Written(blocks, bad) ==
    LET good == [i \in DOMAIN blocks |-> IF i = bad THEN <<>> ELSE DataOf(blocks[i])]
    IN  FoldLeft(LAMBDA s, t : s \o t, <<>>, good)

\* psftp hands on every block it can.
PsftpGot ==
    /\ Running /\ Direction = "get" /\ Program = "psftp" /\ pc = "recv" /\ pc' = "loop"
    /\ Receives /\ sftp_find_request(Packet.id)
    /\ LET got == GotRead
           blocks == Available(got.x)
       IN  \E bad \in 0 .. Len(blocks) :
             /\ IF bad = 0 THEN UNCHANGED faults ELSE Fault("local") /\ blocks[bad].retlen > 0
             /\ xfer' = [DropHead(got.x, Len(blocks)) EXCEPT !.err = @ \/ bad # 0]
             /\ local' = [local EXCEPT !.data = @ \o Written(blocks, bad),
                                       !.err = @ \/ got.ret # "ok" \/ bad # 0]
    /\ UNCHANGED <<fate, remote, results>>

PsftpGetDone ==
    /\ Running /\ Direction = "get" /\ Program = "psftp" /\ pc = "loop" /\ pc' = "close"
    /\ xfer_done(xfer)
    /\ UNCHANGED <<fate, sftp_requests, xfer, local, remote, conn, faults, results>>

\* pscp (scp_recv_filedata and sink) hands on one block for each packet, and
\* gives up if there is none. After an error of the local file, wrerror, the
\* data is only counted.
PscpGot ==
    /\ Running /\ Direction = "get" /\ Program = "pscp" /\ pc = "recv"
    /\ Receives /\ sftp_find_request(Packet.id)
    /\ LET got == GotRead
           blocks == Available(got.x)
           data == got.ret = "ok" /\ blocks # <<>> /\ Head(blocks).retlen > 0
       IN  \/ /\ ~data
              /\ fate' = "lost" /\ xfer' = got.x /\ UNCHANGED <<pc, local, faults>>
           \/ /\ data
              /\ \E w \in BOOLEAN :
                    /\ IF w = local.wrerror THEN UNCHANGED faults ELSE w /\ Fault("local")
                    /\ local' = [local EXCEPT !.data = @ \o DataOf(Head(blocks)), !.wrerror = w]
              /\ xfer' = DropHead(got.x, 1) /\ pc' = "loop" /\ UNCHANGED fate
    /\ UNCHANGED <<remote, results>>

\* The end of the file in sink, and scp_finish_filerecv up to its loop.
PscpGetDone ==
    /\ Running /\ Direction = "get" /\ Program = "pscp" /\ pc = "loop"
    /\ Len(local.data) >= Size
    /\ \/ local.wrerror /\ pc' = "open" /\ Finished(FALSE) /\ UNCHANGED xfer
       \/ ~local.wrerror /\ pc' = "finish" /\ xfer' = [xfer EXCEPT !.err = TRUE] /\ UNCHANGED results
    /\ UNCHANGED <<fate, sftp_requests, local, remote, conn, faults>>

\* The loops of scp_finish_filerecv and scp_send_finish.
PscpFinish ==
    /\ Running /\ Program = "pscp" /\ pc = "finish"
    /\ pc' = IF xfer_done(xfer) THEN "close" ELSE "finrecv"
    /\ UNCHANGED <<fate, sftp_requests, xfer, local, remote, conn, faults, results>>

\* how many of n available blocks a call of xfer_download_data hands back
One(n) == Least(n, 1)

PscpFinishGot ==
    /\ Running /\ Direction = "get" /\ Program = "pscp" /\ pc = "finrecv"
    /\ Receives /\ sftp_find_request(Packet.id)
    /\ LET got == GotRead
       IN  \/ /\ got.ret = "ok" /\ xfer' = DropHead(got.x, One(Len(Available(got.x))))
              /\ pc' = "finish" /\ UNCHANGED results
           \/ got.ret # "ok" /\ xfer' = got.x /\ pc' = "open" /\ Finished(FALSE)
    /\ UNCHANGED <<fate, local, remote, faults>>

-----------------------------------------------------------------------------
(* Upload.                                                                 *)

MoreToRead == ~local.err /\ ~local.eof

\* Read a block of the local file and send it: xfer_upload_data.
PutBlock ==
    /\ Running /\ Direction = "put" /\ pc = "loop" /\ MoreToRead /\ xfer_upload_ready
    /\ xfer.offset < Size
    /\ xfer' = [xfer EXCEPT !.offset = @ + Cardinality(Block(@)),
                            !.queue = Append(@, [off |-> xfer.offset, complete |-> FALSE, retlen |-> 0])]
    /\ Send(<<[kind |-> "write", off |-> xfer.offset]>>)
    /\ UNCHANGED <<pc, fate, local, remote, faults, results>>

\* psftp finds the end of the file by reading.
PsftpPutEof ==
    /\ Running /\ Direction = "put" /\ Program = "psftp" /\ pc = "loop"
    /\ MoreToRead /\ xfer_upload_ready
    /\ \/ xfer.offset = Size /\ local' = [local EXCEPT !.eof = TRUE] /\ UNCHANGED faults
       \/ Fault("local") /\ local' = [local EXCEPT !.err = TRUE]
    /\ UNCHANGED <<pc, fate, sftp_requests, xfer, remote, conn, results>>

\* pscp counts the bytes, and gives up if it cannot read them.
PscpPutEof ==
    /\ Running /\ Direction = "put" /\ Program = "pscp" /\ pc = "loop"
    /\ \/ xfer.offset = Size /\ pc' = "finish" /\ UNCHANGED <<fate, faults>>
       \/ xfer.offset < Size /\ Fault("local") /\ fate' = "bumped" /\ UNCHANGED pc
    /\ UNCHANGED <<sftp_requests, xfer, local, remote, conn, results>>

\* has the program something to read and send, once it is able to?
Sending == IF Program = "psftp" THEN MoreToRead ELSE xfer.offset < Size

BUGPutCallbacks == FALSE /\ UNCHANGED vars

\* run_toplevel_callbacks in the loop
PutCallbacks ==
    /\ Running /\ Direction = "put" /\ pc = "loop" /\ Sending /\ CallbackPending
    /\ conn' = Flushed(conn)
    /\ UNCHANGED <<pc, fate, sftp_requests, xfer, local, remote, faults, results>>

\* psftp waits for a packet only if a request is outstanding; otherwise it
\* goes round its loop again.
PutWait ==
    /\ Running /\ Direction = "put" /\ pc = "loop" /\ pc' = "recv"
    /\ ~(Sending /\ CallbackPending)
    /\ IF Program = "psftp" THEN (~MoreToRead \/ ~xfer_upload_ready) /\ ~xfer_done(xfer)
                            ELSE Sending /\ ~xfer_upload_ready
    /\ UNCHANGED <<fate, sftp_requests, xfer, local, remote, conn, faults, results>>

\* The answer to a write, in the loop of either program and in scp_send_finish.
PutGot ==
    /\ Running /\ Direction = "put" /\ pc \in {"recv", "finrecv"}
    /\ Receives /\ sftp_find_request(Packet.id)
    /\ LET known == Packet.id \in DOMAIN sftp_requests
           bad == ~known \/ Packet.status # "ok"
       IN  /\ xfer' = IF known THEN xfer_upload_gotpkt(xfer, sftp_requests[Packet.id].off) ELSE xfer
           /\ \/ ~bad /\ pc' = (IF pc = "recv" THEN "loop" ELSE "finish") /\ UNCHANGED <<fate, local, results>>
              \/ /\ bad /\ Program = "psftp" /\ pc' = "loop"
                 /\ local' = [local EXCEPT !.err = TRUE] /\ UNCHANGED <<fate, results>>
              \/ bad /\ Program = "pscp" /\ pc = "recv" /\ fate' = "bumped" /\ UNCHANGED <<pc, local, results>>
              \/ bad /\ pc = "finrecv" /\ pc' = "open" /\ Finished(FALSE) /\ UNCHANGED <<fate, local>>
    /\ UNCHANGED <<remote, faults>>

PsftpPutDone ==
    /\ Running /\ Direction = "put" /\ Program = "psftp" /\ pc = "loop" /\ pc' = "close"
    /\ ~MoreToRead /\ xfer_done(xfer)
    /\ UNCHANGED <<fate, sftp_requests, xfer, local, remote, conn, faults, results>>

-----------------------------------------------------------------------------
Server == ServerStray \/ \E i \in DOMAIN conn.wire : ServerRead(i) \/ ServerWrite(i) \/ ServerOther(i)

Connection == LoopCallbacks \/ LoopWindow \/ LoopRekeyed

Get == GetQueue \/ PsftpGot \/ PsftpGetDone \/ PscpGot \/ PscpGetDone \/ PscpFinishGot

Put == PutBlock \/ PsftpPutEof \/ PscpPutEof \/ PutCallbacks \/ PutWait \/ PutGot \/ PsftpPutDone

Common == OpenFile \/ Opened \/ CloseFile \/ Closed \/ PscpFinish \/ RekeyStarts \/ End

Next == Server \/ Connection \/ Get \/ Put \/ Common

Spec == Init /\ [][Next]_vars

\* The server answers, the connection moves and the program runs, one or the
\* other as long as it can; no fault has to happen.
Proceeds == faults' = faults /\ Next

FairSpec == Spec /\ WF_vars(Proceeds)

-----------------------------------------------------------------------------
\* The binary search over indices and ids finds the lowest id that is free,
\* whatever holes answers out of order have left in the tree.
LowestFreeId ==
    LET id == sftp_alloc_request(DOMAIN sftp_requests)
    IN  /\ id \notin DOMAIN sftp_requests
        /\ \A i \in 0 .. id - 1 : i \in DOMAIN sftp_requests

\* While no error has been reported, the local file is a prefix of the remote
\* one, in whatever order the blocks have arrived.
WrittenInOrder ==
    Direction = "get" /\ ~local.err => IsPrefix(local.data, File)

\* What the programs cannot see: psftp, which does not know the size, takes a
\* short read for the end of the file if no later block has data, and pscp
\* takes no notice of a failure to close what it has written.
Unseen == CASE Program = "psftp" /\ Direction = "get" -> {"cut"}
            [] Program = "pscp" /\ Direction = "put" -> {"close"}
            [] OTHER -> {}

\* A file whose transfer has not reported an error is complete: files that
\* cannot be opened, reads and writes that fail, short reads, local errors and
\* strange packets are all reported; a fault that is Unseen spoils one file.
NoSilentCorruption ==
    Cardinality({i \in DOMAIN results : results[i].ok /\ ~results[i].whole})
        <= Cardinality(Unseen \cap (Faults \ faults))

\* When a program waits for a packet, a request is outstanding: a transfer is
\* finished "if we've seen EOF _and_ there are no outstanding requests".
NoVainWait == Running /\ Waiting => DOMAIN sftp_requests # {}

\* psftp does not go round its upload loop for ever: either it can send, or
\* callbacks are pending, or it waits for the answer to a request.
NoSpin ==
    Running /\ Direction = "put" /\ Program = "psftp" /\ pc = "loop" /\ MoreToRead
        => xfer_upload_ready \/ CallbackPending \/ xfer.queue # <<>>

\* "Wait for the reply to a single SFTP request": unless the server sends an
\* answer to no request, the one that the program receives is that to its
\* request, and no answer of an earlier transfer. After a transfer that has
\* failed pscp does meet one: see Deviations in README.md.
ReplyIsOurs ==
    fate = "fatal" => \/ "stray" \in Faults \ faults
                      \/ Program = "pscp" /\ \E i \in DOMAIN results : ~results[i].ok

\* While a server answers every request, in order and without a fault, pscp
\* has a block to hand on after each packet, and does not give up.
LostOnlyOnFault == fate = "lost" => faults # Faults

\* Every session comes to an end, and that of psftp goes through all files
\* whatever goes wrong with one.
Finishes == <>(pc = "end" \/ fate = "fatal" \/ (Program = "pscp" /\ ~Running))
=============================================================================
