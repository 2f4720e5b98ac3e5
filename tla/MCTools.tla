------------------------------- MODULE MCTools ------------------------------
(***************************************************************************)
(* The command-line tools: plink, psftp and pscp.  Each model runs by      *)
(* itself, from its own initial states; system says which one, and the     *)
(* others stay where they are.                                             *)
(***************************************************************************)
EXTENDS Plink, Sequences

VARIABLES system,
          pc, outcome, sftp_requests, xfer, local, remote, conn, faults, results

xferVars == <<pc, outcome, sftp_requests, xfer, local, remote, conn, faults, results>>
toolsVars == <<system, vars, xferVars>>

\* How plink is called: over each connection with an end of its input, and
\* over a raw one whose remote end alone comes to an end.
Calls == {[backend |-> "raw", stdin_ends |-> FALSE]}
           \cup [backend : {"ssh", "raw", "telnet"}, stdin_ends : {TRUE}]

\* psftp, with everything that may go wrong
PsftpGet == INSTANCE SftpXfer WITH
    Program <- "psftp", Direction <- "get", NFiles <- 2, Size <- 4, B <- 2, MaxReqs <- 3,
    Window <- 1, Reorder <- TRUE, Faults <- {"open", "read", "short", "cut", "close", "local", "stray"},
    MaxFaults <- 2, Width <- 4, fate <- outcome

PsftpPut == INSTANCE SftpXfer WITH
    Program <- "psftp", Direction <- "put", NFiles <- 2, Size <- 4, B <- 1, MaxReqs <- 3,
    Window <- 2, Reorder <- TRUE, Faults <- {"open", "write", "close", "local"},
    MaxFaults <- 2, Width <- 4, fate <- outcome

\* pscp, downloading from a server that answers in order
PscpGet == INSTANCE SftpXfer WITH
    Program <- "pscp", Direction <- "get", NFiles <- 2, Size <- 6, B <- 2, MaxReqs <- 4,
    Window <- 1, Reorder <- FALSE,
    Faults <- {"open", "read", "short", "cut", "close", "local", "stray", "rekey"},
    MaxFaults <- 2, Width <- 4, fate <- outcome

\* pscp, uploading one file
PscpPut == INSTANCE SftpXfer WITH
    Program <- "pscp", Direction <- "put", NFiles <- 1, Size <- 4, B <- 1, MaxReqs <- 3,
    Window <- 2, Reorder <- TRUE, Faults <- {"open", "write", "close", "local", "stray"},
    MaxFaults <- 2, Width <- 4, fate <- outcome

ASSUME /\ ParamAssumption
       /\ PsftpGet!XferAssumption /\ PsftpPut!XferAssumption
       /\ PscpGet!XferAssumption /\ PscpPut!XferAssumption

ToolsInit ==
    /\ system \in {"plink", "psftp get", "psftp put", "pscp get", "pscp put"}
    /\ Init
    /\ system # "plink" => Backend = "ssh"
    /\ CASE system = "psftp put" -> PsftpPut!Init
         [] system = "pscp get" -> PscpGet!Init
         [] system = "pscp put" -> PscpPut!Init
         [] OTHER -> PsftpGet!Init

PlinkRuns ==
    /\ system = "plink" /\ Next
    /\ UNCHANGED <<system, xferVars>>

Transfer ==
    /\ \/ system = "psftp get" /\ PsftpGet!Next
       \/ system = "psftp put" /\ PsftpPut!Next
       \/ system = "pscp get" /\ PscpGet!Next
       \/ system = "pscp put" /\ PscpPut!Next
    /\ UNCHANGED <<system, vars>>

ToolsNext == PlinkRuns \/ Transfer

IsPlink == system = "plink"

\* plink's loop goes on, both ends come to an end and read what they get; the
\* server answers, and the file transfer programs run.
ToolsSpec ==
    /\ ToolsInit /\ [][ToolsNext]_toolsVars
    /\ WF_vars(IsPlink /\ Loop)
    /\ WF_vars(IsPlink /\ ReaderReads)
    /\ WF_vars(IsPlink /\ RemoteReads)
    /\ WF_vars(IsPlink /\ RemoteEof)
    /\ WF_vars(IsPlink /\ StdinEof)
    /\ WF_xferVars(\/ system = "psftp get" /\ PsftpGet!Proceeds
                   \/ system = "psftp put" /\ PsftpPut!Proceeds
                   \/ system = "pscp get" /\ PscpGet!Proceeds
                   \/ system = "pscp put" /\ PscpPut!Proceeds)

-----------------------------------------------------------------------------
(* Properties of the models that run.                                      *)

\* Once both the remote side and its input have ended, plink writes what is
\* left and ends (plink's main loop): over SSH by itself, over a raw or Telnet
\* connection perhaps in the ways under Deviations in README.md.
PlinkTerminates == IsPlink /\ sock.ineof /\ StdinEnds ~> fate # "running"

\* What the remote side has sent is written in the end, whatever freezes the
\* socket on the way: one frozen for a backlog (c_write of raw.c) is released.
PlinkDrains == []<>(IsPlink => stdout.written = net.remote \/ fate # "running")

\* The binary search over indices and ids finds the lowest id that is free,
\* whatever holes answers out of order have left (sftp_alloc_request).
LowestFreeId ==
    /\ system = "psftp get" => PsftpGet!LowestFreeId
    /\ system = "psftp put" => PsftpPut!LowestFreeId

\* While no error has been reported, the local file is a prefix of the remote
\* one, in whatever order the blocks have arrived (xfer_download_data).
WrittenInOrder ==
    /\ system = "psftp get" => PsftpGet!WrittenInOrder
    /\ system = "pscp get" => PscpGet!WrittenInOrder

\* A file whose transfer has not reported an error is complete: files that
\* cannot be opened, reads and writes that fail, short reads, local errors and
\* strange packets are all reported (sftp_get_file, sftp_put_file, pscp's sink
\* and source). Two faults can spoil a file unseen: a short read of the last
\* block for psftp, a failed close after an upload for pscp.
NoSilentCorruption ==
    /\ system = "psftp get" => PsftpGet!NoSilentCorruption
    /\ system = "psftp put" => PsftpPut!NoSilentCorruption
    /\ system = "pscp get" => PscpGet!NoSilentCorruption
    /\ system = "pscp put" => PscpPut!NoSilentCorruption

\* When a program waits for a packet, a request is outstanding: a transfer is
\* finished "if we've seen EOF _and_ there are no outstanding requests".
NoVainWait ==
    /\ system = "psftp get" => PsftpGet!NoVainWait
    /\ system = "psftp put" => PsftpPut!NoVainWait
    /\ system = "pscp get" => PscpGet!NoVainWait
    /\ system = "pscp put" => PscpPut!NoVainWait

\* psftp does not go round its upload loop for ever: either it can send, or
\* callbacks are pending, or it waits for the answer to a request.
NoSpin == system = "psftp put" => PsftpPut!NoSpin

\* "Wait for the reply to a single SFTP request": the reply that the program
\* receives is that to its request, and no answer of an earlier transfer, but
\* for one of a transfer by pscp that has failed.
ReplyIsOurs ==
    /\ system = "psftp get" => PsftpGet!ReplyIsOurs
    /\ system = "psftp put" => PsftpPut!ReplyIsOurs
    /\ system = "pscp get" => PscpGet!ReplyIsOurs
    /\ system = "pscp put" => PscpPut!ReplyIsOurs

\* While a server answers every request, in order and without a fault, pscp
\* has a block to hand on after each packet, and does not give up.
LostOnlyOnFault == system = "pscp get" => PscpGet!LostOnlyOnFault

\* Every session comes to an end: psftp goes through all files whatever goes
\* wrong with one, pscp through all or gives up.
Finishes ==
    <>(\/ IsPlink \/ pc = "end" \/ outcome = "fatal"
       \/ system \in {"pscp get", "pscp put"} /\ outcome # "running")

\* Files are right, or the user is told (sftp_get_file, sftp_put_file, pscp's
\* scp_recv_filedata and scp_send_filedata).
FilesRight == NoSilentCorruption /\ WrittenInOrder

\* Requests and replies match: ids are free when they are taken, a program
\* waits only for a reply that will come, and gets its own.
RequestsMatch ==
    /\ system = "psftp get" => PsftpGet!TypeOK
    /\ system = "psftp put" => PsftpPut!TypeOK
    /\ system = "pscp get" => PscpGet!TypeOK
    /\ system = "pscp put" => PscpPut!TypeOK
    /\ LowestFreeId /\ ReplyIsOurs /\ NoVainWait /\ NoSpin /\ LostOnlyOnFault

\* The programs come to an end: plink, over each of its backends, once both of
\* its ends have, and with all output written; the transfers in any case.
ToolsEnd == PlinkTerminates /\ PlinkDrains /\ Finishes

=============================================================================
