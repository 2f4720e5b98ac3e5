---------------------------- MODULE ShareSocket -----------------------------
(***************************************************************************)
(* How PuTTY processes that want to share a connection find each other on  *)
(* Unix (platform_ssh_share and platform_ssh_share_cleanup of uxshare.c,   *)
(* new_unix_listener of uxnet.c).  They meet in a directory that holds a   *)
(* lock file and a socket; its name is salted with the contents of a file. *)
(* Every system call is a step; a process may die between any two.         *)
(***************************************************************************)
EXTENDS Naturals, FiniteSets

CONSTANTS Processes,
          CanUpstream, CanDownstream,  \* those whose settings allow it
          MayEnd,                      \* upstreams end in good order
          MayCrash

None == "none"

ProcessesAssumption ==
    /\ IsFiniteSet(Processes) /\ {None, "stale"} \cap Processes = {}
    /\ CanUpstream \subseteq Processes /\ CanDownstream \subseteq Processes
    /\ MayEnd \in BOOLEAN /\ MayCrash \in BOOLEAN

VARIABLES
    pc,       \* where each process is
    fs,       \* the file system: the salt, the directory, the lock file (a
              \* number that stands for its inode) and the socket
    lockfd,   \* the lock file that each process has open
    locked,   \* the processes that hold the lock on theirs
    salt,     \* the salt that each process has read
    peer,     \* the upstream that a downstream is connected to
    accepted, \* the downstreams whose upstream has accepted them
    ended     \* history: an upstream has ended in good order, or begun to

vars == <<pc, fs, lockfd, locked, salt, peer, accepted, ended>>

Inodes == 1 .. Cardinality(Processes) + 1

Listening == {"up", "rmsock", "rmlock", "rmdir", "close"}

TypeOK ==
    /\ pc \in [Processes ->
                 {"idle", "salt", "link", "read", "mkdir", "open", "flock",
                  "connect", "unlink", "bind", "listen", "down", "alone"}
                     \union Listening]
    /\ fs \in [salt : Processes \union {None}, dir : BOOLEAN,
               lock : Inodes \union {0}, sock : Processes \union {None, "stale"}]
    /\ lockfd \in [Processes -> Inodes \union {0}]
    /\ locked \subseteq Processes /\ accepted \subseteq Processes
    /\ salt \in [Processes -> Processes \union {None}]
    /\ peer \in [Processes -> Processes \union {None}]
    /\ ended \in BOOLEAN

Init ==
    /\ pc = [p \in Processes |-> "idle"]
    /\ fs = [salt |-> None, dir |-> FALSE, lock |-> 0, sock |-> None]
    /\ lockfd = [p \in Processes |-> 0] /\ locked = {}
    /\ salt = [p \in Processes |-> None]
    /\ peer = [p \in Processes |-> None] /\ accepted = {} /\ ended = FALSE

Goto(p, from, to) ==
    /\ pc[p] = from /\ pc' = [pc EXCEPT ![p] = to]
    /\ ended' = (ended \/ to = "rmsock")

\* close(lockfd)
Unlock(p) == lockfd' = [lockfd EXCEPT ![p] = 0] /\ locked' = locked \ {p}

locks == <<lockfd, locked>>

session == <<peer, accepted>>

Start(p) ==
    Goto(p, "idle", "salt") /\ UNCHANGED <<fs, locks, salt, session>>

(***************************************************************************)
(* make_dirname                                                            *)
(***************************************************************************)
OpenSalt(p) ==
    /\ Goto(p, "salt", IF fs.salt = None THEN "link" ELSE "mkdir")
    /\ salt' = [salt EXCEPT ![p] = fs.salt]
    /\ UNCHANGED <<fs, locks, session>>

\* link(): the temporary file, with a salt of the process's own, is complete
LinkSalt(p) ==
    /\ Goto(p, "link", "read")
    /\ fs' = [fs EXCEPT !.salt = IF @ = None THEN p ELSE @]
    /\ UNCHANGED <<locks, salt, session>>

ReadSalt(p) ==
    /\ Goto(p, "read", "mkdir")
    /\ salt' = [salt EXCEPT ![p] = fs.salt]
    /\ UNCHANGED <<fs, locks, session>>

(***************************************************************************)
(* platform_ssh_share                                                      *)
(***************************************************************************)
Mkdir(p) ==
    /\ Goto(p, "mkdir", "open")
    /\ fs' = [fs EXCEPT !.dir = TRUE]
    /\ UNCHANGED <<locks, salt, session>>

NewInode == CHOOSE i \in Inodes : \A q \in Processes : lockfd[q] # i

\* SHARE_NONE when the directory has gone
OpenLock(p) ==
    /\ Goto(p, "open", IF fs.dir THEN "flock" ELSE "alone")
    /\ LET lock == IF fs.lock = 0 THEN NewInode ELSE fs.lock IN
       IF fs.dir
       THEN fs' = [fs EXCEPT !.lock = lock] /\ lockfd' = [lockfd EXCEPT ![p] = lock]
       ELSE UNCHANGED <<fs, lockfd>>
    /\ UNCHANGED <<locked, salt, session>>

BUGFlock(p) ==
    /\ Goto(p, "flock", IF p \in CanDownstream THEN "connect" ELSE "unlink")
    /\ locked' = locked \union {p}
    /\ UNCHANGED <<fs, lockfd, salt, session>>

Flock(p) ==
    /\ \A q \in locked : lockfd[q] # lockfd[p]
    /\ Goto(p, "flock", IF p \in CanDownstream THEN "connect" ELSE "unlink")
    /\ locked' = locked \union {p}
    /\ UNCHANGED <<fs, lockfd, salt, session>>

\* The kernel takes the connection, whether or not the process at the other
\* end will accept it.
Connect(p) ==
    /\ fs.sock \in Processes /\ pc[fs.sock] \in Listening
    /\ Goto(p, "connect", "down")
    /\ peer' = [peer EXCEPT ![p] = fs.sock] /\ Unlock(p)
    /\ UNCHANGED <<fs, salt, accepted>>

NobodyThere(p) ==
    /\ ~(fs.sock \in Processes /\ pc[fs.sock] \in Listening)
    /\ \/ /\ p \in CanUpstream /\ Goto(p, "connect", "unlink")
          /\ UNCHANGED locks
       \/ /\ p \notin CanUpstream /\ Goto(p, "connect", "alone") /\ Unlock(p)
    /\ UNCHANGED <<fs, salt, session>>

\* new_unix_listener
Unlink(p) ==
    /\ Goto(p, "unlink", "bind")
    /\ fs' = [fs EXCEPT !.sock = None]
    /\ UNCHANGED <<locks, salt, session>>

Bind(p) ==
    /\ fs.dir /\ fs.sock = None
    /\ Goto(p, "bind", "listen")
    /\ fs' = [fs EXCEPT !.sock = p]
    /\ UNCHANGED <<locks, salt, session>>

BindFails(p) ==
    /\ ~(fs.dir /\ fs.sock = None)
    /\ Goto(p, "bind", "alone") /\ Unlock(p)
    /\ UNCHANGED <<fs, salt, session>>

BUGListen(p) ==
    /\ Goto(p, "listen", "up")
    /\ UNCHANGED <<fs, locks, salt, session>>

Listen(p) ==
    /\ Goto(p, "listen", "up") /\ Unlock(p)
    /\ UNCHANGED <<fs, salt, session>>

(***************************************************************************)
(* The rest of a process's life                                            *)
(***************************************************************************)
\* share_listen_accepting
Accept(p) ==
    /\ pc[p] = "down" /\ p \notin accepted /\ pc[peer[p]] = "up"
    /\ accepted' = accepted \union {p}
    /\ UNCHANGED <<pc, fs, locks, salt, peer, ended>>

Leave(p) ==
    /\ pc[p] \in {"down", "alone"} /\ pc' = [pc EXCEPT ![p] = "idle"]
    /\ peer' = [peer EXCEPT ![p] = None] /\ accepted' = accepted \ {p}
    /\ UNCHANGED <<fs, locks, salt, ended>>

\* ssh2_check_termination: the session is over, and no downstream is known
End(p) ==
    /\ MayEnd /\ \A q \in accepted : peer[q] # p
    /\ Goto(p, "up", "rmsock")
    /\ UNCHANGED <<fs, locks, salt, session>>

\* platform_ssh_share_cleanup
RemoveSocket(p) ==
    /\ Goto(p, "rmsock", "rmlock")
    /\ fs' = [fs EXCEPT !.sock = None]
    /\ UNCHANGED <<locks, salt, session>>

RemoveLock(p) ==
    /\ Goto(p, "rmlock", "rmdir")
    /\ fs' = [fs EXCEPT !.lock = 0]
    /\ UNCHANGED <<locks, salt, session>>

RemoveDirectory(p) ==
    /\ Goto(p, "rmdir", "close")
    /\ fs' = [fs EXCEPT !.dir = @ /\ ~(fs.lock = 0 /\ fs.sock = None)]
    /\ UNCHANGED <<locks, salt, session>>

\* The sockets of a process are closed; its downstreams end.
Gone(p) ==
    LET down == {q \in Processes : peer[q] = p} IN
    /\ pc' = [q \in Processes |-> IF q \in down \union {p} THEN "idle" ELSE pc[q]]
    /\ fs' = [fs EXCEPT !.sock = IF @ = p THEN "stale" ELSE @]
    /\ peer' = [q \in Processes |-> IF q \in down \union {p} THEN None ELSE peer[q]]
    /\ accepted' = accepted \ (down \union {p})
    /\ UNCHANGED <<salt, ended>>

\* sharestate_free closes the listening socket last.
Close(p) == pc[p] = "close" /\ Gone(p) /\ UNCHANGED locks

Crash(p) == MayCrash /\ pc[p] # "idle" /\ Gone(p) /\ Unlock(p)

Share(p) ==
    \/ OpenSalt(p) \/ LinkSalt(p) \/ ReadSalt(p) \/ Mkdir(p) \/ OpenLock(p)
    \/ Flock(p) \/ Connect(p) \/ NobodyThere(p) \/ Unlink(p) \/ Bind(p)
    \/ BindFails(p) \/ Listen(p)

Cleanup(p) ==
    RemoveSocket(p) \/ RemoveLock(p) \/ RemoveDirectory(p) \/ Close(p)

Next ==
    \E p \in Processes :
        \/ Start(p) \/ Share(p) \/ Accept(p) \/ Leave(p) \/ End(p) \/ Cleanup(p)
        \/ Crash(p)

Spec == Init /\ [][Next]_vars

\* A process that has begun to set up sharing goes on with it; flock() is
\* fair among those who wait.
FairSpec == Spec /\ \A p \in Processes : SF_vars(Share(p)) /\ WF_vars(Cleanup(p))

(***************************************************************************)
(* Properties                                                              *)
(***************************************************************************)
\* All processes that have read a salt have read the same, the one in the
\* file: those that connect to the same host look in the same directory.
SaltsAgree ==
    \A p \in Processes : salt[p] # None /\ pc[p] # "idle" => salt[p] = fs.salt

Upstreams == {p \in Processes : pc[p] = "up"}

\* At most one process has the connection to the server.
OneUpstream == Cardinality(Upstreams) <= 1

\* Another process can find the upstream: the socket in the directory is its.
UpstreamReachable == \A p \in Upstreams : fs.dir /\ fs.sock = p

\* Sharing is set up unless it is not allowed to be an upstream and there is
\* none.
SharingWorks == \A p \in CanUpstream : pc[p] # "alone"

\* A process is downstream of one that is running.
PeerListens == \A p \in Processes : pc[p] = "down" => pc[peer[p]] \in Listening

\* Processes that start, crash and end at any moment find one another: they
\* look in the same place, a downstream has an upstream, and until the first
\* upstream ends in good order, where all may be downstream, there is at most
\* one upstream and it can be found.
UpstreamFound ==
    /\ TypeOK /\ SaltsAgree /\ PeerListens
    /\ ~ended /\ CanDownstream = Processes =>
           OneUpstream /\ UpstreamReachable /\ SharingWorks

\* Every process that starts finds out whether it shares, and as what, whoever
\* dies with the lock held.
EveryoneDecides ==
    \A p \in Processes :
        pc[p] = "salt" ~> pc[p] \in {"up", "down", "alone", "idle"}

-----------------------------------------------------------------------------
(* What the code is meant to do and does not: see Deviations in README.md. *)

\* An upstream does not end under a downstream.
UpstreamStays == \A p \in Processes : pc[p] = "down" => pc[peer[p]] = "up"
=============================================================================
