---------------------------- MODULE ListenSocket ----------------------------
(***************************************************************************)
(* The listen socket of a server device: sock_create_server and            *)
(* prepare_server_sock_path (src/vdev.c), one system call per step.        *)
(*                                                                         *)
(* The socket path lives in a filesystem other processes share: between    *)
(* two steps another process may create a regular file at the path or      *)
(* remove what is there.  What is at the path is "none", "file" (anything  *)
(* that is not a socket), "stale" (a socket file no one listens on, left   *)
(* by an earlier server) or "ours" (bound by this server's listen socket). *)
(* Nobody else removes a socket this server listens on.                    *)
(***************************************************************************)
EXTENDS Integers

CONSTANTS
    SunPathLen,     \* sizeof(sockaddr.sun_path), scaled down
    PathLens        \* strlen(socket_path) of the paths a caller may pass

ASSUME SunPathLen \in Nat \ {0} /\ PathLens \subseteq Nat

VARIABLES
    path,           \* what is at the caller's socket path
    pathLen,        \* strlen(socket_path)
    createPc,       \* the next step of sock_create_server, or its outcome
    listenFd        \* the socket sock_create_server made is open

lsVars == <<path, pathLen, createPc, listenFd>>

PathStates == {"none", "file", "stale", "ours"}
CreatePcs == {"start", "stat", "unlink", "socket", "bind", "listen", "fcntl",
              "created", "failed"}

\* close(fd): a socket that was bound leaves its file behind.
CloseListenFd ==
    /\ listenFd' = FALSE
    /\ path' = IF path = "ours" THEN "stale" ELSE path

\* A step that ends in "goto close_fd" or returns -1 before socket().
Fail(closes) ==
    /\ createPc' = "failed"
    /\ IF closes THEN CloseListenFd ELSE UNCHANGED <<listenFd, path>>

Step(from, to) == createPc = from /\ createPc' = to

-----------------------------------------------------------------------------
(* sock_create_server                                                      *)

\* Mutant: a path of exactly sizeof(sun_path) bytes is let through.
CheckPathLenOffByOne ==
    /\ createPc = "start"
    /\ IF pathLen > SunPathLen THEN Fail(FALSE) ELSE createPc' = "stat"
    /\ UNCHANGED <<path, pathLen, listenFd>>

\* The path and its terminating NUL must fit in sun_path.
CheckPathLen ==
    /\ createPc = "start"
    /\ IF pathLen >= SunPathLen THEN Fail(FALSE) ELSE createPc' = "stat"
    /\ UNCHANGED <<path, pathLen, listenFd>>

\* prepare_server_sock_path, stat(): a missing path is fine, a socket is to
\* be unlinked, anything else is EINVAL; stat itself may fail otherwise
\* (EACCES, ENOTDIR, ...).
StatPath ==
    /\ createPc = "stat"
    /\ \/ /\ path = "none"
          /\ createPc' = "socket"
       \/ /\ path \in {"stale", "ours"}
          /\ createPc' = "unlink"
       \/ /\ path = "file"
          /\ Fail(FALSE)
       \/ Fail(FALSE)
    /\ UNCHANGED <<path, pathLen, listenFd>>

\* unlink(): removes whatever is at the path now; ENOENT if nothing is,
\* and it may fail otherwise (EACCES, EBUSY).
UnlinkPath ==
    /\ createPc = "unlink"
    /\ \/ path # "none" /\ path' = "none" /\ createPc' = "socket"
       \/ Fail(FALSE)
    /\ UNCHANGED <<pathLen, listenFd>>

\* socket(AF_UNIX, SOCK_STREAM, 0), which may fail (EMFILE, ENOBUFS).
CreateSocket ==
    /\ createPc = "socket"
    /\ \/ Step("socket", "bind") /\ listenFd' = TRUE
       \/ Fail(FALSE) /\ UNCHANGED listenFd
    /\ UNCHANGED <<path, pathLen>>

\* bind() to sun_path, the path strncpy'd to at most SunPathLen - 1 bytes.
\* At the whole path it is EADDRINUSE when anything is there; at a
\* truncated prefix it binds a different path, whose file this model does
\* not follow.  Any bind may also fail for another reason (EACCES, ...).
BindSocket ==
    LET bound == IF pathLen < SunPathLen - 1 THEN pathLen ELSE SunPathLen - 1
    IN /\ createPc = "bind"
       /\ \/ /\ bound = pathLen
             /\ path = "none"
             /\ Step("bind", "listen")
             /\ path' = "ours"
             /\ UNCHANGED listenFd
          \/ /\ bound # pathLen
             /\ Step("bind", "listen")
             /\ UNCHANGED <<path, listenFd>>
          \/ Fail(TRUE)
       /\ UNCHANGED pathLen

\* listen(fd, 1); then fcntl F_GETFL and F_SETFL O_NONBLOCK.  Each call
\* may fail, and every failure goes to close_fd.
ListenBacklog ==
    /\ \/ Step("listen", "fcntl") /\ UNCHANGED <<path, listenFd>>
       \/ createPc = "listen" /\ Fail(TRUE)
    /\ UNCHANGED pathLen

SetNonBlocking ==
    /\ \/ Step("fcntl", "created") /\ UNCHANGED <<path, listenFd>>
       \/ createPc = "fcntl" /\ Fail(TRUE)
    /\ UNCHANGED pathLen

-----------------------------------------------------------------------------
(* Another process using the same path while the server is being created *)

OtherCreatesFile ==
    /\ createPc \notin {"created", "failed"}
    /\ path = "none"
    /\ path' = "file"
    /\ UNCHANGED <<pathLen, createPc, listenFd>>

OtherRemoves ==
    /\ createPc \notin {"created", "failed"}
    /\ path \in {"file", "stale"}
    /\ path' = "none"
    /\ UNCHANGED <<pathLen, createPc, listenFd>>

Other == OtherCreatesFile \/ OtherRemoves

CreateStep ==
    CheckPathLen \/ StatPath \/ UnlinkPath \/ CreateSocket \/ BindSocket
      \/ ListenBacklog \/ SetNonBlocking

-----------------------------------------------------------------------------

\* Whatever an earlier run or another program left at the path.
Init ==
    /\ path \in {"none", "file", "stale"}
    /\ pathLen \in PathLens
    /\ createPc = "start"
    /\ listenFd = FALSE

Next == CreateStep \/ Other

Spec == Init /\ [][Next]_lsVars

TypeOK ==
    /\ path \in PathStates
    /\ pathLen \in PathLens
    /\ createPc \in CreatePcs
    /\ listenFd \in BOOLEAN

\* Spec "Listen socket": "an existing regular file at the path is an
\* error; an existing socket file is unlinked".  Whenever the server's
\* unlink step removes something from the path, it is a socket file.
UnlinkOnlySockets ==
    [][createPc = "unlink" /\ path # "none" /\ path' = "none"
        => path \in {"stale", "ours"}]_lsVars

=============================================================================
