------------------------------ MODULE QpSocket ------------------------------
(***************************************************************************)
(* The life cycle of qp_socket_t structures, qp_socket.c over the          *)
(* descriptor functions of qp_io_core.c, against a kernel that hands out   *)
(* the lowest free descriptor number, also to the rest of the program.     *)
(*                                                                         *)
(* A structure is caller's memory or allocated by the library; both begin  *)
(* and end uninitialised here.  Every unix server uses the same name, and  *)
(* the clients are one thread's, whose own name is made of pthread_self(). *)
(***************************************************************************)
EXTENDS Integers, FiniteSets

CONSTANTS
  Skt,      \* structures
  MaxFd     \* bound: descriptor numbers

ASSUME SocketAssumption == IsFiniteSet(Skt) /\ MaxFd \in Nat

Fd == 1..MaxFd
INVALID == 0     \* QP_FD_INVALID

VARIABLES
  is_inited, is_listen, is_noblock, domain, fd,   \* the structures
  sock,       \* the kernel: what each descriptor is
  nonblock,   \* the kernel: descriptors with O_NONBLOCK
  path,       \* the file system: the descriptor bound to each name
  lost        \* history: descriptors of structures that were initialised again

vars == <<is_inited, is_listen, is_noblock, domain, fd, sock, nonblock, path, lost>>

Domain == {"unix", "inet", "inet6"}
Gone == MaxFd + 1    \* a name whose socket has been closed

Init ==
  /\ is_inited = [s \in Skt |-> FALSE]
  /\ is_listen = [s \in Skt |-> FALSE]
  /\ is_noblock = [s \in Skt |-> FALSE]
  /\ domain = [s \in Skt |-> "unsupport"]
  /\ fd = [s \in Skt |-> INVALID]
  /\ sock = [f \in Fd |-> "closed"]
  /\ nonblock = {}
  /\ path = [p \in {"server", "client"} |-> INVALID]
  /\ lost = {}

-----------------------------------------------------------------------------
\* The kernel opens the lowest number that is closed.
Opens(f) ==
  /\ f \in Fd /\ sock[f] = "closed"
  /\ \A g \in 1..(f - 1) : sock[g] # "closed"

\* close(f): the name stays, and leads nowhere.
ClosesFd(f) ==
  /\ sock' = [sock EXCEPT ![f] = "closed"]
  /\ nonblock' = nonblock \ {f}
  /\ path' = [p \in DOMAIN path |-> IF path[p] = f THEN Gone ELSE path[p]]

\* Mutant: the structure is not cleared.
Created_FlagKept(s, f, d, server) ==
  /\ is_inited' = [is_inited EXCEPT ![s] = TRUE]
  /\ is_listen' = [is_listen EXCEPT ![s] = server]
  /\ domain' = [domain EXCEPT ![s] = d]
  /\ fd' = [fd EXCEPT ![s] = f]
  /\ lost' = lost \cup ({fd[s]} \ {INVALID})
  /\ UNCHANGED is_noblock

\* qp_socket_create clears the structure, whatever it held.
Created(s, f, d, server) ==
  /\ is_inited' = [is_inited EXCEPT ![s] = TRUE]
  /\ is_listen' = [is_listen EXCEPT ![s] = server]
  /\ is_noblock' = [is_noblock EXCEPT ![s] = FALSE]
  /\ domain' = [domain EXCEPT ![s] = d]
  /\ fd' = [fd EXCEPT ![s] = f]
  /\ lost' = lost \cup ({fd[s]} \ {INVALID})

\* Mutant: a client removes the name it is going to connect to.
Assigned_ServerName(f, d, server) ==
  /\ path' = IF d # "unix" THEN path
             ELSE IF server THEN [path EXCEPT !["server"] = INVALID]
             ELSE [path EXCEPT !["client"] = f, !["server"] = INVALID]
  /\ sock' = [sock EXCEPT ![f] = IF d = "unix" /\ ~server THEN "bound" ELSE "fresh"]
  /\ UNCHANGED nonblock

\* What qp_socket_assign_* leaves of the names: a server's name is removed at
\* once, a client's is removed and bound again.
Assigned(f, d, server) ==
  /\ path' = IF d # "unix" THEN path
             ELSE IF server THEN [path EXCEPT !["server"] = INVALID]
             ELSE [path EXCEPT !["client"] = f]
  /\ sock' = [sock EXCEPT ![f] = IF d = "unix" /\ ~server THEN "bound" ELSE "fresh"]
  /\ UNCHANGED nonblock

\* qp_socket_init; the structure may be in use.
InitSucceeds(s, d, server) ==
  /\ d # "inet6"
  /\ \E f \in Fd :
       /\ Opens(f)
       /\ Created(s, f, d, server)
       /\ Assigned(f, d, server)

\* socket(2) fails, or the address is refused (always for inet6, never for a
\* unix server) and the descriptor closed again by qp_socket_destroy.  A unix
\* client has removed its name by then.
InitFails(s, d, server) ==
  /\ \/ UNCHANGED path
     \/ /\ d = "unix" /\ ~server /\ \E f \in Fd : Opens(f)
        /\ path' = [path EXCEPT !["client"] = INVALID]
  /\ is_inited' = [is_inited EXCEPT ![s] = FALSE]
  /\ is_listen' = [is_listen EXCEPT ![s] = server]
  /\ is_noblock' = [is_noblock EXCEPT ![s] = FALSE]
  /\ domain' = [domain EXCEPT ![s] = "unsupport"]
  /\ fd' = [fd EXCEPT ![s] = INVALID]
  /\ lost' = lost \cup ({fd[s]} \ {INVALID})
  /\ UNCHANGED <<sock, nonblock>>

-----------------------------------------------------------------------------
\* qp_socket_listen: bind(2) fails on a bound socket and on a name that exists,
\* both calls may fail for other reasons, and a listen that fails leaves the
\* socket bound.
qp_socket_listen(s) ==
  LET f == fd[s]
  IN  /\ is_inited[s] /\ is_listen[s] /\ f # INVALID
      /\ sock[f] = "fresh"
      /\ domain[s] = "unix" => path["server"] = INVALID
      /\ path' = IF domain[s] = "unix" THEN [path EXCEPT !["server"] = f] ELSE path
      /\ \E k \in {"bound", "listening"} : sock' = [sock EXCEPT ![f] = k]
      /\ UNCHANGED <<is_inited, is_listen, is_noblock, domain, fd, nonblock, lost>>

\* qp_socket_accept into c: the structure is returned whether accept(2) gave a
\* descriptor or failed.
qp_socket_accept(s, c) ==
  /\ is_inited[s] /\ is_listen[s] /\ fd[s] # INVALID /\ c # s
  /\ \/ /\ Created(c, INVALID, domain[s], FALSE)
        /\ UNCHANGED sock
     \/ \E f \in Fd :
          /\ sock[fd[s]] = "listening"
          /\ Opens(f)
          /\ Created(c, f, domain[s], FALSE)
          /\ sock' = [sock EXCEPT ![f] = "connected"]
  /\ UNCHANGED <<nonblock, path>>

\* qp_socket_connect, where it succeeds: a unix client through the server's name.
qp_socket_connect(s) ==
  LET f == fd[s]
  IN  /\ is_inited[s] /\ ~is_listen[s] /\ f # INVALID
      /\ sock[f] \in {"fresh", "bound"}
      /\ domain[s] = "unix" => /\ path["server"] \in Fd
                               /\ sock[path["server"]] = "listening"
      /\ sock' = [sock EXCEPT ![f] = "connected"]
      /\ UNCHANGED <<is_inited, is_listen, is_noblock, domain, fd, nonblock, path, lost>>

\* qp_fd_setNoBlock trusts its flag, and else asks the kernel.
qp_socket_set_noblock(s) ==
  /\ is_inited[s] /\ fd[s] # INVALID
  /\ ~is_noblock[s]
  /\ is_noblock' = [is_noblock EXCEPT ![s] = TRUE]
  /\ nonblock' = nonblock \cup {fd[s]}
  /\ UNCHANGED <<is_inited, is_listen, domain, fd, sock, path, lost>>

\* Mutant: the number is kept after close(2).
qp_socket_close_KeepsNumber(s) ==
  /\ is_inited[s] /\ fd[s] # INVALID
  /\ ClosesFd(fd[s])
  /\ UNCHANGED <<is_inited, is_listen, is_noblock, domain, fd, lost>>

\* qp_socket_close, with or without a shutdown(2); is_noblock is kept.
qp_socket_close(s) ==
  /\ is_inited[s] /\ fd[s] # INVALID
  /\ fd' = [fd EXCEPT ![s] = INVALID]
  /\ ClosesFd(fd[s])
  /\ UNCHANGED <<is_inited, is_listen, is_noblock, domain, lost>>

qp_socket_destroy(s) ==
  /\ is_inited[s]
  /\ IF fd[s] = INVALID THEN UNCHANGED <<sock, nonblock, path>> ELSE ClosesFd(fd[s])
  /\ is_inited' = [is_inited EXCEPT ![s] = FALSE]
  /\ is_noblock' = [is_noblock EXCEPT ![s] = FALSE]
  /\ domain' = [domain EXCEPT ![s] = "unsupport"]
  /\ fd' = [fd EXCEPT ![s] = INVALID]
  /\ UNCHANGED <<is_listen, lost>>

\* The rest of the program opens and closes descriptors of its own.
OtherOpens ==
  /\ \E f \in Fd : Opens(f) /\ sock' = [sock EXCEPT ![f] = "other"]
  /\ UNCHANGED <<is_inited, is_listen, is_noblock, domain, fd, nonblock, path, lost>>

OtherCloses ==
  /\ \E f \in Fd : sock[f] = "other" /\ sock' = [sock EXCEPT ![f] = "closed"]
  /\ UNCHANGED <<is_inited, is_listen, is_noblock, domain, fd, nonblock, path, lost>>

Next ==
  \/ \E s \in Skt :
       \/ \E d \in Domain, server \in BOOLEAN :
            InitSucceeds(s, d, server) \/ InitFails(s, d, server)
       \/ \E c \in Skt : qp_socket_accept(s, c)
       \/ qp_socket_listen(s) \/ qp_socket_connect(s) \/ qp_socket_set_noblock(s)
       \/ qp_socket_close(s) \/ qp_socket_destroy(s)
  \/ OtherOpens \/ OtherCloses

Spec == Init /\ [][Next]_vars

-----------------------------------------------------------------------------
TypeOK ==
  /\ is_inited \in [Skt -> BOOLEAN] /\ is_listen \in [Skt -> BOOLEAN]
  /\ is_noblock \in [Skt -> BOOLEAN]
  /\ domain \in [Skt -> Domain \cup {"unsupport"}]
  /\ fd \in [Skt -> Fd \cup {INVALID}]
  /\ sock \in [Fd -> {"closed", "fresh", "bound", "listening", "connected", "other"}]
  /\ nonblock \subseteq Fd /\ lost \subseteq Fd
  /\ path \in [{"server", "client"} -> Fd \cup {INVALID, Gone}]

(***************************************************************************)
(* Although numbers are used again at once, a structure's descriptor is    *)
(* always open, a socket and no other structure's, so that no close of the *)
(* library ever hits the rest of the program; and after failed inits and   *)
(* accepts no open socket is without a structure.  The one leak is by      *)
(* qp_socket_create, which clears a structure that is in use.              *)
(***************************************************************************)
DescriptorsOwned ==
  LET Held == {fd[s] : s \in Skt} \ {INVALID}
  IN  /\ Held \cup lost = {f \in Fd : sock[f] \notin {"closed", "other"}}
      /\ Held \cap lost = {}
      /\ \A s, t \in Skt : s # t /\ fd[s] = fd[t] => fd[s] = INVALID
      /\ \A s \in Skt : fd[s] # INVALID => is_inited[s]

(***************************************************************************)
(* is_noblock, which makes qp_fd_setNoBlock return without a system call   *)
(* and which close leaves set, never speaks for a blocking descriptor.     *)
(***************************************************************************)
NonblockTrue ==
  \A s \in Skt : is_noblock[s] /\ fd[s] # INVALID => fd[s] \in nonblock

(***************************************************************************)
(* The name of a listening server leads to it until it is closed or a      *)
(* structure becomes a server of that name, which removes it even if its   *)
(* own listen never comes; clients, accepts and failures leave it alone.   *)
(***************************************************************************)
NameKept ==
  [][\A f \in Fd :
       path["server"] = f /\ sock[f] = "listening" /\ path'["server"] # f =>
         \/ sock'[f] = "closed"
         \/ \E s \in Skt : fd'[s] # fd[s] /\ is_listen'[s] /\ domain'[s] = "unix"]_vars
=============================================================================
