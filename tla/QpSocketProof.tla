--------------------------- MODULE QpSocketProof ---------------------------
(***************************************************************************)
(* Proofs about QpSocket, for any set of structures and any number of      *)
(* descriptors.                                                            *)
(***************************************************************************)
EXTENDS QpSocket, TLAPS

(***************************************************************************)
(* DescriptorsOwned, descriptor by descriptor, with the types.             *)
(***************************************************************************)
OpenIsOwned ==
  \A f \in Fd : sock[f] \notin {"closed", "other"}
                   <=> f \in lost \/ \E s \in Skt : fd[s] = f

OwnedOnce ==
  /\ \A s \in Skt : fd[s] \notin lost
  /\ \A s, t \in Skt : s # t /\ fd[s] = fd[t] => fd[s] = INVALID
  /\ \A s \in Skt : fd[s] # INVALID => is_inited[s]

IInv == TypeOK /\ OpenIsOwned /\ OwnedOnce /\ NonblockTrue

(***************************************************************************)
(* No structure is in use and nothing is open in the beginning.            *)
(***************************************************************************)
LEMMA InitIInv == Init => IInv
  BY SocketAssumption
  DEF Init, IInv, TypeOK, OpenIsOwned, OwnedOnce, NonblockTrue, Fd, INVALID, Domain, Gone

(***************************************************************************)
(* The number the kernel gives out belongs to no structure and was not     *)
(* lost, however often it was used before.                                 *)
(***************************************************************************)
LEMMA OpensFresh ==
  ASSUME IInv, NEW f \in Fd, Opens(f)
  PROVE  f \notin lost /\ \A s \in Skt : fd[s] # f
  BY DEF IInv, OpenIsOwned, Opens

(***************************************************************************)
(* Clearing a structure that gets a fresh descriptor keeps the invariant.  *)
(***************************************************************************)
LEMMA CreatedFresh ==
  ASSUME IInv, NEW s \in Skt, NEW f \in Fd, Opens(f), NEW d \in Domain \cup {"unsupport"},
         NEW server \in BOOLEAN, Created(s, f, d, server),
         NEW k \in {"fresh", "bound", "connected"}, sock' = [sock EXCEPT ![f] = k],
         UNCHANGED nonblock, path' \in [{"server", "client"} -> Fd \cup {INVALID, Gone}]
  PROVE  IInv'
<1> USE SocketAssumption DEF IInv, TypeOK, Fd, INVALID
<1>1. f \notin lost /\ \A t \in Skt : fd[t] # f
  BY OpensFresh
<1>2. TypeOK'
  BY DEF Created, Domain
<1>3. OpenIsOwned'
  BY <1>1 DEF Created, OpenIsOwned, OwnedOnce
<1>4. OwnedOnce'
  BY <1>1 DEF Created, OwnedOnce
<1>5. NonblockTrue'
  BY <1>1 DEF Created, NonblockTrue
<1> QED
  BY <1>2, <1>3, <1>4, <1>5

(***************************************************************************)
(* So does clearing one that gets no descriptor.                           *)
(***************************************************************************)
LEMMA CreatedEmpty ==
  ASSUME IInv, NEW s \in Skt, fd' = [fd EXCEPT ![s] = INVALID],
         NEW i \in BOOLEAN, is_inited' = [is_inited EXCEPT ![s] = i],
         NEW server \in BOOLEAN, is_listen' = [is_listen EXCEPT ![s] = server],
         is_noblock' = [is_noblock EXCEPT ![s] = FALSE],
         NEW d \in Domain \cup {"unsupport"}, domain' = [domain EXCEPT ![s] = d],
         lost' = lost \cup ({fd[s]} \ {INVALID}),
         UNCHANGED <<sock, nonblock>>,
         path' \in [{"server", "client"} -> Fd \cup {INVALID, Gone}]
  PROVE  IInv'
<1> USE SocketAssumption DEF IInv, TypeOK, Fd, INVALID
<1>1. TypeOK'
  BY DEF Domain
<1>2. OpenIsOwned'
  BY DEF OpenIsOwned, OwnedOnce
<1>3. OwnedOnce'
  BY DEF OwnedOnce
<1>4. NonblockTrue'
  BY DEF NonblockTrue
<1> QED
  BY <1>1, <1>2, <1>3, <1>4

(***************************************************************************)
(* Closing a structure's descriptor and forgetting the number keeps it.    *)
(***************************************************************************)
LEMMA ClosedForgotten ==
  ASSUME IInv, NEW s \in Skt, is_inited[s], fd[s] # INVALID, ClosesFd(fd[s]),
         fd' = [fd EXCEPT ![s] = INVALID],
         NEW i \in BOOLEAN, is_inited' = [is_inited EXCEPT ![s] = i],
         NEW b \in BOOLEAN, is_noblock' = [is_noblock EXCEPT ![s] = b],
         NEW d \in Domain \cup {"unsupport"}, domain' = [domain EXCEPT ![s] = d],
         UNCHANGED <<is_listen, lost>>
  PROVE  IInv'
<1> USE SocketAssumption DEF IInv, TypeOK, Fd, INVALID
<1>1. TypeOK'
  BY DEF ClosesFd, Domain, Gone
<1>2. OpenIsOwned'
  BY DEF ClosesFd, OpenIsOwned, OwnedOnce
<1>3. OwnedOnce'
  BY DEF OwnedOnce
<1>4. NonblockTrue'
  BY DEF ClosesFd, NonblockTrue, OwnedOnce
<1> QED
  BY <1>1, <1>2, <1>3, <1>4

(***************************************************************************)
(* Every step keeps the inductive invariant.                               *)
(***************************************************************************)
LEMMA StepIInv == IInv /\ [Next]_vars => IInv'
<1> SUFFICES ASSUME IInv, [Next]_vars PROVE IInv'
  OBVIOUS
<1> USE SocketAssumption
<1>1. ASSUME NEW s \in Skt, NEW d \in Domain, NEW server \in BOOLEAN,
             InitSucceeds(s, d, server)
      PROVE  IInv'
  <2>1. PICK f \in Fd : Opens(f) /\ Created(s, f, d, server) /\ Assigned(f, d, server)
    BY <1>1 DEF InitSucceeds
  <2>2. PICK k \in {"fresh", "bound"} : sock' = [sock EXCEPT ![f] = k]
    BY <2>1 DEF Assigned
  <2>3. UNCHANGED nonblock /\ path' \in [{"server", "client"} -> Fd \cup {INVALID, Gone}]
    BY <2>1 DEF Assigned, IInv, TypeOK
  <2> QED
    BY <2>1, <2>2, <2>3, CreatedFresh
<1>2. ASSUME NEW s \in Skt, NEW d \in Domain, NEW server \in BOOLEAN,
             InitFails(s, d, server)
      PROVE  IInv'
  <2>1. path' \in [{"server", "client"} -> Fd \cup {INVALID, Gone}]
    BY <1>2 DEF InitFails, IInv, TypeOK
  <2> QED
    BY <1>2, <2>1, CreatedEmpty DEF InitFails
<1>3. ASSUME NEW s \in Skt, NEW c \in Skt, qp_socket_accept(s, c)
      PROVE  IInv'
  <2>1. path' \in [{"server", "client"} -> Fd \cup {INVALID, Gone}] /\ UNCHANGED nonblock
    BY <1>3 DEF qp_socket_accept, IInv, TypeOK
  <2>2. domain[s] \in Domain \cup {"unsupport"}
    BY DEF IInv, TypeOK
  <2>3. CASE Created(c, INVALID, domain[s], FALSE) /\ UNCHANGED sock
    BY <2>1, <2>2, <2>3, CreatedEmpty DEF Created
  <2>4. ASSUME NEW f \in Fd, Opens(f), Created(c, f, domain[s], FALSE),
               sock' = [sock EXCEPT ![f] = "connected"]
        PROVE  IInv'
    BY <2>1, <2>2, <2>4, CreatedFresh
  <2> QED
    BY <1>3, <2>3, <2>4 DEF qp_socket_accept
<1>4. ASSUME NEW s \in Skt, qp_socket_listen(s)
      PROVE  IInv'
  BY <1>4 DEF qp_socket_listen, IInv, TypeOK, OpenIsOwned, OwnedOnce, NonblockTrue, INVALID
<1>5. ASSUME NEW s \in Skt, qp_socket_connect(s)
      PROVE  IInv'
  BY <1>5 DEF qp_socket_connect, IInv, TypeOK, OpenIsOwned, OwnedOnce, NonblockTrue, INVALID
<1>6. ASSUME NEW s \in Skt, qp_socket_set_noblock(s)
      PROVE  IInv'
  BY <1>6 DEF qp_socket_set_noblock, IInv, TypeOK, OpenIsOwned, OwnedOnce, NonblockTrue, INVALID
<1>7. ASSUME NEW s \in Skt, qp_socket_close(s)
      PROVE  IInv'
  <2>1. /\ is_inited' = [is_inited EXCEPT ![s] = is_inited[s]]
        /\ is_noblock' = [is_noblock EXCEPT ![s] = is_noblock[s]]
        /\ domain' = [domain EXCEPT ![s] = domain[s]]
        /\ is_inited[s] \in BOOLEAN /\ is_noblock[s] \in BOOLEAN
        /\ domain[s] \in Domain \cup {"unsupport"}
    BY <1>7 DEF qp_socket_close, IInv, TypeOK
  <2> QED
    BY <1>7, <2>1, ClosedForgotten DEF qp_socket_close
<1>8. ASSUME NEW s \in Skt, qp_socket_destroy(s)
      PROVE  IInv'
  <2>1. CASE fd[s] = INVALID
    BY <1>8, <2>1 DEF qp_socket_destroy, IInv, TypeOK, OpenIsOwned, OwnedOnce, NonblockTrue,
       INVALID
  <2>2. CASE fd[s] # INVALID
    BY <1>8, <2>2, ClosedForgotten DEF qp_socket_destroy
  <2> QED
    BY <2>1, <2>2
<1>9. CASE OtherOpens
  BY <1>9 DEF OtherOpens, Opens, IInv, TypeOK, OpenIsOwned, OwnedOnce, NonblockTrue
<1>10. CASE OtherCloses
  BY <1>10 DEF OtherCloses, IInv, TypeOK, OpenIsOwned, OwnedOnce, NonblockTrue
<1>11. CASE UNCHANGED vars
  BY <1>11 DEF vars, IInv, TypeOK, OpenIsOwned, OwnedOnce, NonblockTrue
<1> QED
  BY <1>1, <1>2, <1>3, <1>4, <1>5, <1>6, <1>7, <1>8, <1>9, <1>10, <1>11 DEF Next

(***************************************************************************)
(* The inductive invariant holds in every reachable state.                 *)
(***************************************************************************)
THEOREM SocketInvariant == Spec => []IInv
  BY InitIInv, StepIInv, PTL DEF Spec

(***************************************************************************)
(* Whatever numbers the kernel reuses and however init and accept fail, a  *)
(* structure's descriptor is an open socket of its own, and every open     *)
(* socket has a structure, unless that was cleared while in use.           *)
(***************************************************************************)
THEOREM SocketDescriptorsOwned == Spec => []DescriptorsOwned
<1>1. ASSUME IInv
      PROVE  DescriptorsOwned
  <2> DEFINE Held == {fd[s] : s \in Skt} \ {INVALID}
  <2>1. ASSUME NEW f \in Held \cup lost
        PROVE  f \in Fd /\ sock[f] \notin {"closed", "other"}
    BY <1>1, <2>1 DEF IInv, TypeOK, OpenIsOwned, OwnedOnce
  <2>2. ASSUME NEW f \in Fd, sock[f] \notin {"closed", "other"}
        PROVE  f \in Held \cup lost
    <3>1. f # INVALID
      BY DEF Fd, INVALID
    <3> QED
      BY <1>1, <2>2, <3>1 DEF IInv, OpenIsOwned, OwnedOnce
  <2>3. Held \cap lost = {}
    BY <1>1 DEF IInv, OpenIsOwned, OwnedOnce
  <2>4. Held \cup lost = {f \in Fd : sock[f] \notin {"closed", "other"}}
    <3> HIDE DEF Held
    <3> QED
      BY <2>1, <2>2
  <2>5. /\ \A s, t \in Skt : s # t /\ fd[s] = fd[t] => fd[s] = INVALID
        /\ \A s \in Skt : fd[s] # INVALID => is_inited[s]
    BY <1>1 DEF IInv, OpenIsOwned, OwnedOnce
  <2> QED
    BY <2>3, <2>4, <2>5 DEF DescriptorsOwned
<1> QED
  BY <1>1, SocketInvariant, PTL

(***************************************************************************)
(* is_noblock, which a close keeps, is never set for a blocking descriptor.*)
(***************************************************************************)
THEOREM SocketNonblockTrue == Spec => []NonblockTrue
<1>1. IInv => NonblockTrue
  BY DEF IInv
<1> QED
  BY <1>1, SocketInvariant, PTL

(***************************************************************************)
(* Only its own close or another unix server takes a listening server's    *)
(* name away: qp_socket_listen, accepts, connects, clients and failures    *)
(* leave it alone.                                                         *)
(***************************************************************************)
THEOREM SocketNameKept == Spec => NameKept
<1> DEFINE A == \A f \in Fd :
                  path["server"] = f /\ sock[f] = "listening" /\ path'["server"] # f =>
                    \/ sock'[f] = "closed"
                    \/ \E s \in Skt : fd'[s] # fd[s] /\ is_listen'[s] /\ domain'[s] = "unix"
<1>1. ASSUME IInv, Next, NEW f \in Fd,
             path["server"] = f, sock[f] = "listening", path'["server"] # f
      PROVE  \/ sock'[f] = "closed"
             \/ \E s \in Skt : fd'[s] # fd[s] /\ is_listen'[s] /\ domain'[s] = "unix"
  <2> USE <1>1, SocketAssumption
  <2>1. ASSUME NEW s \in Skt, NEW d \in Domain, NEW server \in BOOLEAN,
               InitSucceeds(s, d, server)
        PROVE  fd'[s] # fd[s] /\ is_listen'[s] /\ domain'[s] = "unix"
    <3>1. PICK g \in Fd : Opens(g) /\ Created(s, g, d, server) /\ Assigned(g, d, server)
      BY <2>1 DEF InitSucceeds
    <3>2. fd[s] # g
      BY <3>1, OpensFresh
    <3>3. d = "unix" /\ server
      BY <3>1 DEF Assigned, IInv, TypeOK
    <3> QED
      BY <3>1, <3>2, <3>3 DEF Created, IInv, TypeOK
  <2>2. ASSUME NEW s \in Skt, NEW d \in Domain, NEW server \in BOOLEAN,
               InitFails(s, d, server)
        PROVE  FALSE
    BY <2>2 DEF InitFails, IInv, TypeOK
  <2>3. ASSUME NEW s \in Skt, NEW c \in Skt, qp_socket_accept(s, c)
        PROVE  FALSE
    BY <2>3 DEF qp_socket_accept
  <2>4. ASSUME NEW s \in Skt, qp_socket_listen(s)
        PROVE  FALSE
    BY <2>4 DEF qp_socket_listen, INVALID, Fd
  <2>5. ASSUME NEW s \in Skt, qp_socket_connect(s) \/ qp_socket_set_noblock(s)
        PROVE  FALSE
    BY <2>5 DEF qp_socket_connect, qp_socket_set_noblock
  <2>6. ASSUME NEW s \in Skt, ClosesFd(fd[s]), fd[s] # INVALID
        PROVE  sock'[f] = "closed"
    BY <2>6 DEF ClosesFd, IInv, TypeOK
  <2>7. ASSUME OtherOpens \/ OtherCloses
        PROVE  FALSE
    BY <2>7 DEF OtherOpens, OtherCloses
  <2> QED
    BY <2>1, <2>2, <2>3, <2>4, <2>5, <2>6, <2>7 DEF Next, qp_socket_close, qp_socket_destroy
<1>2. IInv /\ [Next]_vars => [A]_vars
  BY <1>1
<1> QED
  BY <1>2, SocketInvariant, PTL DEF Spec, NameKept
=============================================================================
