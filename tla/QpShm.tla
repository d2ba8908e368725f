-------------------------------- MODULE QpShm --------------------------------
(***************************************************************************)
(* qp_shm_t: shared memory, anonymous or found by name.  Several processes *)
(* attach to one name and detach from it; every system call is a step.     *)
(* An object of the kernel lives on while somebody maps it, but the name   *)
(* leads to it only until anybody unlinks the name.                        *)
(***************************************************************************)
EXTENDS Integers, FiniteSets

CONSTANTS
  Process,
  Null,
  MaxObjects,   \* bound: the objects ever created under the name
  MaxFd         \* the highest descriptor a process can open

VARIABLES
  linked,    \* the object the name leads to, or Null
  objects,   \* how many objects were created under the name
  fds,       \* for each process, the descriptors that are open, as a set
             \* of pairs <<descriptor, object>>
  shm,       \* each process's structure
  shmpc,     \* where each process is in qp_shm_init or qp_shm_destroy
  stale,     \* the processes that opened the name before it was unlinked
  failed     \* how often each process's qp_shm_init failed after shm_open

shmVars == <<linked, objects, fds, shm, shmpc, stale, failed>>

QP_IPC_INVALID == -1

NoShm == [addr |-> Null, named |-> FALSE, fd |-> QP_IPC_INVALID,
          is_inited |-> FALSE, is_alloced |-> FALSE]

Init ==
  /\ linked = Null
  /\ objects = 0
  /\ fds = [p \in Process |-> {}]
  /\ shm = [p \in Process |-> NoShm]
  /\ shmpc = [p \in Process |-> "idle"]
  /\ stale = {}
  /\ failed = [p \in Process |-> 0]

At(p, from, to) == shmpc[p] = from /\ shmpc' = [shmpc EXCEPT ![p] = to]

\* The lowest descriptor that is not open, if there is one.
FreeFds(p) == (0..MaxFd) \ {d[1] : d \in fds[p]}
LowestFd(p) == CHOOSE d \in FreeFds(p) : \A e \in FreeFds(p) : d <= e

ObjectOf(p, fd) == (CHOOSE d \in fds[p] : d[1] = fd)[2]

Unlink(p) ==
  /\ linked' = Null
  /\ stale' = (stale \cup {q \in Process : shm[q].fd > QP_IPC_INVALID}) \ {p}

-----------------------------------------------------------------------------
(* qp_shm_init *)

\* Without a name nothing is opened.
InitAnonymous(p) ==
  /\ ~shm[p].is_inited
  /\ At(p, "idle", "create")
  /\ shm' = [shm EXCEPT ![p] = NoShm]
  /\ UNCHANGED <<linked, objects, fds, stale, failed>>

\* shm_open with O_CREAT finds the object of that name or creates one.
ShmOpen(p) ==
  /\ ~shm[p].is_inited
  /\ FreeFds(p) # {}
  /\ linked = Null => objects < MaxObjects
  /\ At(p, "idle", "create")
  /\ linked' = IF linked = Null THEN <<"object", objects + 1>> ELSE linked
  /\ objects' = IF linked = Null THEN objects + 1 ELSE objects
  /\ fds' = [fds EXCEPT ![p] = @ \cup {<<LowestFd(p), linked'>>}]
  /\ shm' = [shm EXCEPT ![p] = [NoShm EXCEPT !.fd = LowestFd(p)]]
  /\ stale' = stale \ {p}
  /\ UNCHANGED failed

\* Mutant: descriptor 0 is taken for no descriptor.
Mapped_NoZero(p) ==
  IF shm[p].fd > 0 THEN ObjectOf(p, shm[p].fd) ELSE <<"anonymous", p>>

\* mmap: of the descriptor if there is one, anonymous otherwise.
Mapped(p) ==
  IF shm[p].fd > QP_IPC_INVALID THEN ObjectOf(p, shm[p].fd) ELSE <<"anonymous", p>>

\* qp_shm_create inside qp_shm_init; the name is entered in the structure.
qp_shm_create(p, alloc) ==
  /\ At(p, "create", "idle")
  /\ shm' = [shm EXCEPT ![p] = [addr |-> Mapped(p), named |-> @.fd > QP_IPC_INVALID,
                                fd |-> @.fd, is_inited |-> TRUE, is_alloced |-> alloc]]
  /\ UNCHANGED <<linked, objects, fds, stale, failed>>

\* The allocation or the mapping fails: the name is unlinked, whoever else
\* uses it, and the descriptor stays open.
CreateFails(p) ==
  /\ At(p, "create", "idle")
  /\ IF shm[p].fd > QP_IPC_INVALID
     THEN Unlink(p) /\ failed' = [failed EXCEPT ![p] = @ + 1]
     ELSE UNCHANGED <<linked, stale, failed>>
  /\ shm' = [shm EXCEPT ![p] = NoShm]
  /\ UNCHANGED <<objects, fds>>

-----------------------------------------------------------------------------
(* qp_shm_destroy *)

\* munmap; when it fails nothing was changed.  What has no name is done.
Munmap(p) ==
  /\ shm[p].is_inited
  /\ At(p, "idle", IF shm[p].named THEN "close" ELSE "idle")
  /\ shm' = [shm EXCEPT ![p] = IF @.named THEN [@ EXCEPT !.addr = Null] ELSE NoShm]
  /\ UNCHANGED <<linked, objects, fds, stale, failed>>

\* Mutant: the descriptor is not closed.
Close_Forgotten(p) ==
  /\ At(p, "close", "unlink")
  /\ UNCHANGED <<linked, objects, fds, shm, stale, failed>>

Close(p) ==
  /\ At(p, "close", "unlink")
  /\ fds' = [fds EXCEPT ![p] = {d \in @ : d[1] # shm[p].fd}]
  /\ UNCHANGED <<linked, objects, shm, stale, failed>>

\* shm_unlink takes the name away, whichever object it leads to by now; the
\* flags are cleared and an allocated structure is freed.
ShmUnlink(p) ==
  /\ At(p, "unlink", "idle")
  /\ Unlink(p)
  /\ shm' = [shm EXCEPT ![p] = NoShm]
  /\ UNCHANGED <<objects, fds, failed>>

Next ==
  \E p \in Process :
    \/ InitAnonymous(p) \/ ShmOpen(p) \/ CreateFails(p)
    \/ \E alloc \in BOOLEAN : qp_shm_create(p, alloc)
    \/ Munmap(p) \/ Close(p) \/ ShmUnlink(p)

-----------------------------------------------------------------------------
\* qp_shm_start: the memory a process may use.
qp_shm_start(p) ==
  IF shm[p].is_inited /\ shmpc[p] = "idle" THEN shm[p].addr ELSE Null

(***************************************************************************)
(* Processes that attached with qp_shm_init under one name see the same    *)
(* memory, in whatever order they attach, detach and fail, as long as the  *)
(* name was not unlinked since they opened it; a process never gets the    *)
(* anonymous memory of another.                                            *)
(***************************************************************************)
SameNameSameMemory ==
  \A p, q \in Process :
    p # q /\ qp_shm_start(p) # Null /\ qp_shm_start(q) # Null =>
      /\ shm[p].named /\ shm[q].named /\ {p, q} \cap stale = {}
           => qp_shm_start(p) = qp_shm_start(q)
      /\ qp_shm_start(p) = qp_shm_start(q) => shm[p].named /\ shm[q].named

(***************************************************************************)
(* Between its calls a process has open, besides the descriptors left by   *)
(* attempts of qp_shm_init that failed after shm_open, exactly the one of  *)
(* the named memory it is attached to.                                     *)
(***************************************************************************)
DescriptorsAccounted ==
  \A p \in Process :
    shmpc[p] = "idle" =>
      Cardinality(fds[p]) = failed[p] + (IF shm[p].named THEN 1 ELSE 0)
=============================================================================
