----------------------------- MODULE QpFileLock -----------------------------
(***************************************************************************)
(* The record locks of qp_file.c: processes lock, test and unlock parts of *)
(* one file through qp_file_t handles or bare descriptors.  The kernel     *)
(* keeps a lock for a process, not for a handle: closing any handle on the *)
(* file gives up every lock the process has on it.                         *)
(***************************************************************************)
EXTENDS Integers

CONSTANTS
  Process,
  FileSize,     \* bytes in the file
  MaxHandles    \* bound: handles on the file one process has open

VARIABLES
  locks,     \* the kernel's table: for each process the lock of each byte
  handles,   \* how many handles on the file each process has open
  own,       \* the locks each process was granted and has not unlocked, as
             \* the results of its calls tell it
  dropped    \* the processes that closed one of several handles meanwhile

lockVars == <<locks, handles, own, dropped>>

QP_FILE_LK_RD == "F_RDLCK"
QP_FILE_LK_WR == "F_WRLCK"
QP_FILE_UNLK == "F_UNLCK"

\* The byte behind the end stands for the rest of the number range.
Byte == 0..FileSize

Unlocked == [b \in Byte |-> QP_FILE_UNLK]

Init ==
  /\ locks = [p \in Process |-> Unlocked]
  /\ handles = [p \in Process |-> 0]
  /\ own = [p \in Process |-> Unlocked]
  /\ dropped = {}

\* l_whence, l_start and l_len: counted from the start or the end of the file,
\* to the end and beyond when len is 0, backwards when it is negative.
Part(offset, whence, len) ==
  LET start == IF whence = "SEEK_END" THEN FileSize + offset ELSE offset
  IN CASE len > 0 -> {b \in Byte : start <= b /\ b < start + len}
       [] len = 0 -> {b \in Byte : start <= b}
       [] len < 0 -> {b \in Byte : start + len <= b /\ b < start}

Conflict(type, other) ==
  /\ QP_FILE_UNLK \notin {type, other}
  /\ QP_FILE_LK_WR \in {type, other}

\* fcntl: only the locks of other processes are in the way.
Grantable(p, type, part) ==
  \A q \in Process \ {p} : \A b \in part : ~Conflict(type, locks[q][b])

-----------------------------------------------------------------------------
(* The calls *)

Opened(p) ==
  /\ handles[p] < MaxHandles
  /\ handles' = [handles EXCEPT ![p] = @ + 1]
  /\ UNCHANGED <<locks, own, dropped>>

\* close, of the last handle or of one of several.
Closed(p) ==
  /\ handles[p] > 0
  /\ handles' = [handles EXCEPT ![p] = @ - 1]
  /\ locks' = [locks EXCEPT ![p] = Unlocked]
  /\ IF handles[p] = 1
     THEN own' = [own EXCEPT ![p] = Unlocked] /\ dropped' = dropped \ {p}
     ELSE dropped' = dropped \cup {p} /\ UNCHANGED own

\* qp_file_reglock with F_SETLK, on a file or a bare descriptor.  A lock that
\* is in the way makes it fail, with nothing changed.
qp_file_reglock(p, type, offset, whence, len) ==
  LET part == Part(offset, whence, len)
      Set(table) == [table EXCEPT ![p] =
                       [b \in Byte |-> IF b \in part THEN type ELSE @[b]]]
  IN /\ handles[p] > 0
     /\ part # {}
     /\ Grantable(p, type, part)
     /\ locks' = Set(locks)
     /\ own' = Set(own)
     /\ UNCHANGED <<handles, dropped>>

qp_file_rdlock(p, offset, whence, len) ==
  qp_file_reglock(p, QP_FILE_LK_RD, offset, whence, len)

\* Mutant: a read lock is registered, and taken for a write lock.
qp_file_wrlock_Shared(p, offset, whence, len) ==
  /\ handles[p] > 0
  /\ Part(offset, whence, len) # {}
  /\ Grantable(p, QP_FILE_LK_RD, Part(offset, whence, len))
  /\ locks' = [locks EXCEPT ![p] = [b \in Byte |->
        IF b \in Part(offset, whence, len) THEN QP_FILE_LK_RD ELSE @[b]]]
  /\ own' = [own EXCEPT ![p] = [b \in Byte |->
        IF b \in Part(offset, whence, len) THEN QP_FILE_LK_WR ELSE @[b]]]
  /\ UNCHANGED <<handles, dropped>>

qp_file_wrlock(p, offset, whence, len) ==
  qp_file_reglock(p, QP_FILE_LK_WR, offset, whence, len)

qp_file_unlock(p, offset, whence, len) ==
  qp_file_reglock(p, QP_FILE_UNLK, offset, whence, len)

\* qp_file_locktest: F_GETLK finds a lock that would be in the way, or says
\* F_UNLCK.
qp_file_locktest(p, type, offset, whence, len) ==
  IF Grantable(p, type, Part(offset, whence, len))
  THEN "QP_FILE_IS_UNLOCKED" ELSE "QP_FILE_IS_LOCKED"

qp_file_test_rdlock(p, offset, whence, len) ==
  qp_file_locktest(p, QP_FILE_LK_RD, offset, whence, len) = "QP_FILE_IS_UNLOCKED"

qp_file_test_wrlock(p, offset, whence, len) ==
  qp_file_locktest(p, QP_FILE_LK_WR, offset, whence, len) = "QP_FILE_IS_UNLOCKED"

\* The functions that take a descriptor wrap it in a cleared qp_file_s.
qp_file_fd_reglock(p, type, offset, whence, len) ==
  qp_file_reglock(p, type, offset, whence, len)

qp_file_fd_locktest(p, type, offset, whence, len) ==
  qp_file_locktest(p, type, offset, whence, len)

Next ==
  \E p \in Process :
    \/ Opened(p) \/ Closed(p)
    \/ \E whence \in {"SEEK_SET", "SEEK_END"}, len \in {-1, 0, 1, 2} :
       \E offset \in IF whence = "SEEK_SET" THEN 0..FileSize ELSE {-1, 0} :
         \/ qp_file_rdlock(p, offset, whence, len)
         \/ qp_file_wrlock(p, offset, whence, len)
         \/ qp_file_unlock(p, offset, whence, len)
         \/ \E type \in {QP_FILE_LK_RD, QP_FILE_LK_WR, QP_FILE_UNLK} :
              qp_file_fd_reglock(p, type, offset, whence, len)

-----------------------------------------------------------------------------
(***************************************************************************)
(* While a process has a write lock (qp_file_wrlock succeeded, and it has  *)
(* neither unlocked that part nor closed another handle on the file since) *)
(* no other process has a lock on any of those bytes that is in force, and *)
(* the test functions tell every other process that it cannot lock them.   *)
(***************************************************************************)
WriteLockExcludes ==
  \A p, q \in Process : \A b \in Byte :
    p # q /\ p \notin dropped /\ own[p][b] = QP_FILE_LK_WR =>
      /\ q \in dropped \/ own[q][b] = QP_FILE_UNLK
      /\ ~qp_file_test_rdlock(q, b, "SEEK_SET", 1)
      /\ ~qp_file_test_wrlock(q, b, "SEEK_SET", 1)
      /\ \A type \in {QP_FILE_LK_RD, QP_FILE_LK_WR} :
           qp_file_fd_locktest(q, type, b, "SEEK_SET", 1) = "QP_FILE_IS_LOCKED"
=============================================================================
