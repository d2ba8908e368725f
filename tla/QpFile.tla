------------------------------- MODULE QpFile -------------------------------
(***************************************************************************)
(* A qp_file_t structure in buffered mode, composed of its writing side    *)
(* (QpFileWrite) and its reading side (QpFileRead), which share the        *)
(* descriptor and the locals of the call in progress, and its record locks *)
(* (QpFileLock).  The client opens its files all for writing, all for      *)
(* reading, or for both and then only to lock them: open_flag is O_WRONLY, *)
(* O_RDONLY or O_RDWR for the life of the structure.                       *)
(***************************************************************************)
EXTENDS QpFileWrite

CONSTANTS
  FileLen,     \* bytes in every file that is read
  MaxOpens,    \* bound: files opened for reading
  Process,     \* the processes that lock one file
  FileSize,    \* bytes in that file
  MaxHandles   \* bound: handles on it one process has open

ASSUME FileAssumption ==
  /\ FileLen \in Nat /\ MaxOpens \in Nat
  /\ FileSize \in Nat /\ MaxHandles \in Nat

VARIABLES
  open_flag,
  file, pos, rdbuf, rdbuf_offset, rdbuf_offsetlast, got, stale, seen,
  locks, handles, own, dropped

R == INSTANCE QpFileRead
L == INSTANCE QpFileLock

writeVars == <<is_inited, wrbuf, wrbuf_offset, disk, taken, base, failed>>
readVars == <<file, pos, rdbuf, rdbuf_offset, rdbuf_offsetlast, got, stale, seen>>
lockVars == <<locks, handles, own, dropped>>
fvars == <<vars, readVars, lockVars, open_flag>>

FInit ==
  /\ Init /\ R!Init /\ L!Init
  /\ open_flag \in {"O_WRONLY", "O_RDONLY", "O_RDWR"}

Writing(A) ==
  open_flag = "O_WRONLY" /\ A /\ UNCHANGED <<readVars, lockVars, open_flag>>
Reading(A) ==
  open_flag = "O_RDONLY" /\ A /\ UNCHANGED <<writeVars, lockVars, open_flag>>
Locking(A) ==
  open_flag = "O_RDWR" /\ A /\ UNCHANGED <<vars, readVars, open_flag>>

FNext == Writing(Next) \/ Reading(R!Next) \/ Locking(L!Next)

FSpec == FInit /\ [][FNext]_fvars

\* A call in progress goes on; nothing has to fail.
FFairSpec ==
  /\ FSpec
  /\ WF_fvars(Writing(Progress)) /\ WF_fvars(Reading(R!Progress))

-----------------------------------------------------------------------------
\* A read continues behind the reads before it, across refills, failures and the
\* end of the file, and never reports more than it delivered.
ReadsInOrder == R!ReadsInOrder

\* A write lock obtained with qp_file_wrlock excludes every other process.
WriteLockExcludes == L!WriteLockExcludes
=============================================================================
