---------------------------- MODULE QpFileWrite ----------------------------
(***************************************************************************)
(* The buffered (QP_FILE_DIRECTIO) writing side of qp_file_t, qp_file.c:   *)
(* qp_file_write collects bytes in wrbuf and sends the full buffer to      *)
(* write(2), which may take less than it is given or fail.  One thread     *)
(* uses a file; an action is one iteration of a loop around a system call. *)
(*                                                                         *)
(* The caller's bytes are numbered in the order they are handed in.  The   *)
(* memcpy that moves the unwritten rest to the front is taken to behave as *)
(* memmove.  The client writes and flushes only while a file is open.      *)
(***************************************************************************)
EXTENDS Integers, Sequences

CONSTANTS
  BufSize,    \* wrbuf_size
  MaxLen,     \* bound: the longest write
  MaxBytes    \* bound: bytes handed in over the life of the structure

ASSUME FileWriteAssumption ==
  BufSize \in Nat \ {0} /\ MaxLen \in Nat /\ MaxBytes \in Nat

VARIABLES
  is_inited, is_valid,    \* the structure; its descriptor
  wrbuf, wrbuf_offset,
  disk,        \* the content of the open file
  at,          \* "ready", or the function the caller is in
  len, done,   \* locals of qp_file_write: what is left, what was asked for
  result,      \* what the last call returned
  taken,       \* history: bytes taken from the caller ...
  base,        \* ... and how many of them before the file was opened
  failed       \* history: some write(2) has failed

vars == <<is_inited, is_valid, wrbuf, wrbuf_offset, disk, at, len, done, result,
          taken, base, failed>>

\* The caller's bytes i .. j.
Bytes(i, j) == [k \in 1..(j + 1 - i) |-> i + k - 1]

Init ==
  /\ is_inited = TRUE
  /\ is_valid = FALSE
  /\ wrbuf = [i \in 1..BufSize |-> 0]
  /\ wrbuf_offset = 0
  /\ disk = <<>>
  /\ at = "ready"
  /\ len = 0 /\ done = 0 /\ result = 0
  /\ taken = 0 /\ base = 0
  /\ failed = FALSE

\* qp_file_open with O_TRUNC; the buffer is left as it is.
qp_file_open ==
  /\ at = "ready" /\ is_inited /\ ~is_valid
  /\ is_valid' = TRUE
  /\ disk' = <<>>
  /\ base' = taken
  /\ result' = 0
  /\ UNCHANGED <<is_inited, wrbuf, wrbuf_offset, at, len, done, taken, failed>>

-----------------------------------------------------------------------------
\* wrbuf with n bytes of the caller copied in behind the first k.
Filled(k, n) ==
  [i \in 1..BufSize |-> IF i \in (k + 1)..(k + n) THEN taken + i - k ELSE wrbuf[i]]

\* Mutant: the unwritten rest is not moved to the front.
Flushed_NotMoved(buf, last, r) ==
  /\ disk' = disk \o SubSeq(buf, 1, r)
  /\ wrbuf_offset' = last - r
  /\ wrbuf' = buf

\* qp_file_flush of the first last bytes of buf, of which write(2) takes r > 0.
Flushed(buf, last, r) ==
  /\ disk' = disk \o SubSeq(buf, 1, r)
  /\ wrbuf_offset' = last - r
  /\ wrbuf' = [i \in 1..BufSize |-> IF i <= last - r THEN buf[i + r] ELSE buf[i]]

qp_file_write(n) ==
  /\ at = "ready" /\ is_valid
  /\ taken + n <= MaxBytes
  /\ at' = "write"
  /\ len' = n /\ done' = n
  /\ UNCHANGED <<is_inited, is_valid, wrbuf, wrbuf_offset, disk, result, taken, base, failed>>

\* It all fits: return len, which is what is left of the caller's length.
WriteFits ==
  /\ at = "write" /\ BufSize > wrbuf_offset + len
  /\ wrbuf' = Filled(wrbuf_offset, len)
  /\ wrbuf_offset' = wrbuf_offset + len
  /\ taken' = taken + len
  /\ result' = len
  /\ at' = "ready"
  /\ UNCHANGED <<is_inited, is_valid, disk, len, done, base, failed>>

\* The buffer is filled up and flushed; the loop goes on with the rest.
WriteFills(r) ==
  LET n == BufSize - wrbuf_offset
  IN  /\ at = "write" /\ BufSize <= wrbuf_offset + len
      /\ Flushed(Filled(wrbuf_offset, n), BufSize, r)
      /\ taken' = taken + n
      /\ len' = len - n
      /\ IF len' = 0 THEN at' = "ready" /\ result' = done
                     ELSE UNCHANGED <<at, result>>
      /\ UNCHANGED <<is_inited, is_valid, done, base, failed>>

\* The same with a failing write(2): wrbuf_offset keeps the number of bytes
\* just copied.
WriteFillsFails ==
  LET n == BufSize - wrbuf_offset
  IN  /\ at = "write" /\ BufSize <= wrbuf_offset + len
      /\ failed' = TRUE
      /\ wrbuf' = Filled(wrbuf_offset, n)
      /\ wrbuf_offset' = n
      /\ taken' = taken + n
      /\ len' = len - n
      /\ result' = IF len' = 0 THEN done ELSE -1
      /\ at' = "ready"
      /\ UNCHANGED <<is_inited, is_valid, disk, done, base>>

-----------------------------------------------------------------------------
\* qp_file_flush(file, false) called by the client.
qp_file_flush ==
  /\ at = "ready" /\ is_valid
  /\ \/ /\ wrbuf_offset = 0
        /\ result' = 0
        /\ UNCHANGED <<wrbuf, wrbuf_offset, disk, failed>>
     \/ \E r \in 1..wrbuf_offset :
          /\ Flushed(wrbuf, wrbuf_offset, r)
          /\ result' = BufSize - wrbuf_offset'
          /\ UNCHANGED failed
     \/ /\ result' = -1
        /\ failed' = TRUE
        /\ UNCHANGED <<wrbuf, wrbuf_offset, disk>>
  /\ UNCHANGED <<is_inited, is_valid, at, len, done, taken, base>>

\* qp_file_close, or qp_file_destroy, which begins with it.
Close(destroy) ==
  /\ at = "ready" /\ is_valid
  /\ at' = IF destroy THEN "destroy" ELSE "close"
  /\ UNCHANGED <<is_inited, is_valid, wrbuf, wrbuf_offset, disk, len, done, result,
                 taken, base, failed>>

Closing == at \in {"close", "destroy"}

\* while (qp_file_flush(file, false) > 0), as long as there is something left.
CloseFlush(r) ==
  /\ Closing
  /\ r \in 1..wrbuf_offset
  /\ Flushed(wrbuf, wrbuf_offset, r)
  /\ UNCHANGED <<is_inited, is_valid, at, len, done, result, taken, base, failed>>

\* close(2), and the rest of qp_file_destroy if it was called from there.
CloseFd ==
  /\ is_valid' = FALSE
  /\ is_inited' = (at = "close")
  /\ result' = 0
  /\ at' = "ready"
  /\ UNCHANGED <<wrbuf, wrbuf_offset, disk, len, done, taken, base>>

\* Mutant: the loop is left after the first flush.
CloseEnds_Once ==
  /\ Closing
  /\ wrbuf_offset < BufSize
  /\ CloseFd
  /\ UNCHANGED failed

\* Mutant: while (qp_file_flush(file, false) >= 0).
CloseEnds_NotAtZero ==
  /\ Closing
  /\ wrbuf_offset = 0
  /\ UNCHANGED vars

\* A flush of nothing returns 0 and ends the loop ...
CloseEnds ==
  /\ Closing
  /\ wrbuf_offset = 0
  /\ CloseFd
  /\ UNCHANGED failed

\* ... and so does a failing one.
CloseFails ==
  /\ Closing
  /\ wrbuf_offset > 0
  /\ failed' = TRUE
  /\ CloseFd

DestroyClosed ==
  /\ at = "ready" /\ is_inited /\ ~is_valid
  /\ is_inited' = FALSE
  /\ UNCHANGED <<is_valid, wrbuf, wrbuf_offset, disk, at, len, done, result, taken, base, failed>>

-----------------------------------------------------------------------------
\* A call goes on without write(2) failing.
Progress ==
  \/ WriteFits \/ CloseEnds
  \/ \E r \in 1..BufSize : WriteFills(r) \/ CloseFlush(r)

Next ==
  \/ qp_file_open \/ qp_file_flush \/ DestroyClosed
  \/ \E n \in 1..MaxLen : qp_file_write(n)
  \/ \E destroy \in BOOLEAN : Close(destroy)
  \/ Progress \/ WriteFillsFails \/ CloseFails

Spec == Init /\ [][Next]_vars

-----------------------------------------------------------------------------
TypeOK ==
  /\ is_inited \in BOOLEAN /\ is_valid \in BOOLEAN
  /\ wrbuf \in [1..BufSize -> 0..MaxBytes]
  /\ wrbuf_offset \in 0..BufSize
  /\ at \in {"ready", "write", "close", "destroy"}
  /\ failed \in BOOLEAN
  /\ len \in 0..MaxLen /\ done \in 0..MaxLen /\ taken \in 0..MaxBytes

(***************************************************************************)
(* Whatever write(2) takes at a time, as long as it has never failed the   *)
(* file followed by what the buffer still holds is exactly what was taken  *)
(* from the caller since the open, in order; and also after failed writes, *)
(* which leave wrbuf_offset at odd values, only bytes of the caller reach  *)
(* the file, never what the buffer held before.                            *)
(***************************************************************************)
NothingLost ==
  /\ is_valid /\ ~failed =>
       disk \o SubSeq(wrbuf, 1, wrbuf_offset) = Bytes(base + 1, taken)
  /\ \A i \in DOMAIN disk : disk[i] \in 1..taken

(***************************************************************************)
(* "rest data in buf to file": when qp_file_close or qp_file_destroy has   *)
(* closed the file, it holds everything taken from the caller, unless some *)
(* write(2) failed: one failure in the loop is enough to close the file    *)
(* without the rest.                                                       *)
(***************************************************************************)
CloseStores ==
  [][is_valid /\ ~is_valid' /\ ~failed' => disk' = Bytes(base + 1, taken)]_vars

(***************************************************************************)
(* Every call returns, however write(2) cuts up what it is given: the      *)
(* loops of qp_file_write and qp_file_close come to an end.                *)
(***************************************************************************)
CallsEnd == (at # "ready") ~> (at = "ready")
=============================================================================
