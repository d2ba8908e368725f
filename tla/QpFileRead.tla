----------------------------- MODULE QpFileRead -----------------------------
(***************************************************************************)
(* The buffered (QP_FILE_DIRECTIO) reading side of qp_file_t, qp_file.c:   *)
(* qp_file_read serves the caller from rdbuf and refills it with           *)
(* qp_file_track, that is read(2), which may return less than it is asked  *)
(* for.  One thread uses a file; an action is one iteration of the loop.   *)
(*                                                                         *)
(* Byte i of the file opened as number f is the pair <<f, i>>.             *)
(***************************************************************************)
EXTENDS Integers, Sequences

CONSTANTS
  BufSize,       \* rdbuf_size
  FileLen,       \* bytes in every file
  MaxLen,        \* bound: the longest read
  MaxOpens       \* bound: files opened, one after the other

VARIABLES
  is_valid,     \* the descriptor is open
  file,         \* the number of the last file opened
  pos,          \* the kernel's offset in it
  rdbuf, rdbuf_offset, rdbuf_offsetlast,
  at,           \* "ready" or "read"
  len, done,    \* locals of qp_file_read: what is left, what was asked for
  got,          \* what the call has put in the caller's memory
  result,       \* what the last call returned
  stale,        \* history: what the buffer held when the file was opened
  seen          \* history: bytes since then that were put in the memory of a
                \* caller, those of calls that failed after a refill included

vars == <<is_valid, file, pos, rdbuf, rdbuf_offset, rdbuf_offsetlast, at, len,
          done, got, result, stale, seen>>

\* What the caller of an open file is to get, byte by byte: the buffer's rest of
\* the files before, and then the file.
Stream == [i \in Nat |-> IF i <= Len(stale) THEN stale[i] ELSE <<file, i - Len(stale)>>]

Smaller(a, b) == IF a < b THEN a ELSE b

Init ==
  /\ is_valid = FALSE
  /\ file = 0 /\ pos = 0
  /\ rdbuf = [i \in 1..BufSize |-> <<0, 0>>]
  /\ rdbuf_offset = 0 /\ rdbuf_offsetlast = 0
  /\ at = "ready"
  /\ len = 0 /\ done = 0 /\ got = <<>> /\ result = 0
  /\ stale = <<>> /\ seen = 0

Rest == rdbuf_offset - rdbuf_offsetlast

\* n bytes of the buffer, from where the last call stopped.
Served(n) == SubSeq(rdbuf, rdbuf_offsetlast + 1, rdbuf_offsetlast + n)

\* qp_file_open: the buffer and its offsets are left as they are, the rest of
\* the previous file included.
qp_file_open ==
  /\ at = "ready" /\ ~is_valid
  /\ file < MaxOpens
  /\ is_valid' = TRUE
  /\ file' = file + 1
  /\ pos' = 0
  /\ got' = <<>>
  /\ result' = 0
  /\ stale' = Served(Rest)
  /\ seen' = 0
  /\ UNCHANGED <<rdbuf, rdbuf_offset, rdbuf_offsetlast, at, len, done>>

\* qp_file_close of a file with nothing to write.
qp_file_close ==
  /\ at = "ready" /\ is_valid
  /\ is_valid' = FALSE
  /\ result' = 0
  /\ UNCHANGED <<file, pos, rdbuf, rdbuf_offset, rdbuf_offsetlast, at, len, done,
                 got, stale, seen>>

-----------------------------------------------------------------------------
qp_file_read(n) ==
  /\ at = "ready" /\ is_valid
  /\ at' = "read"
  /\ len' = n /\ done' = n
  /\ got' = <<>>
  /\ UNCHANGED <<is_valid, file, pos, rdbuf, rdbuf_offset, rdbuf_offsetlast, result, stale, seen>>

\* Mutant: the buffer's offset is not moved on.
ReadServes_Again ==
  /\ at = "read" /\ len <= Rest
  /\ got' = got \o Served(len)
  /\ seen' = seen + done
  /\ result' = len
  /\ at' = "ready"
  /\ UNCHANGED <<is_valid, file, pos, rdbuf, rdbuf_offset, rdbuf_offsetlast, len, done, stale>>

\* The buffer has enough: return len, what was left to read.
ReadServes ==
  /\ at = "read" /\ len <= Rest
  /\ got' = got \o Served(len)
  /\ rdbuf_offsetlast' = rdbuf_offsetlast + len
  /\ seen' = seen + done
  /\ result' = len
  /\ at' = "ready"
  /\ UNCHANGED <<is_valid, file, pos, rdbuf, rdbuf_offset, len, done, stale>>

\* qp_file_track with read(2) returning r bytes.
Track(r) ==
  /\ rdbuf' = [i \in 1..BufSize |-> IF i <= r THEN <<file, pos + i>> ELSE rdbuf[i]]
  /\ rdbuf_offset' = r
  /\ rdbuf_offsetlast' = 0
  /\ pos' = pos + r

\* The buffer's rest is served and the buffer filled again.
ReadRefills(r) ==
  /\ at = "read" /\ len > Rest
  /\ r <= Smaller(BufSize, FileLen - pos)
  /\ got' = got \o Served(Rest)
  /\ len' = len - Rest
  /\ Track(r)
  /\ UNCHANGED <<is_valid, file, at, done, result, stale, seen>>

\* The refill returns ret < 1 and so does the call; the buffer's rest is copied
\* and not taken off, what was copied before an earlier refill is not in the
\* buffer any more.
ReadStops(ret) ==
  /\ at = "read" /\ len > Rest
  /\ got' = got \o Served(Rest)
  /\ len' = len - Rest
  /\ result' = ret
  /\ at' = "ready"
  /\ seen' = seen + Len(got)
  /\ UNCHANGED <<is_valid, file, pos, rdbuf, rdbuf_offset, rdbuf_offsetlast, done, stale>>

\* read(2) is at the end of the file ...
ReadEnds == pos = FileLen /\ ReadStops(0)

\* ... or fails.
ReadFails == ReadStops(-1)

-----------------------------------------------------------------------------
\* A call goes on without read(2) failing.
Progress ==
  \/ ReadServes \/ ReadEnds
  \/ \E r \in 1..BufSize : ReadRefills(r)

Next ==
  \/ qp_file_open \/ qp_file_close
  \/ \E n \in 1..MaxLen : qp_file_read(n)
  \/ Progress \/ ReadFails

Spec == Init /\ [][Next]_vars

-----------------------------------------------------------------------------
TypeOK ==
  /\ is_valid \in BOOLEAN /\ at \in {"ready", "read"}
  /\ file \in 0..MaxOpens /\ pos \in 0..FileLen
  /\ rdbuf \in [1..BufSize -> (0..MaxOpens) \X (0..FileLen)]
  /\ rdbuf_offset \in 0..BufSize /\ rdbuf_offsetlast \in 0..rdbuf_offset
  /\ len \in 0..MaxLen /\ done \in 0..MaxLen
  /\ stale \in Seq((0..MaxOpens) \X (0..FileLen)) /\ seen \in 0..(BufSize + FileLen)

(***************************************************************************)
(* Every read, also one that fails or meets the end, has put in the        *)
(* caller's memory the bytes that follow those of the calls before, each   *)
(* once and in order, across refills: first what the buffer still held     *)
(* when the file was opened, then the file.  A read that succeeds has put  *)
(* there all that was asked for, and none reports more than it has put     *)
(* there.  (It may report less: the code returns what it took after the    *)
(* last refill, and a call that stops after a refill reports nothing and   *)
(* the next continues behind what it had copied before the refill.)        *)
(***************************************************************************)
ReadsInOrder ==
  [][at = "read" /\ at' = "ready"
        => /\ \A i \in 1..Len(got') : got'[i] = Stream[seen + i]
           /\ result' > 0 => Len(got') = done
           /\ result' <= Len(got')]_vars
=============================================================================
