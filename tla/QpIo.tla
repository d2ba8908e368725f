-------------------------------- MODULE QpIo --------------------------------
(***************************************************************************)
(* qp_fd_writen and qp_fd_readn of core/qp_io_core.c, one at each end of a *)
(* pipe or stream socket whose kernel buffer holds Capacity bytes.  The    *)
(* system calls move part of what they are asked for, are interrupted      *)
(* (EINTR), find the buffer full or empty (EAGAIN, or they block), find    *)
(* the other end closed, or fail.  An action is one iteration of a loop.   *)
(*                                                                         *)
(* Bytes are numbered in the order the writer means to send them.          *)
(***************************************************************************)
EXTENDS Integers, Sequences

CONSTANTS
  Capacity,    \* the kernel's buffer
  MaxLen,      \* bound: the longest transfer asked for
  MaxBytes,    \* bound: bytes the writer sends in all
  MayClose     \* TRUE: an end may be closed between its calls

ASSUME IoAssumption ==
  /\ Capacity \in Nat \ {0} /\ MaxLen \in Nat /\ MaxBytes \in Nat
  /\ MayClose \in BOOLEAN

VARIABLES
  pipe,             \* bytes on the way
  writer, reader,   \* locals of each end's call: at, nbytes, ndone
  sent,             \* bytes the writer's finished calls have reported
  received,         \* what the reader's calls have put in its memory
  counted,          \* bytes the reader's finished calls have reported
  failed            \* history: the ends whose last call an error has ended

vars == <<pipe, writer, reader, sent, received, counted, failed>>

Idle == [at |-> "ready", nbytes |-> 0, ndone |-> 0]

Init ==
  /\ pipe = <<>>
  /\ writer = Idle /\ reader = Idle
  /\ sent = 0 /\ received = <<>> /\ counted = 0
  /\ failed = {}

-----------------------------------------------------------------------------
(* qp_fd_writen.                                                           *)

qp_fd_writen(n) ==
  /\ writer.at = "ready"
  /\ sent + n <= MaxBytes
  /\ writer' = [at |-> "loop", nbytes |-> n, ndone |-> 0]
  /\ failed' = failed \ {"writer"}
  /\ UNCHANGED <<pipe, reader, sent, received, counted>>

WriteReturns(ndone) ==
  /\ writer' = Idle
  /\ sent' = sent + ndone

\* Mutant: vptr is not moved on.
WriteSome_SamePointer(k) ==
  LET ndone == writer.ndone + k
  IN  /\ writer.at = "loop"
      /\ reader.at # "closed"
      /\ k <= writer.nbytes - writer.ndone /\ k <= Capacity - Len(pipe)
      /\ pipe' = pipe \o [i \in 1..k |-> sent + i]
      /\ \/ ndone < writer.nbytes /\ writer' = [writer EXCEPT !.ndone = ndone] /\ UNCHANGED sent
         \/ ndone = writer.nbytes /\ WriteReturns(ndone)
      /\ UNCHANGED <<reader, received, counted, failed>>

\* write(2) takes k of the bytes that are left, as many as the buffer has room
\* for or fewer.
WriteSome(k) ==
  LET ndone == writer.ndone + k
  IN  /\ writer.at = "loop"
      /\ reader.at # "closed"
      /\ k <= writer.nbytes - writer.ndone /\ k <= Capacity - Len(pipe)
      /\ pipe' = pipe \o [i \in 1..k |-> sent + writer.ndone + i]
      /\ \/ ndone < writer.nbytes /\ writer' = [writer EXCEPT !.ndone = ndone] /\ UNCHANGED sent
         \/ ndone = writer.nbytes /\ WriteReturns(ndone)
      /\ UNCHANGED <<reader, received, counted, failed>>

\* EINTR, EAGAIN and EWOULDBLOCK are tried again: the loop stays where it is.
\* The peer is closed: return ndone.
WriteBroken ==
  /\ writer.at = "loop"
  /\ reader.at = "closed"
  /\ WriteReturns(writer.ndone)
  /\ UNCHANGED <<pipe, reader, received, counted, failed>>

\* Every other error of write(2) ends the call in the same way.
WriteFails ==
  /\ writer.at = "loop"
  /\ WriteReturns(writer.ndone)
  /\ failed' = failed \cup {"writer"}
  /\ UNCHANGED <<pipe, reader, received, counted>>

-----------------------------------------------------------------------------
(* qp_fd_readn.                                                            *)

qp_fd_readn(n) ==
  /\ reader.at = "ready"
  /\ Len(received) + n <= MaxBytes
  /\ reader' = [at |-> "loop", nbytes |-> n, ndone |-> 0]
  /\ failed' = failed \ {"reader"}
  /\ UNCHANGED <<pipe, writer, sent, received, counted>>

\* read(2) returns k bytes, and the loop goes on: its condition never changes.
ReadSome(k) ==
  /\ reader.at = "loop"
  /\ k <= reader.nbytes - reader.ndone /\ k <= Len(pipe)
  /\ pipe' = SubSeq(pipe, k + 1, Len(pipe))
  /\ received' = received \o SubSeq(pipe, 1, k)
  /\ reader' = [reader EXCEPT !.ndone = @ + k]
  /\ UNCHANGED <<writer, sent, counted, failed>>

ReadReturns ==
  /\ reader' = Idle
  /\ counted' = counted + reader.ndone
  /\ UNCHANGED <<pipe, writer, sent, received>>

EndOfStream == pipe = <<>> /\ writer.at = "closed"

\* Mutant: a read that would block is taken for the end.
ReadZero_WouldBlock ==
  /\ reader.at = "loop"
  /\ reader.ndone = reader.nbytes \/ pipe = <<>>
  /\ ReadReturns
  /\ UNCHANGED failed

\* Mutant: the loop is left at the end of the stream only.
ReadZero_EndOnly ==
  /\ reader.at = "loop"
  /\ EndOfStream
  /\ ReadReturns
  /\ UNCHANGED failed

\* read(2) returns 0: nothing more was asked for, or the stream has ended.
ReadZero ==
  /\ reader.at = "loop"
  /\ reader.ndone = reader.nbytes \/ EndOfStream
  /\ ReadReturns
  /\ UNCHANGED failed

\* read(2) fails, also when it is asked for no more.
ReadFails ==
  /\ reader.at = "loop"
  /\ ReadReturns
  /\ failed' = failed \cup {"reader"}

-----------------------------------------------------------------------------
\* qp_fd_close of one end.
CloseWriter ==
  /\ MayClose /\ writer.at = "ready"
  /\ writer' = [writer EXCEPT !.at = "closed"]
  /\ UNCHANGED <<pipe, reader, sent, received, counted, failed>>

CloseReader ==
  /\ MayClose /\ reader.at = "ready"
  /\ reader' = [reader EXCEPT !.at = "closed"]
  /\ UNCHANGED <<pipe, writer, sent, received, counted, failed>>

Writing == WriteBroken \/ \E k \in 1..Capacity : WriteSome(k)
Reading == ReadZero \/ \E k \in 1..Capacity : ReadSome(k)

Next ==
  \/ \E n \in 1..MaxLen : qp_fd_writen(n) \/ qp_fd_readn(n)
  \/ Writing \/ Reading \/ WriteFails \/ ReadFails
  \/ CloseWriter \/ CloseReader

Spec == Init /\ [][Next]_vars

\* A call that can move a byte or see a closed peer does so in the end; nobody
\* has to begin a call or to close, and nothing has to fail.
FairSpec == Spec /\ WF_vars(Writing) /\ WF_vars(Reading)

-----------------------------------------------------------------------------
TypeOK ==
  /\ pipe \in Seq(1..MaxBytes) /\ Len(pipe) <= Capacity
  /\ received \in Seq(1..MaxBytes)
  /\ \A e \in {writer, reader} :
       /\ e.at \in {"ready", "loop", "closed"}
       /\ e.nbytes \in 0..MaxLen /\ e.ndone \in 0..e.nbytes
  /\ sent \in 0..MaxBytes /\ counted \in 0..MaxBytes
  /\ failed \subseteq {"writer", "reader"}

(***************************************************************************)
(* What has arrived and what is on the way are together exactly what the   *)
(* writer has sent, in order, however the transfers are cut up; and the    *)
(* two counts reported to the callers are those of that stream.            *)
(***************************************************************************)
StreamExact ==
  /\ received \o pipe = [i \in 1..(sent + writer.ndone) |-> i]
  /\ Len(received) = counted + reader.ndone

(***************************************************************************)
(* "error or peer connection closed (EOF)": a qp_fd_readn that no error    *)
(* ended comes back with less than it was asked for only when the writer   *)
(* has closed and everything its calls have reported, the ones that failed *)
(* included, has been read; such a qp_fd_writen only when the reader has   *)
(* closed.                                                                 *)
(***************************************************************************)
ShortOnlyAtEnd ==
  [][/\ (/\ reader.at = "loop" /\ reader'.at = "ready" /\ "reader" \notin failed'
         /\ counted' - counted < reader.nbytes)
          => writer.at = "closed" /\ Len(received') = sent
     /\ (/\ writer.at = "loop" /\ writer'.at = "ready" /\ "writer" \notin failed'
         /\ sent' - sent < writer.nbytes)
          => reader.at = "closed"]_vars

(***************************************************************************)
(* qp_fd_readn returns if enough has been written or the writer has        *)
(* closed, although its loop condition never becomes false; qp_fd_writen   *)
(* returns if the kernel's buffer does not stay full of what an open       *)
(* reader leaves there: also when it is full and the reader closes.        *)
(***************************************************************************)
CallsReturn ==
  /\ (/\ reader.at = "loop"
      /\ Len(pipe) >= reader.nbytes - reader.ndone \/ writer.at = "closed")
        ~> (reader.at # "loop")
  /\ []<>(Len(pipe) < Capacity \/ reader.at = "closed")
        => ((writer.at = "loop") ~> (writer.at # "loop"))
=============================================================================
