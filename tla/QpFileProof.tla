----------------------------- MODULE QpFileProof -----------------------------
(***************************************************************************)
(* Proofs about qp_file_t, for every buffer size, every file length and    *)
(* every number of processes: the record locks, the buffered writes and    *)
(* the buffered reads.  Each side has its inductive invariant; steps of    *)
(* the other sides leave it alone.                                         *)
(***************************************************************************)
EXTENDS QpFile, TLAPS

(***************************************************************************)
(* What appending a slice of a buffer to a sequence gives, element by      *)
(* element.                                                                *)
(***************************************************************************)
LEMMA AppendSlice ==
  ASSUME NEW S, NEW s \in Seq(S), NEW size \in Nat, NEW b \in [1..size -> S],
         NEW m \in Nat, NEW n \in Nat, m + n <= size
  PROVE  LET d == s \o SubSeq(b, m + 1, m + n)
         IN  /\ d \in Seq(S) /\ Len(d) = Len(s) + n
             /\ \A i \in 1..Len(s) : d[i] = s[i]
             /\ \A i \in 1..n : d[Len(s) + i] = b[m + i]
<1> DEFINE q == SubSeq(b, m + 1, m + n)
<1>1. b \in Seq(S) /\ Len(b) = size
  OBVIOUS
<1>2. q \in Seq(S) /\ Len(q) = n /\ \A i \in 1..n : q[i] = b[m + i]
  BY <1>1
<1> HIDE DEF q
<1>3. s \o q \in Seq(S) /\ Len(s \o q) = Len(s) + n
  BY <1>2
<1>4. \A i \in 1..Len(s) : (s \o q)[i] = s[i]
  BY <1>2
<1>5. \A i \in 1..n : (s \o q)[Len(s) + i] = q[i]
  BY <1>2
<1> QED
  BY <1>2, <1>3, <1>4, <1>5 DEF q

-----------------------------------------------------------------------------
(* The record locks *)

LockType == {L!QP_FILE_LK_RD, L!QP_FILE_LK_WR, L!QP_FILE_UNLK}

(***************************************************************************)
(* The kernel's table has no conflict, and it is what the process believes *)
(* unless that closed a second handle.                                     *)
(***************************************************************************)
LockInv ==
  /\ locks \in [Process -> [L!Byte -> LockType]]
  /\ own \in [Process -> [L!Byte -> LockType]]
  /\ \A p, q \in Process : \A b \in L!Byte :
       p # q => ~L!Conflict(locks[p][b], locks[q][b])
  /\ \A p \in Process : p \notin dropped => own[p] = locks[p]

(***************************************************************************)
(* Nothing is locked in the beginning.                                     *)
(***************************************************************************)
LEMMA LockInitInv == L!Init => LockInv
  BY DEF L!Init, L!Unlocked, LockInv, LockType, L!Conflict, L!QP_FILE_LK_RD, L!QP_FILE_LK_WR,
     L!QP_FILE_UNLK

(***************************************************************************)
(* A lock that the kernel grants conflicts with no other process's.        *)
(***************************************************************************)
LEMMA RegLockInv ==
  ASSUME LockInv, NEW p \in Process, NEW type \in LockType,
         NEW offset, NEW whence, NEW n, L!qp_file_reglock(p, type, offset, whence, n)
  PROVE  LockInv'
<1> DEFINE part == L!Part(offset, whence, n)
           Set(f) == [b \in L!Byte |-> IF b \in part THEN type ELSE f[b]]
<1>1. /\ L!Grantable(p, type, part)
      /\ locks' = [locks EXCEPT ![p] = Set(locks[p])]
      /\ own' = [own EXCEPT ![p] = Set(own[p])]
      /\ UNCHANGED dropped
  BY DEF L!qp_file_reglock, LockInv
<1> HIDE DEF part
<1>2. locks' \in [Process -> [L!Byte -> LockType]] /\ own' \in [Process -> [L!Byte -> LockType]]
  BY <1>1 DEF LockInv
<1>3. \A q \in Process \ {p} : locks'[q] = locks[q] /\ own'[q] = own[q]
  BY <1>1 DEF LockInv
<1>4. locks'[p] = Set(locks[p]) /\ own'[p] = Set(own[p])
  BY <1>1 DEF LockInv
<1>5. ASSUME NEW q \in Process, q # p, NEW b \in L!Byte
      PROVE  ~L!Conflict(locks'[p][b], locks'[q][b]) /\ ~L!Conflict(locks'[q][b], locks'[p][b])
  BY <1>1, <1>3, <1>4, <1>5 DEF LockInv, L!Grantable, L!Conflict
<1>6. \A q, u \in Process : \A b \in L!Byte : q # u => ~L!Conflict(locks'[q][b], locks'[u][b])
  BY <1>3, <1>5 DEF LockInv
<1>7. \A q \in Process : q \notin dropped' => own'[q] = locks'[q]
  BY <1>1, <1>3, <1>4 DEF LockInv
<1> QED
  BY <1>2, <1>6, <1>7 DEF LockInv

(***************************************************************************)
(* Every call keeps the invariant of the locks.                            *)
(***************************************************************************)
LEMMA LockStepInv ==
  ASSUME LockInv, L!Next
  PROVE  LockInv'
<1>1. ASSUME NEW p \in Process, L!Opened(p)
      PROVE  LockInv'
  BY <1>1 DEF L!Opened, LockInv
<1>2. ASSUME NEW p \in Process, L!Closed(p)
      PROVE  LockInv'
  BY <1>2 DEF L!Closed, L!Unlocked, LockInv, LockType, L!Conflict
<1>3. ASSUME NEW p \in Process, NEW offset, NEW whence, NEW n,
             \/ L!qp_file_rdlock(p, offset, whence, n)
             \/ L!qp_file_wrlock(p, offset, whence, n)
             \/ L!qp_file_unlock(p, offset, whence, n)
             \/ \E type \in LockType : L!qp_file_fd_reglock(p, type, offset, whence, n)
      PROVE  LockInv'
  BY <1>3, RegLockInv DEF L!qp_file_rdlock, L!qp_file_wrlock, L!qp_file_unlock,
     L!qp_file_fd_reglock, LockType
<1> QED
  BY <1>1, <1>2, <1>3 DEF L!Next, LockType

(***************************************************************************)
(* The invariant of the locks holds in every reachable state.              *)
(***************************************************************************)
THEOREM LocksInvariant == FSpec => []LockInv
<1>1. FInit => LockInv
  BY LockInitInv DEF FInit
<1>2. ASSUME LockInv, [FNext]_fvars
      PROVE  LockInv'
  <2>1. CASE UNCHANGED lockVars
    BY <1>2, <2>1 DEF lockVars, LockInv
  <2> QED
    BY <1>2, <2>1, LockStepInv DEF FNext, Writing, Reading, Locking, fvars
<1> QED
  BY <1>1, <1>2, PTL DEF FSpec

(***************************************************************************)
(* A write lock excludes every other process, and the tests say so.        *)
(***************************************************************************)
THEOREM FileWriteLockExcludes == FSpec => []WriteLockExcludes
<1>1. ASSUME LockInv, NEW p \in Process, NEW q \in Process, NEW b \in L!Byte,
             p # q, p \notin dropped, own[p][b] = L!QP_FILE_LK_WR
      PROVE  /\ q \in dropped \/ own[q][b] = L!QP_FILE_UNLK
             /\ \A type \in {L!QP_FILE_LK_RD, L!QP_FILE_LK_WR} :
                  ~L!Grantable(q, type, L!Part(b, "SEEK_SET", 1))
  <2>1. locks[p][b] = L!QP_FILE_LK_WR
    BY <1>1 DEF LockInv
  <2>2. locks[q][b] = L!QP_FILE_UNLK
    BY <1>1, <2>1 DEF LockInv, LockType, L!Conflict, L!QP_FILE_LK_RD, L!QP_FILE_LK_WR, L!QP_FILE_UNLK
  <2>3. b \in L!Part(b, "SEEK_SET", 1)
    BY <1>1, FileAssumption DEF L!Part, L!Byte
  <2>4. \A type \in {L!QP_FILE_LK_RD, L!QP_FILE_LK_WR} : L!Conflict(type, locks[p][b])
    BY <2>1 DEF L!Conflict, L!QP_FILE_LK_RD, L!QP_FILE_LK_WR, L!QP_FILE_UNLK
  <2> QED
    BY <1>1, <2>2, <2>3, <2>4 DEF LockInv, L!Grantable
<1>2. ASSUME LockInv
      PROVE  WriteLockExcludes
  BY <1>1, <1>2 DEF WriteLockExcludes, L!WriteLockExcludes, L!qp_file_test_rdlock,
     L!qp_file_test_wrlock, L!qp_file_fd_locktest, L!qp_file_locktest
<1> QED
  BY <1>2, LocksInvariant, PTL

-----------------------------------------------------------------------------
(* The buffered writes *)

(***************************************************************************)
(* The first last bytes of buf are those that follow the file's when t     *)
(* bytes have been taken, as long as no write(2) has failed; and always    *)
(* both hold bytes of the caller only.                                     *)
(***************************************************************************)
Exact(buf, last, t) ==
  /\ ~failed => /\ base + Len(disk) + last = t
                /\ \A i \in 1..Len(disk) : disk[i] = base + i
                /\ \A i \in 1..last : buf[i] = base + Len(disk) + i
  /\ \A i \in 1..Len(disk) : disk[i] \in 1..t
  /\ \A i \in 1..last : buf[i] \in 1..t

WriteTypes ==
  /\ wrbuf \in [1..BufSize -> Nat] /\ wrbuf_offset \in 0..BufSize
  /\ disk \in Seq(Nat) /\ taken \in Nat /\ base \in Nat
  /\ open_flag = "O_WRONLY" => len \in Nat

(***************************************************************************)
(* A file that is closed has left nothing in the buffer unless a write     *)
(* failed, a call in progress has its file open, and a structure that is   *)
(* not for writing has nothing to write.                                   *)
(***************************************************************************)
WriteInv ==
  /\ WriteTypes
  /\ Exact(wrbuf, wrbuf_offset, taken)
  /\ ~is_valid /\ ~failed /\ open_flag = "O_WRONLY" => wrbuf_offset = 0
  /\ open_flag = "O_WRONLY" /\ at # "ready" => is_valid
  /\ open_flag # "O_WRONLY" => disk = <<>> /\ wrbuf_offset = 0 /\ taken = 0 /\ base = 0
  /\ open_flag # "O_RDONLY" => at \in {"ready", "write", "close", "destroy"}

(***************************************************************************)
(* Filling the buffer behind what it holds keeps it exact.                 *)
(***************************************************************************)
LEMMA FilledExact ==
  ASSUME WriteTypes, Exact(wrbuf, wrbuf_offset, taken),
         NEW n \in Nat, wrbuf_offset + n <= BufSize
  PROVE  LET buf == Filled(wrbuf_offset, n)
         IN  /\ buf \in [1..BufSize -> Nat]
             /\ \A i \in 1..(wrbuf_offset + n) : buf[i] \in 1..(taken + n)
             /\ Exact(buf, wrbuf_offset + n, taken + n)
<1> DEFINE buf == Filled(wrbuf_offset, n)
<1> USE FileWriteAssumption
<1>1. /\ buf \in [1..BufSize -> Nat]
      /\ \A i \in 1..wrbuf_offset : buf[i] = wrbuf[i]
      /\ \A i \in (wrbuf_offset + 1)..(wrbuf_offset + n) : buf[i] = taken + i - wrbuf_offset
  <2>1. wrbuf \in [1..BufSize -> Nat] /\ wrbuf_offset \in Nat /\ taken \in Nat /\ BufSize \in Nat
    BY DEF WriteTypes
  <2>2. ASSUME NEW i \in 1..BufSize
        PROVE  (IF i \in (wrbuf_offset + 1)..(wrbuf_offset + n) THEN taken + i - wrbuf_offset
                ELSE wrbuf[i]) \in Nat
    BY <2>1, <2>2
  <2>3. buf \in [1..BufSize -> Nat]
    BY <2>2 DEF Filled
  <2>4. \A i \in 1..wrbuf_offset : i \in 1..BufSize /\ i \notin (wrbuf_offset + 1)..(wrbuf_offset + n)
    BY <2>1
  <2>5. \A i \in (wrbuf_offset + 1)..(wrbuf_offset + n) : i \in 1..BufSize
    BY <2>1
  <2> QED
    BY <2>3, <2>4, <2>5 DEF Filled
<1> HIDE DEF buf
<1>2. \A i \in 1..(wrbuf_offset + n) : buf[i] \in 1..(taken + n)
  <2> TAKE i \in 1..(wrbuf_offset + n)
  <2>1. CASE i \in 1..wrbuf_offset
    BY <1>1, <2>1 DEF Exact, WriteTypes
  <2>2. CASE i \in (wrbuf_offset + 1)..(wrbuf_offset + n)
    BY <1>1, <2>2 DEF WriteTypes
  <2> QED
    BY <2>1, <2>2 DEF WriteTypes
<1>3. ASSUME ~failed
      PROVE  /\ base + Len(disk) + (wrbuf_offset + n) = taken + n
             /\ \A i \in 1..Len(disk) : disk[i] = base + i
             /\ \A i \in 1..(wrbuf_offset + n) : buf[i] = base + Len(disk) + i
  <2>1. base + Len(disk) + wrbuf_offset = taken /\ Len(disk) \in Nat
    BY <1>3 DEF Exact, WriteTypes
  <2>2. \A i \in 1..(wrbuf_offset + n) : buf[i] = base + Len(disk) + i
    <3> TAKE i \in 1..(wrbuf_offset + n)
    <3>1. CASE i \in 1..wrbuf_offset
      BY <1>1, <1>3, <3>1 DEF Exact, WriteTypes
    <3>2. CASE i \in (wrbuf_offset + 1)..(wrbuf_offset + n)
      <4>1. buf[i] = taken + i - wrbuf_offset /\ base \in Nat /\ wrbuf_offset \in Nat
        BY <1>1, <3>2 DEF WriteTypes
      <4> QED
        BY <2>1, <4>1
    <3> QED
      BY <3>1, <3>2 DEF WriteTypes
  <2> QED
    <3>1. base + Len(disk) + (wrbuf_offset + n) = taken + n
      <4>1. base \in Nat /\ wrbuf_offset \in Nat
        BY DEF WriteTypes
      <4> QED
        BY <2>1, <4>1
    <3>2. \A i \in 1..Len(disk) : disk[i] = base + i
      BY <1>3 DEF Exact
    <3> QED
      BY <2>2, <3>1, <3>2
<1>4. \A i \in 1..Len(disk) : disk[i] \in 1..(taken + n)
  BY DEF Exact, WriteTypes
<1> QED
  BY <1>1, <1>2, <1>3, <1>4 DEF Exact, buf

(***************************************************************************)
(* Writing the first r of the bytes in the buffer and moving the rest to   *)
(* the front keeps file and buffer exact.                                  *)
(***************************************************************************)
LEMMA FlushedExact ==
  ASSUME WriteTypes, NEW buf \in [1..BufSize -> Nat], NEW last \in 0..BufSize,
         NEW t \in Nat, Exact(buf, last, t), NEW r \in 1..last, Flushed(buf, last, r),
         base' = base, failed' = failed, taken' = t
  PROVE  /\ wrbuf' \in [1..BufSize -> Nat] /\ wrbuf_offset' \in 0..BufSize
         /\ disk' \in Seq(Nat)
         /\ Exact(wrbuf, wrbuf_offset, taken)'
<1> USE FileWriteAssumption
<1>1. /\ disk' \in Seq(Nat) /\ Len(disk') = Len(disk) + r
      /\ \A i \in 1..Len(disk) : disk'[i] = disk[i]
      /\ \A i \in 1..r : disk'[Len(disk) + i] = buf[i]
  <2>1. disk' = disk \o SubSeq(buf, 0 + 1, 0 + r)
    BY DEF Flushed
  <2>2. r \in Nat /\ 0 + r <= BufSize /\ BufSize \in Nat /\ disk \in Seq(Nat)
    BY DEF WriteTypes
  <2>3. \A i \in 1..r : 0 + i = i
    OBVIOUS
  <2> QED
    BY <2>1, <2>2, <2>3, AppendSlice
<1>2. /\ wrbuf' \in [1..BufSize -> Nat] /\ wrbuf_offset' = last - r
      /\ \A i \in 1..(last - r) : wrbuf'[i] = buf[i + r]
  BY DEF Flushed
<1>3. Len(disk) \in Nat
  BY DEF WriteTypes
<1>4. \A i \in 1..Len(disk') : disk'[i] \in 1..t
  <2> TAKE i \in 1..Len(disk')
  <2>1. CASE i \in 1..Len(disk)
    BY <1>1, <2>1 DEF Exact
  <2>2. CASE i \in (Len(disk) + 1)..(Len(disk) + r)
    <3> DEFINE j == i - Len(disk)
    <3>1. j \in 1..r /\ j \in 1..last /\ i = Len(disk) + j
      BY <1>3, <2>2
    <3> HIDE DEF j
    <3>2. disk'[i] = buf[j]
      BY <1>1, <3>1
    <3> QED
      BY <3>1, <3>2 DEF Exact
  <2> QED
    BY <1>1, <1>3, <2>1, <2>2
<1>5. \A i \in 1..wrbuf_offset' : wrbuf'[i] \in 1..t
  <2> TAKE i \in 1..wrbuf_offset'
  <2>1. i + r \in 1..last
    BY <1>2
  <2> QED
    BY <1>2, <2>1 DEF Exact
<1>6. ASSUME ~failed
      PROVE  /\ base + Len(disk') + wrbuf_offset' = t
             /\ \A i \in 1..Len(disk') : disk'[i] = base + i
             /\ \A i \in 1..wrbuf_offset' : wrbuf'[i] = base + Len(disk') + i
  <2>1. base + Len(disk) + last = t /\ base \in Nat
    BY <1>6 DEF Exact, WriteTypes
  <2>2. \A i \in 1..Len(disk') : disk'[i] = base + i
    <3> TAKE i \in 1..Len(disk')
    <3>1. CASE i \in 1..Len(disk)
      BY <1>1, <1>6, <3>1 DEF Exact
    <3>2. CASE i \in (Len(disk) + 1)..(Len(disk) + r)
      <4> DEFINE j == i - Len(disk)
      <4>1. j \in 1..r /\ j \in 1..last /\ i = Len(disk) + j
        BY <1>3, <3>2
      <4> HIDE DEF j
      <4>2. disk'[i] = buf[j]
        BY <1>1, <4>1
      <4>3. buf[j] = base + Len(disk) + j
        BY <1>6, <4>1 DEF Exact
      <4>4. \A a, b, c \in Nat : a + b + c = a + (b + c)
        OBVIOUS
      <4>5. base + Len(disk) + j = base + (Len(disk) + j)
        BY <1>3, <2>1, <4>1, <4>4
      <4> QED
        BY <4>1, <4>2, <4>3, <4>5
    <3> QED
      BY <1>1, <1>3, <3>1, <3>2
  <2>3. \A i \in 1..wrbuf_offset' : wrbuf'[i] = base + Len(disk') + i
    <3> TAKE i \in 1..wrbuf_offset'
    <3>1. i + r \in 1..last
      BY <1>2
    <3>2. wrbuf'[i] = base + Len(disk) + (i + r)
      BY <1>2, <1>6, <3>1 DEF Exact
    <3> QED
      BY <1>1, <1>2, <1>3, <2>1, <3>2
  <2>4. base + Len(disk') + wrbuf_offset' = t
    <3>1. Len(disk') = Len(disk) + r /\ wrbuf_offset' = last - r
      BY <1>1, <1>2
    <3>2. last \in Int /\ r \in Int /\ base + Len(disk) + last = t
      BY <2>1
    <3>3. base + (Len(disk) + r) + (last - r) = base + Len(disk) + last
      BY <1>3, <2>1, <3>2
    <3> QED
      BY <3>1, <3>2, <3>3
  <2> QED
    BY <2>2, <2>3, <2>4
<1>7. Exact(wrbuf, wrbuf_offset, taken)'
  BY <1>4, <1>5, <1>6, Zenon DEF Exact
<1>8. wrbuf_offset' \in 0..BufSize
  BY <1>2
<1> QED
  BY <1>1, <1>2, <1>7, <1>8

(***************************************************************************)
(* Every step of a file that is open for writing keeps the invariant.      *)
(***************************************************************************)
LEMMA WriteStepInv ==
  ASSUME WriteInv, Writing(Next)
  PROVE  WriteInv'
<1> USE FileWriteAssumption
<1>1. /\ open_flag = "O_WRONLY" /\ open_flag' = open_flag
      /\ WriteTypes /\ len \in Nat
      /\ Exact(wrbuf, wrbuf_offset, taken)
      /\ ~is_valid /\ ~failed => wrbuf_offset = 0
      /\ at # "ready" => is_valid
      /\ at \in {"ready", "write", "close", "destroy"}
  BY DEF WriteInv, WriteTypes, Writing
\* What remains to be shown of a step.
<1> DEFINE Kept ==
      /\ wrbuf' \in [1..BufSize -> Nat] /\ wrbuf_offset' \in 0..BufSize
      /\ disk' \in Seq(Nat) /\ taken' \in Nat /\ base' \in Nat /\ len' \in Nat
      /\ Exact(wrbuf, wrbuf_offset, taken)'
      /\ ~is_valid' /\ ~failed' => wrbuf_offset' = 0
      /\ at' # "ready" => is_valid'
      /\ at' \in {"ready", "write", "close", "destroy"}
<1>2. SUFFICES Kept
  BY <1>1 DEF WriteInv, WriteTypes
<1>3. ASSUME UNCHANGED <<wrbuf, wrbuf_offset, disk, taken, base>>, failed' \in {failed, TRUE}
      PROVE  /\ wrbuf' \in [1..BufSize -> Nat] /\ wrbuf_offset' \in 0..BufSize
             /\ disk' \in Seq(Nat) /\ taken' \in Nat /\ base' \in Nat
             /\ Exact(wrbuf, wrbuf_offset, taken)'
  BY <1>1, <1>3 DEF WriteTypes, Exact
<1>4. CASE qp_file_open
  <2>1. Exact(wrbuf, wrbuf_offset, taken)'
    BY <1>1, <1>4 DEF Exact, WriteTypes, qp_file_open
  <2> QED
    BY <1>1, <1>4, <2>1 DEF qp_file_open, WriteTypes
<1>5. CASE \E n \in 1..MaxLen : qp_file_write(n)
  <2>1. UNCHANGED <<wrbuf, wrbuf_offset, disk, taken, base, failed>> /\ len' \in Nat
    BY <1>5 DEF qp_file_write
  <2> QED
    BY <1>1, <1>3, <1>5, <2>1 DEF qp_file_write
<1>6. CASE WriteFits
  <2>1. wrbuf_offset + len <= BufSize /\ wrbuf_offset + len \in 0..BufSize /\ taken + len \in Nat
    BY <1>1, <1>6 DEF WriteFits, WriteTypes
  <2>2. /\ wrbuf' \in [1..BufSize -> Nat]
        /\ Exact(wrbuf', wrbuf_offset', taken')
    BY <1>1, <1>6, <2>1, FilledExact DEF WriteFits
  <2>3. Exact(wrbuf, wrbuf_offset, taken)'
    BY <1>6, <2>2 DEF Exact, WriteFits
  <2> QED
    BY <1>1, <1>6, <2>1, <2>2, <2>3 DEF WriteFits, WriteTypes
<1>7. ASSUME NEW r \in 1..BufSize, WriteFills(r)
      PROVE  Kept
  <2> DEFINE n == BufSize - wrbuf_offset
             buf == Filled(wrbuf_offset, n)
  <2>1. n \in Nat /\ wrbuf_offset + n = BufSize /\ taken + n \in Nat /\ len - n \in Nat
    BY <1>1, <1>7 DEF WriteFills, WriteTypes
  <2>2. buf \in [1..BufSize -> Nat] /\ Exact(buf, BufSize, taken + n)
    BY <1>1, <2>1, FilledExact
  <2>3. /\ Flushed(buf, BufSize, r) /\ taken' = taken + n /\ len' = len - n
        /\ UNCHANGED <<is_valid, base, failed>> /\ at' \in {at, "ready"} /\ at = "write"
    BY <1>7 DEF WriteFills
  <2> HIDE DEF n, buf
  <2>4. BufSize \in 0..BufSize
    OBVIOUS
  <2>5. /\ wrbuf' \in [1..BufSize -> Nat] /\ wrbuf_offset' \in 0..BufSize
        /\ disk' \in Seq(Nat)
        /\ Exact(wrbuf, wrbuf_offset, taken)'
    BY <1>1, <2>1, <2>2, <2>3, <2>4, FlushedExact
  <2> QED
    BY <1>1, <2>1, <2>3, <2>5 DEF WriteTypes
<1>8. CASE WriteFillsFails
  <2> DEFINE n == BufSize - wrbuf_offset
             buf == Filled(wrbuf_offset, n)
  <2>1. n \in 0..BufSize /\ wrbuf_offset + n = BufSize /\ taken + n \in Nat /\ len - n \in Nat
    BY <1>1, <1>8 DEF WriteFillsFails, WriteTypes
  <2>2. /\ buf \in [1..BufSize -> Nat] /\ \A i \in 1..BufSize : buf[i] \in 1..(taken + n)
        /\ \A i \in 1..Len(disk) : disk[i] \in 1..(taken + n)
    <3>1. n \in Nat
      BY <2>1
    <3> QED
      BY <1>1, <2>1, <3>1, FilledExact DEF Exact
  <2>3. /\ wrbuf' = buf /\ wrbuf_offset' = n /\ taken' = taken + n /\ len' = len - n
        /\ UNCHANGED <<is_valid, disk, base>> /\ failed' = TRUE /\ at' = "ready"
    BY <1>8 DEF WriteFillsFails
  <2> HIDE DEF n, buf
  <2>4. \A i \in 1..n : i \in 1..BufSize
    BY <2>1
  <2>5. Exact(wrbuf, wrbuf_offset, taken)'
    BY <2>2, <2>3, <2>4, Zenon DEF Exact
  <2> QED
    BY <1>1, <2>1, <2>2, <2>3, <2>5 DEF WriteTypes
<1>9. CASE qp_file_flush
  <2>1. UNCHANGED <<is_valid, at, len, taken, base>> /\ is_valid
    BY <1>9 DEF qp_file_flush
  <2>2. CASE UNCHANGED <<wrbuf, wrbuf_offset, disk>> /\ failed' \in {failed, TRUE}
    BY <1>1, <1>3, <2>1, <2>2
  <2>3. ASSUME NEW r \in 1..wrbuf_offset, Flushed(wrbuf, wrbuf_offset, r), UNCHANGED failed
        PROVE  Kept
    BY <1>1, <2>1, <2>3, FlushedExact DEF WriteTypes
  <2> QED
    BY <1>9, <2>2, <2>3 DEF qp_file_flush
<1>10. CASE \E destroy \in BOOLEAN : Close(destroy)
  <2>1. UNCHANGED <<wrbuf, wrbuf_offset, disk, taken, base, failed, len, is_valid>> /\ is_valid
    BY <1>10 DEF Close
  <2>2. at' \in {"close", "destroy"}
    BY <1>10 DEF Close
  <2> QED
    BY <1>1, <1>3, <2>1, <2>2
<1>11. ASSUME NEW r \in 1..BufSize, CloseFlush(r)
       PROVE  Kept
  <2>1. /\ UNCHANGED <<is_valid, at, len, taken, base, failed>>
        /\ Closing /\ r \in 1..wrbuf_offset /\ Flushed(wrbuf, wrbuf_offset, r)
    BY <1>11 DEF CloseFlush
  <2> QED
    BY <1>1, <2>1, FlushedExact DEF WriteTypes, Closing
<1>12. CASE CloseEnds
  <2>1. UNCHANGED <<wrbuf, wrbuf_offset, disk, taken, base, failed, len>>
    BY <1>12 DEF CloseEnds, CloseFd
  <2> QED
    BY <1>1, <1>3, <1>12, <2>1 DEF CloseEnds, CloseFd
<1>13. CASE CloseFails
  <2>1. UNCHANGED <<wrbuf, wrbuf_offset, disk, taken, base, len>> /\ failed' = TRUE
    BY <1>13 DEF CloseFails, CloseFd
  <2> QED
    BY <1>1, <1>3, <1>13, <2>1 DEF CloseFails, CloseFd
<1>14. CASE DestroyClosed
  <2>1. UNCHANGED <<wrbuf, wrbuf_offset, disk, taken, base, failed, len, is_valid, at>>
    BY <1>14 DEF DestroyClosed
  <2> QED
    BY <1>1, <1>3, <2>1
<1> HIDE DEF Kept
<1> QED
  BY <1>4, <1>5, <1>6, <1>7, <1>8, <1>9, <1>10, <1>11, <1>12, <1>13, <1>14
     DEF Writing, Next, Progress

(***************************************************************************)
(* The invariant of the buffered writes holds in every reachable state.    *)
(***************************************************************************)
THEOREM WritesInvariant == FSpec => []WriteInv
<1>1. ASSUME FInit
      PROVE  WriteInv
  <2>1. Init /\ open_flag \in {"O_WRONLY", "O_RDONLY", "O_RDWR"}
    BY <1>1 DEF FInit
  <2>2. Len(disk) = 0 /\ 1..0 = {}
    BY <2>1 DEF Init
  <2>3. WriteTypes
    BY <2>1, FileWriteAssumption DEF Init, WriteTypes
  <2>4. Exact(wrbuf, wrbuf_offset, taken)
    BY <2>1, <2>2 DEF Init, Exact
  <2> QED
    BY <2>1, <2>3, <2>4 DEF Init, WriteInv
<1>2. ASSUME WriteInv, [FNext]_fvars
      PROVE  WriteInv'
  <2>1. CASE UNCHANGED <<vars, open_flag>>
    BY <1>2, <2>1 DEF vars, WriteInv, WriteTypes, Exact
  <2>2. CASE Reading(R!Next)
    <3>1. /\ open_flag = "O_RDONLY" /\ open_flag' = open_flag
          /\ UNCHANGED <<wrbuf, wrbuf_offset, disk, taken, base, failed>>
      BY <2>2 DEF Reading, writeVars
    <3> QED
      BY <1>2, <3>1 DEF WriteInv, WriteTypes, Exact
  <2> QED
    BY <1>2, <2>1, <2>2, WriteStepInv DEF FNext, Locking, fvars
<1> QED
  BY <1>1, <1>2, PTL DEF FSpec

(***************************************************************************)
(* However write(2) cuts up what it is given, nothing taken from the       *)
(* caller is lost, doubled or reordered unless a write failed, and nothing *)
(* else ever reaches the file.                                             *)
(***************************************************************************)
THEOREM FileNothingLost == FSpec => []NothingLost
<1>1. ASSUME WriteInv
      PROVE  NothingLost
  <2> USE FileWriteAssumption
  <2>1. /\ WriteTypes /\ Exact(wrbuf, wrbuf_offset, taken)
        /\ Len(disk) \in Nat /\ DOMAIN disk = 1..Len(disk)
    BY <1>1 DEF WriteInv, WriteTypes
  <2>2. ASSUME ~failed
        PROVE  disk \o SubSeq(wrbuf, 1, wrbuf_offset) = Bytes(base + 1, taken)
    <3> DEFINE d == disk \o SubSeq(wrbuf, 0 + 1, 0 + wrbuf_offset)
               t == Bytes(base + 1, taken)
    <3>1. /\ wrbuf_offset \in Nat /\ 0 + wrbuf_offset <= BufSize /\ BufSize \in Nat
          /\ disk \in Seq(Nat) /\ wrbuf \in [1..BufSize -> Nat]
          /\ base \in Nat /\ taken \in Nat
      BY <2>1 DEF WriteTypes
    <3>2. /\ d \in Seq(Nat) /\ Len(d) = Len(disk) + wrbuf_offset
          /\ \A i \in 1..Len(disk) : d[i] = disk[i]
          /\ \A i \in 1..wrbuf_offset : d[Len(disk) + i] = wrbuf[0 + i]
      BY <3>1, AppendSlice
    <3>3. base + Len(disk) + wrbuf_offset = taken
      BY <2>1, <2>2 DEF Exact
    <3>4. taken + 1 - (base + 1) = Len(disk) + wrbuf_offset
      <4>1. \A a, b, c \in Nat : (a + b + c) + 1 - (a + 1) = b + c
        OBVIOUS
      <4>2. (base + Len(disk) + wrbuf_offset) + 1 - (base + 1) = Len(disk) + wrbuf_offset
        BY <2>1, <3>1, <4>1
      <4> QED
        BY <3>3, <4>2
    <3>5. t = [k \in 1..(Len(disk) + wrbuf_offset) |-> base + 1 + k - 1]
      BY <3>4 DEF Bytes
    <3> HIDE DEF d, t
    <3>6. ASSUME NEW i \in 1..(Len(disk) + wrbuf_offset)
          PROVE  d[i] = base + i
      <4>1. CASE i \in 1..Len(disk)
        BY <2>1, <2>2, <3>2, <4>1 DEF Exact
      <4>2. CASE i \in (Len(disk) + 1)..(Len(disk) + wrbuf_offset)
        <5>1. i - Len(disk) \in 1..wrbuf_offset /\ i = Len(disk) + (i - Len(disk))
              /\ 0 + (i - Len(disk)) = i - Len(disk)
          BY <2>1, <3>1, <4>2
        <5>2. d[i] = wrbuf[i - Len(disk)]
          BY <3>2, <5>1
        <5>3. wrbuf[i - Len(disk)] = base + Len(disk) + (i - Len(disk))
          BY <2>1, <2>2, <5>1 DEF Exact
        <5> QED
          BY <2>1, <3>1, <5>2, <5>3
      <4> QED
        BY <2>1, <3>1, <4>1, <4>2
    <3>7. \A i \in 1..(Len(disk) + wrbuf_offset) : base + i = base + 1 + i - 1
      BY <2>1, <3>1
    <3>8. d = [k \in 1..(Len(disk) + wrbuf_offset) |-> d[k]]
      BY <3>2
    <3>9. d = t
      BY <3>5, <3>6, <3>7, <3>8
    <3>10. 0 + 1 = 1 /\ 0 + wrbuf_offset = wrbuf_offset
      BY <3>1
    <3> QED
      BY <3>9, <3>10 DEF d, t
  <2> QED
    BY <2>1, <2>2 DEF NothingLost, Exact
<1> QED
  BY <1>1, WritesInvariant, PTL

(***************************************************************************)
(* A file that qp_file_close or qp_file_destroy has closed holds           *)
(* everything taken from the caller, unless some write(2) failed.          *)
(***************************************************************************)
THEOREM FileCloseStores == FSpec => CloseStores
<1>1. ASSUME WriteInv, NothingLost, [FNext]_fvars
      PROVE  [is_valid /\ ~is_valid' /\ ~failed' => disk' = Bytes(base + 1, taken)]_vars
  <2>1. SUFFICES ASSUME is_valid, ~is_valid', ~failed'
                 PROVE  disk' = Bytes(base + 1, taken)
    BY <1>1
  <2>2. CASE Writing(Next)
    <3>1. CloseEnds
      BY <2>1, <2>2 DEF Writing, Next, Progress, qp_file_open, qp_file_flush, DestroyClosed,
         qp_file_write, Close, WriteFits, WriteFills, CloseFlush, WriteFillsFails, CloseFails
    <3>2. wrbuf_offset = 0 /\ ~failed /\ disk' = disk
      BY <2>1, <3>1 DEF CloseEnds, CloseFd
    <3>3. disk \o SubSeq(wrbuf, 1, 0) = Bytes(base + 1, taken)
      BY <1>1, <2>1, <3>2 DEF NothingLost
    <3>4. disk \o SubSeq(wrbuf, 1, 0) = disk
      <4>1. disk \in Seq(Nat) /\ wrbuf \in Seq(Nat)
        BY <1>1, FileWriteAssumption DEF WriteInv, WriteTypes
      <4>2. SubSeq(wrbuf, 1, 0) = <<>>
        BY <4>1
      <4> QED
        BY <4>1, <4>2
    <3> QED
      BY <3>2, <3>3, <3>4
  <2>3. CASE Reading(R!Next)
    <3>1. disk' = <<>> /\ base = 0 /\ taken = 0
      BY <1>1, <2>3 DEF WriteInv, Reading, writeVars
    <3> QED
      BY <3>1 DEF Bytes
  <2> QED
    BY <1>1, <2>1, <2>2, <2>3 DEF FNext, Locking, fvars, vars
<1> QED
  BY <1>1, WritesInvariant, FileNothingLost, PTL DEF FSpec, CloseStores

-----------------------------------------------------------------------------
(* The buffered reads *)

FileByte == Nat \X Nat

\* Bytes of the stream that have gone to the caller, the call in progress included.
Passed == IF at = "read" THEN seen + Len(got) ELSE seen

ReadTypes ==
  /\ at \in {"ready", "read"}
  /\ rdbuf \in [1..BufSize -> FileByte]
  /\ rdbuf_offset \in 0..BufSize /\ rdbuf_offsetlast \in 0..rdbuf_offset
  /\ file \in Nat /\ pos \in Nat /\ seen \in Nat
  /\ got \in Seq(FileByte) /\ len \in Nat /\ done \in Nat
  /\ stale \in Seq(FileByte)

(***************************************************************************)
(* The rest of the buffer is what the stream has between the caller's      *)
(* place and the kernel's, and the call in progress has copied the bytes   *)
(* behind those of the calls before it.                                    *)
(***************************************************************************)
Placed ==
  /\ Len(stale) + pos = Passed + R!Rest
  /\ \A i \in 1..R!Rest : rdbuf[rdbuf_offsetlast + i] = R!Stream[Passed + i]
  /\ at = "read" => \A i \in 1..Len(got) : got[i] = R!Stream[seen + i]

ReadInv ==
  /\ ReadTypes
  /\ at = "read" => Len(got) + len = done
  /\ Placed

(***************************************************************************)
(* Serving n bytes of the buffer continues what the call has copied.       *)
(***************************************************************************)
LEMMA ServedExact ==
  ASSUME ReadInv, at = "read", NEW n \in Nat, n <= R!Rest
  PROVE  LET g == got \o R!Served(n)
         IN  /\ g \in Seq(FileByte) /\ Len(g) = Len(got) + n
             /\ \A i \in 1..Len(g) : g[i] = R!Stream[seen + i]
<1> DEFINE g == got \o R!Served(n)
<1> USE FileWriteAssumption
<1>1. /\ rdbuf_offset \in Nat /\ rdbuf_offsetlast \in Nat /\ BufSize \in Nat
      /\ rdbuf_offsetlast + n <= BufSize /\ R!Rest \in Nat
      /\ rdbuf \in [1..BufSize -> FileByte] /\ got \in Seq(FileByte) /\ Len(got) \in Nat
      /\ seen \in Nat
  BY DEF ReadInv, ReadTypes, R!Rest
<1>2. /\ g \in Seq(FileByte) /\ Len(g) = Len(got) + n
      /\ \A i \in 1..Len(got) : g[i] = got[i]
      /\ \A i \in 1..n : g[Len(got) + i] = rdbuf[rdbuf_offsetlast + i]
  <2> DEFINE m == rdbuf_offsetlast
             d == got \o SubSeq(rdbuf, m + 1, m + n)
  <2>1. /\ BufSize \in Nat /\ m \in Nat /\ m + n <= BufSize
        /\ rdbuf \in [1..BufSize -> FileByte] /\ got \in Seq(FileByte)
    BY <1>1
  <2> HIDE DEF m
  <2>2. /\ d \in Seq(FileByte) /\ Len(d) = Len(got) + n
        /\ \A i \in 1..Len(got) : d[i] = got[i]
        /\ \A i \in 1..n : d[Len(got) + i] = rdbuf[m + i]
    BY <2>1, AppendSlice
  <2>3. g = d
    BY DEF R!Served, m
  <2> HIDE DEF g, d
  <2> QED
    BY <2>2, <2>3 DEF m
<1> HIDE DEF g
<1>3. ASSUME NEW i \in 1..Len(g)
      PROVE  g[i] = R!Stream[seen + i]
  <2>1. /\ \A k \in 1..R!Rest : rdbuf[rdbuf_offsetlast + k] = R!Stream[seen + Len(got) + k]
        /\ \A k \in 1..Len(got) : got[k] = R!Stream[seen + k]
    BY DEF ReadInv, Placed, Passed
  <2>2. CASE i \in 1..Len(got)
    BY <1>2, <2>1, <2>2
  <2>3. CASE i \in (Len(got) + 1)..(Len(got) + n)
    <3>1. i - Len(got) \in 1..n /\ i - Len(got) \in 1..R!Rest /\ i = Len(got) + (i - Len(got))
      BY <1>1, <2>3
    <3>2. g[i] = rdbuf[rdbuf_offsetlast + (i - Len(got))]
      BY <1>2, <3>1
    <3>3. g[i] = R!Stream[seen + Len(got) + (i - Len(got))]
      BY <2>1, <3>1, <3>2
    <3>4. seen + Len(got) + (i - Len(got)) = seen + i
      BY <1>1
    <3> QED
      BY <3>3, <3>4
  <2> QED
    BY <1>1, <1>2, <2>2, <2>3
<1> QED
  BY <1>2, <1>3 DEF g

(***************************************************************************)
(* Opening a file makes the buffer's rest the beginning of the stream.     *)
(***************************************************************************)
LEMMA OpenInv ==
  ASSUME ReadInv, R!qp_file_open
  PROVE  ReadInv'
<1> USE FileWriteAssumption
<1> DEFINE m == rdbuf_offsetlast
           rest == R!Rest
           d == <<>> \o SubSeq(rdbuf, m + 1, m + rest)
<1>1. /\ ReadTypes /\ rest \in Nat /\ m \in Nat /\ BufSize \in Nat /\ m + rest <= BufSize
      /\ rdbuf \in [1..BufSize -> FileByte]
  BY DEF ReadInv, ReadTypes, R!Rest
<1>2. /\ UNCHANGED <<rdbuf, rdbuf_offset, rdbuf_offsetlast, at, len, done>> /\ at = "ready"
      /\ file' = file + 1 /\ pos' = 0 /\ seen' = 0 /\ got' = <<>>
      /\ stale' = SubSeq(rdbuf, m + 1, m + rest)
  BY DEF R!qp_file_open, R!Served
<1>3. /\ d \in Seq(FileByte) /\ Len(d) = rest
      /\ \A i \in 1..rest : d[i] = rdbuf[m + i]
  <2>1. <<>> \in Seq(FileByte) /\ Len(<<>>) = 0
    OBVIOUS
  <2> HIDE DEF m, rest
  <2>2. /\ d \in Seq(FileByte) /\ Len(d) = Len(<<>>) + rest
        /\ \A i \in 1..rest : d[Len(<<>>) + i] = rdbuf[m + i]
    BY <1>1, <2>1, AppendSlice
  <2> HIDE DEF d
  <2>3. Len(d) = rest /\ \A i \in 1..rest : d[0 + i] = rdbuf[m + i] /\ 0 + i = i
    BY <1>1, <2>1, <2>2
  <2> QED
    BY <2>2, <2>3
<1>4. stale' = d
  <2>1. SubSeq(rdbuf, m + 1, m + rest) \in Seq(FileByte)
    <3> HIDE DEF m, rest
    <3> QED
      BY <1>1
  <2> QED
    BY <1>2, <2>1
<1>5. R!Rest' = rest
  BY <1>2 DEF R!Rest
<1> HIDE DEF d, m, rest
<1>6. ReadTypes'
  BY <1>1, <1>2, <1>3, <1>4 DEF ReadTypes
<1>7. Passed' = 0
  BY <1>2 DEF Passed
<1>8. \A i \in 1..rest : R!Stream'[i] = d[i]
  <2>1. R!Stream' = [i \in Nat |-> IF i <= Len(d) THEN d[i] ELSE <<file', i - Len(d)>>]
    BY <1>4 DEF R!Stream
  <2> QED
    BY <1>1, <1>3, <2>1
<1>9. Placed'
  <2>1. Len(stale') + pos' = 0 + rest
    BY <1>1, <1>2, <1>3, <1>4
  <2>2. \A i \in 1..rest : rdbuf'[rdbuf_offsetlast' + i] = R!Stream'[0 + i]
    <3> SUFFICES ASSUME NEW i \in 1..rest
                 PROVE  rdbuf'[rdbuf_offsetlast' + i] = R!Stream'[0 + i]
      OBVIOUS
    <3>1. 0 + i = i
      BY <1>1
    <3>2. rdbuf'[rdbuf_offsetlast' + i] = d[i]
      BY <1>2, <1>3 DEF m
    <3> QED
      BY <1>8, <3>1, <3>2
  <2> QED
    BY <1>2, <1>5, <1>7, <2>1, <2>2 DEF Placed
<1> QED
  BY <1>2, <1>6, <1>9 DEF ReadInv

(***************************************************************************)
(* Every step of a file that is open for reading keeps the invariant.      *)
(***************************************************************************)
LEMMA ReadStepInv ==
  ASSUME ReadInv, R!Next
  PROVE  ReadInv'
<1> USE FileWriteAssumption
<1>1. /\ ReadTypes /\ R!Rest \in Nat /\ Len(got) \in Nat /\ R!Rest <= BufSize /\ BufSize \in Nat
      /\ Len(stale) \in Nat
  BY DEF ReadInv, ReadTypes, R!Rest
<1>2. CASE R!qp_file_open
  BY <1>2, OpenInv
<1>3. CASE R!qp_file_close
  <2>1. UNCHANGED <<file, pos, rdbuf, rdbuf_offset, rdbuf_offsetlast, at, len, done, got, stale, seen>>
    BY <1>3 DEF R!qp_file_close
  <2>2. R!Stream' = R!Stream
    BY <2>1 DEF R!Stream
  <2> QED
    BY <2>1, <2>2 DEF ReadInv, ReadTypes, Placed, Passed, R!Rest
<1>4. ASSUME NEW n \in 1..MaxLen, R!qp_file_read(n)
      PROVE  ReadInv'
  <2>1. /\ UNCHANGED <<file, pos, rdbuf, rdbuf_offset, rdbuf_offsetlast, stale, seen>>
        /\ at = "ready" /\ at' = "read" /\ len' = n /\ done' = n /\ got' = <<>>
    BY <1>4 DEF R!qp_file_read
  <2>2. ReadTypes' /\ Len(got') = 0
    BY <1>1, <2>1 DEF ReadTypes
  <2>3. Len(got') + len' = done'
    BY <2>1, <2>2
  <2>4. /\ Passed = seen /\ Passed' = seen /\ R!Rest' = R!Rest
        /\ R!Stream' = R!Stream
    BY <1>1, <2>1, <2>2 DEF Passed, ReadTypes, R!Rest, R!Stream
  <2>5. Placed'
    BY <2>1, <2>2, <2>4 DEF Placed, ReadInv
  <2> QED
    BY <2>2, <2>3, <2>5 DEF ReadInv
<1>5. CASE R!ReadServes
  <2>1. /\ UNCHANGED <<file, pos, rdbuf, rdbuf_offset, len, done, stale>>
        /\ at = "read" /\ at' = "ready" /\ len <= R!Rest /\ len \in Nat
        /\ got' = got \o R!Served(len)
        /\ rdbuf_offsetlast' = rdbuf_offsetlast + len /\ seen' = seen + done
        /\ Len(got) + len = done
    BY <1>5 DEF R!ReadServes, ReadInv, ReadTypes
  <2>2. got' \in Seq(FileByte)
    BY <2>1, ServedExact
  <2>3. R!Rest' = R!Rest - len /\ R!Stream' = R!Stream
    BY <1>1, <2>1 DEF R!Rest, R!Stream, ReadTypes
  <2>4. rdbuf_offsetlast + len \in 0..rdbuf_offset
    BY <1>1, <2>1 DEF R!Rest, ReadTypes
  <2>5. ReadTypes'
    BY <1>1, <2>1, <2>2, <2>4 DEF ReadTypes
  <2>6. Placed'
    <3>1. Placed /\ Passed = seen + Len(got)
      BY <2>1 DEF ReadInv, Passed
    <3>2. Passed' = Passed + len /\ Passed \in Nat
      <4>1. Passed' = seen + done
        BY <2>1 DEF Passed
      <4>2. \A a, b, c \in Nat : a + (b + c) = (a + b) + c
        OBVIOUS
      <4>3. seen \in Nat /\ Passed \in Nat
        BY <1>1, <3>1 DEF ReadTypes
      <4> QED
        BY <1>1, <2>1, <3>1, <4>1, <4>2, <4>3
    <3>3. Len(stale') + pos' = Passed' + R!Rest'
      <4>1. \A a, b, c \in Nat : a + b = (a + c) + (b - c)
        OBVIOUS
      <4>2. Passed + R!Rest = (Passed + len) + (R!Rest - len)
        BY <1>1, <2>1, <3>2, <4>1
      <4> QED
        BY <2>1, <2>3, <3>1, <3>2, <4>2 DEF Placed
    <3>4. ASSUME NEW i \in 1..R!Rest'
          PROVE  rdbuf'[rdbuf_offsetlast' + i] = R!Stream'[Passed' + i]
      <4>1. len + i \in 1..R!Rest
        BY <1>1, <2>1, <2>3
      <4>2. rdbuf[rdbuf_offsetlast + (len + i)] = R!Stream[Passed + (len + i)]
        BY <3>1, <4>1 DEF Placed
      <4>3. rdbuf_offsetlast + (len + i) = rdbuf_offsetlast + len + i
        BY <1>1, <2>1 DEF ReadTypes
      <4>4. Passed + (len + i) = Passed + len + i
        BY <2>1, <3>2
      <4> QED
        BY <2>1, <2>3, <3>2, <4>2, <4>3, <4>4
    <3> QED
      BY <2>1, <3>3, <3>4 DEF Placed
  <2> QED
    BY <2>1, <2>5, <2>6 DEF ReadInv
<1>6. ASSUME NEW r \in 1..BufSize, R!ReadRefills(r)
      PROVE  ReadInv'
  <2>1. /\ UNCHANGED <<file, at, done, stale, seen>>
        /\ at = "read" /\ len > R!Rest /\ len \in Nat /\ Len(got) + len = done
        /\ got' = got \o R!Served(R!Rest) /\ len' = len - R!Rest
        /\ rdbuf' = [i \in 1..BufSize |-> IF i <= r THEN <<file, pos + i>> ELSE rdbuf[i]]
        /\ rdbuf_offset' = r /\ rdbuf_offsetlast' = 0 /\ pos' = pos + r
    BY <1>6 DEF R!ReadRefills, R!Track, ReadInv, ReadTypes
  <2>2. R!Rest <= R!Rest
    BY <1>1
  <2>3. /\ got' \in Seq(FileByte) /\ Len(got') = Len(got) + R!Rest
        /\ \A i \in 1..Len(got') : got'[i] = R!Stream[seen + i]
    BY <1>1, <2>1, <2>2, ServedExact
  <2>4. rdbuf' \in [1..BufSize -> FileByte]
    <3>1. file \in Nat /\ pos \in Nat /\ rdbuf \in [1..BufSize -> FileByte]
      BY <1>1 DEF ReadTypes
    <3>2. \A i \in 1..BufSize : <<file, pos + i>> \in FileByte
      BY <3>1 DEF FileByte
    <3> QED
      BY <2>1, <3>1, <3>2
  <2>5. len' \in Nat /\ done \in Nat /\ pos' \in Nat /\ Len(got') + len' = done
    <3>1. \A a, b, c \in Nat : (a + b) + (c - b) = a + c
      OBVIOUS
    <3>2. len' \in Nat /\ done \in Nat /\ pos' \in Nat
      BY <1>1, <2>1 DEF ReadTypes
    <3>3. Len(got') + len' = Len(got) + len
      BY <1>1, <2>1, <2>3, <3>1
    <3> QED
      BY <2>1, <3>2, <3>3
  <2>6. ReadTypes'
    BY <1>1, <2>1, <2>3, <2>4, <2>5 DEF ReadTypes
  <2>7. R!Rest' = r /\ R!Stream' = R!Stream
    BY <2>1 DEF R!Rest, R!Stream
  <2>8. Placed'
    <3>1. Placed /\ Passed = seen + Len(got) /\ seen \in Nat
      BY <1>1, <2>1 DEF ReadInv, Passed, ReadTypes
    <3>2. Passed' = seen + Len(got')
      BY <2>1 DEF Passed
    <3>3. Passed' = Len(stale) + pos /\ pos \in Nat
      BY <1>1, <2>3, <3>1, <3>2 DEF Placed, ReadTypes
    <3>4. \A i \in 1..r : rdbuf'[0 + i] = <<file, pos + i>>
      BY <1>1, <2>1
    <3>5. \A i \in 1..r : R!Stream[Len(stale) + pos + i] = <<file, pos + i>>
      <4> SUFFICES ASSUME NEW i \in 1..r
                   PROVE  R!Stream[Len(stale) + pos + i] = <<file, pos + i>>
        OBVIOUS
      <4> DEFINE x == Len(stale) + pos + i
                 s == stale
                 l == Len(s)
      <4>1. x \in Nat /\ ~(x <= l) /\ x - l = pos + i
        BY <1>1, <3>3
      <4>2. R!Stream = [j \in Nat |-> IF j <= l THEN s[j] ELSE <<file, j - l>>]
        BY DEF R!Stream
      <4> HIDE DEF x, l, s
      <4>3. R!Stream[x] = <<file, pos + i>>
        BY <4>1, <4>2
      <4> QED
        BY <4>3 DEF x
    <3>6. Len(stale') + pos' = Passed' + r
      BY <1>1, <2>1, <3>3
    <3> QED
      BY <2>1, <2>3, <2>7, <3>3, <3>4, <3>5, <3>6 DEF Placed
  <2> QED
    BY <2>1, <2>5, <2>6, <2>8 DEF ReadInv
<1>7. ASSUME NEW ret, R!ReadStops(ret)
      PROVE  ReadInv'
  <2>1. /\ UNCHANGED <<file, pos, rdbuf, rdbuf_offset, rdbuf_offsetlast, done, stale>>
        /\ at = "read" /\ at' = "ready" /\ len > R!Rest /\ len' = len - R!Rest
        /\ got' = got \o R!Served(R!Rest)
        /\ seen' = seen + Len(got)
    BY <1>7 DEF R!ReadStops
  <2>2. R!Rest <= R!Rest
    BY <1>1
  <2>3. got' \in Seq(FileByte)
    BY <1>1, <2>1, <2>2, ServedExact
  <2>4. len' \in Nat /\ seen' \in Nat
    BY <1>1, <2>1 DEF ReadTypes
  <2>5. ReadTypes'
    BY <1>1, <2>1, <2>3, <2>4 DEF ReadTypes
  <2>6. Passed' = Passed /\ R!Rest' = R!Rest /\ R!Stream' = R!Stream
    BY <2>1 DEF Passed, R!Rest, R!Stream
  <2>7. Placed'
    BY <2>1, <2>6 DEF Placed, ReadInv
  <2> QED
    BY <2>1, <2>5, <2>7 DEF ReadInv
<1> QED
  BY <1>2, <1>3, <1>4, <1>5, <1>6, <1>7
     DEF R!Next, R!Progress, R!ReadEnds, R!ReadFails

(***************************************************************************)
(* The invariant of the buffered reads holds in every reachable state of a *)
(* structure that reads.                                                   *)
(***************************************************************************)
THEOREM ReadsInvariant == FSpec => [](open_flag = "O_RDONLY" => ReadInv)
<1>1. ASSUME FInit
      PROVE  ReadInv
  <2>1. R!Init
    BY <1>1 DEF FInit
  <2>2. Len(got) = 0 /\ R!Rest = 0 /\ Len(stale) = 0
    BY <2>1 DEF R!Init, R!Rest
  <2>3. ReadTypes
    BY <2>1, FileWriteAssumption DEF R!Init, ReadTypes, FileByte
  <2>4. Placed
    BY <2>1, <2>2 DEF R!Init, Placed, Passed
  <2> QED
    BY <2>1, <2>3, <2>4 DEF R!Init, ReadInv
<1>2. ASSUME open_flag = "O_RDONLY" => ReadInv, [FNext]_fvars
      PROVE  (open_flag = "O_RDONLY" => ReadInv)'
  <2>1. CASE UNCHANGED <<vars, readVars, open_flag>>
    <3>1. R!Stream' = R!Stream
      BY <2>1 DEF readVars, R!Stream
    <3> QED
      BY <1>2, <2>1, <3>1 DEF vars, readVars, ReadInv, ReadTypes, Placed, Passed, R!Rest
  <2> QED
    BY <1>2, <2>1, ReadStepInv DEF FNext, Writing, Reading, Locking, fvars
<1> QED
  BY <1>1, <1>2, PTL DEF FSpec

(***************************************************************************)
(* Every read gives the bytes that follow those of the calls before it, a  *)
(* read that succeeds gives all that was asked for, and none reports more  *)
(* than it gave, for every buffer and every way read(2) cuts up the file,  *)
(* fails or meets its end.                                                 *)
(***************************************************************************)
THEOREM FileReadsInOrder == FSpec => ReadsInOrder
<1> DEFINE A == /\ \A i \in 1..Len(got') : got'[i] = R!Stream[seen + i]
                /\ result' > 0 => Len(got') = done
                /\ result' <= Len(got')
<1>1. ASSUME open_flag = "O_RDONLY" => ReadInv, WriteInv, [FNext]_fvars
      PROVE  [at = "read" /\ at' = "ready" => A]_(R!vars)
  <2>1. SUFFICES ASSUME at = "read", at' = "ready"
                 PROVE  A
    BY <1>1
  <2>2. open_flag = "O_RDONLY" /\ R!Next /\ ReadInv
    BY <1>1, <2>1 DEF WriteInv, FNext, fvars, vars, Writing, Reading, Locking
  <2>3. /\ Len(got) \in Nat /\ len \in Nat /\ R!Rest \in Nat /\ Len(got) + len = done
    BY <2>1, <2>2, FileWriteAssumption DEF ReadInv, ReadTypes, R!Rest
  <2>4. CASE R!ReadServes
    <3>1. got' = got \o R!Served(len) /\ len <= R!Rest /\ result' = len
      BY <2>4 DEF R!ReadServes
    <3>2. /\ Len(got') = Len(got) + len
          /\ \A i \in 1..Len(got') : got'[i] = R!Stream[seen + i]
      BY <2>1, <2>2, <2>3, <3>1, ServedExact
    <3>3. len <= Len(got) + len
      BY <2>3
    <3> QED
      BY <2>3, <3>1, <3>2, <3>3
  <2>5. ASSUME NEW ret \in {0, -1}, R!ReadStops(ret)
        PROVE  A
    <3>1. got' = got \o R!Served(R!Rest) /\ result' = ret /\ R!Rest <= R!Rest
      BY <2>3, <2>5 DEF R!ReadStops
    <3>2. /\ Len(got') = Len(got) + R!Rest
          /\ \A i \in 1..Len(got') : got'[i] = R!Stream[seen + i]
      BY <2>1, <2>2, <2>3, <3>1, ServedExact
    <3>3. ~(ret > 0) /\ ret <= Len(got) + R!Rest
      BY <2>3, <2>5
    <3> QED
      BY <3>1, <3>2, <3>3
  <2> HIDE DEF A
  <2> QED
    BY <2>1, <2>2, <2>4, <2>5 DEF R!Next, R!Progress, R!ReadEnds, R!ReadFails, R!qp_file_open,
       R!qp_file_close, R!qp_file_read, R!ReadRefills
<1> QED
  BY <1>1, ReadsInvariant, WritesInvariant, PTL DEF FSpec, ReadsInOrder, R!ReadsInOrder
=============================================================================
