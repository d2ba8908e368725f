----------------------------- MODULE QpIoProof -----------------------------
(***************************************************************************)
(* Proofs about qp_fd_writen and qp_fd_readn at the two ends of a stream,  *)
(* for every capacity of the kernel's buffer and every length of the       *)
(* transfers: no byte is lost, doubled or reordered, and a call that no    *)
(* error ended comes back short only when the other end has closed.        *)
(***************************************************************************)
EXTENDS QpIo, TLAPS

(***************************************************************************)
(* The elements of a concatenation.                                        *)
(***************************************************************************)
LEMMA Concat ==
  ASSUME NEW s \in Seq(Nat), NEW t \in Seq(Nat)
  PROVE  /\ s \o t \in Seq(Nat) /\ Len(s \o t) = Len(s) + Len(t)
         /\ \A i \in 1..Len(s) : (s \o t)[i] = s[i]
         /\ \A i \in 1..Len(t) : (s \o t)[Len(s) + i] = t[i]
  OBVIOUS

(***************************************************************************)
(* A sequence cut behind its first k elements.                             *)
(***************************************************************************)
LEMMA Cut ==
  ASSUME NEW s \in Seq(Nat), NEW k \in Nat, k <= Len(s)
  PROVE  /\ SubSeq(s, 1, k) \in Seq(Nat) /\ Len(SubSeq(s, 1, k)) = k
         /\ \A i \in 1..k : SubSeq(s, 1, k)[i] = s[i]
         /\ SubSeq(s, k + 1, Len(s)) \in Seq(Nat) /\ Len(SubSeq(s, k + 1, Len(s))) = Len(s) - k
         /\ \A i \in 1..(Len(s) - k) : SubSeq(s, k + 1, Len(s))[i] = s[k + i]
<1>1. Len(s) \in Nat
  OBVIOUS
<1>2. /\ SubSeq(s, 1, k) \in Seq(Nat) /\ Len(SubSeq(s, 1, k)) = k
      /\ \A i \in 1..k : SubSeq(s, 1, k)[i] = s[i]
  BY <1>1
<1>3. SubSeq(s, k + 1, Len(s)) \in Seq(Nat) /\ Len(SubSeq(s, k + 1, Len(s))) = Len(s) - k
  BY <1>1
<1>4. \A i \in 1..(Len(s) - k) : SubSeq(s, k + 1, Len(s))[i] = s[k + i]
  BY <1>1
<1> QED
  BY <1>2, <1>3, <1>4

End == [at : {"ready", "loop", "closed"}, nbytes : Nat, ndone : Nat]

Types ==
  /\ pipe \in Seq(Nat) /\ received \in Seq(Nat)
  /\ writer \in End /\ reader \in End
  /\ sent \in Nat /\ counted \in Nat

\* Between its calls an end has no transfer in progress; in a call it has done
\* no more than it was asked for.
LocalsMatch ==
  \A e \in {writer, reader} :
    e.ndone <= e.nbytes /\ (e.at # "loop" => e.ndone = 0)

\* StreamExact, byte by byte.
InOrder ==
  /\ Len(received) + Len(pipe) = sent + writer.ndone
  /\ \A i \in 1..Len(received) : received[i] = i
  /\ \A i \in 1..Len(pipe) : pipe[i] = Len(received) + i
  /\ Len(received) = counted + reader.ndone

IInv == Types /\ LocalsMatch /\ InOrder

(***************************************************************************)
(* Nothing is on the way in the beginning.                                 *)
(***************************************************************************)
LEMMA IoInit == Init => IInv
<1> SUFFICES ASSUME Init PROVE IInv
  OBVIOUS
<1>1. Types
  BY DEF Init, Types, Idle, End
<1>2. LocalsMatch
  BY DEF Init, LocalsMatch, Idle
<1>3. InOrder
  BY DEF Init, InOrder, Idle
<1> QED
  BY <1>1, <1>2, <1>3 DEF IInv

(***************************************************************************)
(* What write(2) takes continues the stream, and ends the call when it was *)
(* the last that was asked for.                                            *)
(***************************************************************************)
LEMMA WriteSomeInv ==
  ASSUME IInv, NEW k \in 1..Capacity, WriteSome(k)
  PROVE  IInv'
<1> USE IoAssumption
<1> DEFINE ndone == writer.ndone + k
           more == [i \in 1..k |-> sent + writer.ndone + i]
<1>1. /\ pipe \in Seq(Nat) /\ received \in Seq(Nat) /\ Len(pipe) \in Nat /\ Len(received) \in Nat
      /\ writer \in End /\ reader \in End /\ sent \in Nat /\ counted \in Nat /\ k \in Nat
      /\ writer.ndone \in Nat /\ writer.nbytes \in Nat /\ writer.at \in {"ready", "loop", "closed"}
  BY DEF IInv, Types, End
<1>2. /\ writer.at = "loop" /\ k <= writer.nbytes - writer.ndone /\ pipe' = pipe \o more
      /\ UNCHANGED <<reader, received, counted>>
      /\ \/ ndone < writer.nbytes /\ writer' = [writer EXCEPT !.ndone = ndone] /\ sent' = sent
         \/ ndone = writer.nbytes /\ writer' = Idle /\ sent' = sent + ndone
  BY DEF WriteSome, WriteReturns
<1>3. more \in Seq(Nat) /\ Len(more) = k /\ \A i \in 1..k : more[i] = sent + writer.ndone + i
  BY <1>1
<1> HIDE DEF more
<1>4. /\ pipe' \in Seq(Nat) /\ Len(pipe') = Len(pipe) + k
      /\ \A i \in 1..Len(pipe) : pipe'[i] = pipe[i]
      /\ \A i \in 1..k : pipe'[Len(pipe) + i] = more[i]
  <2>1. /\ pipe \o more \in Seq(Nat) /\ Len(pipe \o more) = Len(pipe) + Len(more)
        /\ \A i \in 1..Len(pipe) : (pipe \o more)[i] = pipe[i]
        /\ \A i \in 1..Len(more) : (pipe \o more)[Len(pipe) + i] = more[i]
    BY <1>1, <1>3, Concat
  <2> QED
    BY <1>2, <1>3, <2>1
<1>5. writer' \in End /\ sent' \in Nat
  <2>1. ndone \in Nat /\ sent + ndone \in Nat
    BY <1>1
  <2>2. [writer EXCEPT !.ndone = ndone] \in End /\ Idle \in End
    BY <1>1, <2>1 DEF End, Idle
  <2> QED
    BY <1>1, <1>2, <2>1, <2>2
<1>6. Types'
  BY <1>1, <1>2, <1>4, <1>5 DEF Types
<1>7. writer'.ndone <= writer'.nbytes /\ (writer'.at # "loop" => writer'.ndone = 0)
  <2>1. ndone \in Nat
    BY <1>1
  <2>2. CASE ndone < writer.nbytes /\ writer' = [writer EXCEPT !.ndone = ndone]
    <3>1. writer'.ndone = ndone /\ writer'.nbytes = writer.nbytes /\ writer'.at = "loop"
      BY <1>1, <1>2, <2>2 DEF End
    <3> QED
      BY <1>1, <2>1, <2>2, <3>1
  <2>3. CASE writer' = Idle
    BY <2>3 DEF Idle
  <2> QED
    BY <1>2, <2>2, <2>3
<1>8. LocalsMatch'
  BY <1>2, <1>7 DEF LocalsMatch, IInv
<1>9. sent' + writer'.ndone = sent + writer.ndone + k
  <2>1. sent + (writer.ndone + k) = sent + writer.ndone + k
    BY <1>1
  <2>2. CASE sent' = sent /\ writer' = [writer EXCEPT !.ndone = ndone]
    <3>1. writer'.ndone = ndone
      BY <1>1, <2>2 DEF End
    <3> QED
      BY <2>1, <2>2, <3>1
  <2>3. CASE writer' = Idle /\ sent' = sent + ndone
    <3>1. writer'.ndone = 0 /\ sent' + 0 = sent'
      BY <1>5, <2>3 DEF Idle
    <3> QED
      BY <2>1, <2>3, <3>1
  <2> QED
    BY <1>2, <2>2, <2>3
<1>10. /\ Len(received) + Len(pipe) = sent + writer.ndone
       /\ \A i \in 1..Len(received) : received[i] = i
       /\ \A i \in 1..Len(pipe) : pipe[i] = Len(received) + i
       /\ Len(received) = counted + reader.ndone
  BY DEF IInv, InOrder
<1>11. ASSUME NEW i \in 1..Len(pipe')
       PROVE  pipe'[i] = Len(received) + i
  <2>1. CASE i \in 1..Len(pipe)
    BY <1>4, <1>10, <2>1
  <2>2. CASE i \in (Len(pipe) + 1)..(Len(pipe) + k)
    <3>1. i - Len(pipe) \in 1..k /\ i = Len(pipe) + (i - Len(pipe))
      BY <1>1, <2>2
    <3>2. pipe'[i] = sent + writer.ndone + (i - Len(pipe))
      BY <1>3, <1>4, <3>1
    <3> QED
      BY <1>1, <1>10, <3>2
  <2> QED
    BY <1>1, <1>4, <2>1, <2>2
<1>12. Len(received) + Len(pipe') = sent' + writer'.ndone
  <2>1. \A a, b, c \in Nat : a + (b + c) = (a + b) + c
    OBVIOUS
  <2>2. Len(received) + (Len(pipe) + k) = (Len(received) + Len(pipe)) + k
    BY <1>1, <2>1
  <2> QED
    BY <1>4, <1>9, <1>10, <2>2
<1>13. InOrder'
  BY <1>2, <1>10, <1>11, <1>12 DEF InOrder
<1> QED
  BY <1>6, <1>8, <1>13 DEF IInv

(***************************************************************************)
(* What read(2) returns moves from the pipe to the reader in order.        *)
(***************************************************************************)
LEMMA ReadSomeInv ==
  ASSUME IInv, NEW k \in 1..Capacity, ReadSome(k)
  PROVE  IInv'
<1> USE IoAssumption
<1> DEFINE part == SubSeq(pipe, 1, k)
<1>1. /\ pipe \in Seq(Nat) /\ received \in Seq(Nat) /\ Len(pipe) \in Nat /\ Len(received) \in Nat
      /\ writer \in End /\ reader \in End /\ sent \in Nat /\ counted \in Nat /\ k \in Nat
      /\ reader.ndone \in Nat /\ reader.nbytes \in Nat /\ writer.ndone \in Nat
  BY DEF IInv, Types, End
<1>2. /\ reader.at = "loop" /\ k <= reader.nbytes - reader.ndone /\ k <= Len(pipe)
      /\ pipe' = SubSeq(pipe, k + 1, Len(pipe)) /\ received' = received \o part
      /\ reader' = [reader EXCEPT !.ndone = reader.ndone + k]
      /\ UNCHANGED <<writer, sent, counted>>
  BY <1>1 DEF ReadSome
<1>3. part \in Seq(Nat) /\ Len(part) = k /\ \A i \in 1..k : part[i] = pipe[i]
  BY <1>1, <1>2, Cut
<1>4. /\ pipe' \in Seq(Nat) /\ Len(pipe') = Len(pipe) - k
      /\ \A i \in 1..(Len(pipe) - k) : pipe'[i] = pipe[k + i]
  <2> DEFINE rest == SubSeq(pipe, k + 1, Len(pipe))
  <2>1. k <= Len(pipe) /\ pipe \in Seq(Nat) /\ k \in Nat
    BY <1>1, <1>2
  <2>2. /\ rest \in Seq(Nat) /\ Len(rest) = Len(pipe) - k
        /\ \A i \in 1..(Len(pipe) - k) : rest[i] = pipe[k + i]
    BY <2>1, Cut
  <2>3. pipe' = rest
    BY <1>2
  <2> HIDE DEF rest
  <2> QED
    BY <2>2, <2>3
<1> HIDE DEF part
<1>5. /\ received' \in Seq(Nat) /\ Len(received') = Len(received) + k
      /\ \A i \in 1..Len(received) : received'[i] = received[i]
      /\ \A i \in 1..k : received'[Len(received) + i] = part[i]
  <2>1. /\ received \o part \in Seq(Nat) /\ Len(received \o part) = Len(received) + Len(part)
        /\ \A i \in 1..Len(received) : (received \o part)[i] = received[i]
        /\ \A i \in 1..Len(part) : (received \o part)[Len(received) + i] = part[i]
    BY <1>1, <1>3, Concat
  <2> QED
    BY <1>2, <1>3, <2>1
<1>6. /\ reader' \in End /\ reader'.ndone = reader.ndone + k /\ reader'.nbytes = reader.nbytes
      /\ reader'.at = "loop"
  <2>1. reader.ndone + k \in Nat
    BY <1>1
  <2>2. [reader EXCEPT !.ndone = reader.ndone + k] \in End
    BY <1>1, <2>1 DEF End
  <2> QED
    BY <1>1, <1>2, <2>2 DEF End
<1>7. Types'
  BY <1>1, <1>2, <1>4, <1>5, <1>6 DEF Types
<1>8. reader'.ndone <= reader'.nbytes
  <2>1. \A d, n, x \in Nat : x <= n - d => d + x <= n
    OBVIOUS
  <2>2. k <= reader.nbytes - reader.ndone
    BY <1>2
  <2>3. reader.ndone + k <= reader.nbytes
    BY <1>1, <2>1, <2>2
  <2> QED
    BY <1>6, <2>3
<1>9. LocalsMatch'
  BY <1>2, <1>6, <1>8 DEF LocalsMatch, IInv
<1>10. /\ Len(received) + Len(pipe) = sent + writer.ndone
       /\ \A i \in 1..Len(received) : received[i] = i
       /\ \A i \in 1..Len(pipe) : pipe[i] = Len(received) + i
       /\ Len(received) = counted + reader.ndone
  BY DEF IInv, InOrder
<1>11. ASSUME NEW i \in 1..Len(received')
       PROVE  received'[i] = i
  <2>1. CASE i \in 1..Len(received)
    BY <1>5, <1>10, <2>1
  <2>2. CASE i \in (Len(received) + 1)..(Len(received) + k)
    <3>1. /\ i - Len(received) \in 1..k /\ i - Len(received) \in 1..Len(pipe)
          /\ i = Len(received) + (i - Len(received))
      <4>1. k <= Len(pipe)
        BY <1>2
      <4> QED
        BY <1>1, <2>2, <4>1
    <3>2. received'[i] = pipe[i - Len(received)]
      BY <1>3, <1>5, <3>1
    <3> QED
      BY <1>10, <3>1, <3>2
  <2> QED
    BY <1>1, <1>5, <2>1, <2>2
<1>12. ASSUME NEW i \in 1..Len(pipe')
       PROVE  pipe'[i] = Len(received') + i
  <2>1. k + i \in 1..Len(pipe) /\ i \in 1..(Len(pipe) - k)
    <3>1. k <= Len(pipe) /\ Len(pipe') = Len(pipe) - k
      BY <1>2, <1>4
    <3> QED
      BY <1>1, <3>1
  <2>2. pipe'[i] = Len(received) + (k + i)
    BY <1>4, <1>10, <2>1
  <2> QED
    BY <1>1, <1>5, <2>2
<1>13. Len(received') + Len(pipe') = sent + writer.ndone
  <2>1. \A a, b, c \in Nat : (a + b) + (c - b) = a + c
    OBVIOUS
  <2>2. (Len(received) + k) + (Len(pipe) - k) = Len(received) + Len(pipe)
    BY <1>1, <2>1
  <2> QED
    BY <1>4, <1>5, <1>10, <2>2
<1>14. Len(received') = counted + reader'.ndone
  BY <1>1, <1>5, <1>6, <1>10
<1>15. InOrder'
  BY <1>2, <1>11, <1>12, <1>13, <1>14 DEF InOrder
<1> QED
  BY <1>7, <1>9, <1>15 DEF IInv

(***************************************************************************)
(* The invariant holds in every reachable state.                           *)
(***************************************************************************)
THEOREM IoInvariant == Spec => []IInv
<1> USE IoAssumption
<1>1. ASSUME IInv, [Next]_vars
      PROVE  IInv'
  <2>1. /\ writer \in End /\ reader \in End /\ sent \in Nat /\ counted \in Nat
        /\ writer.ndone \in Nat /\ reader.ndone \in Nat
        /\ writer.at # "loop" => writer.ndone = 0
        /\ reader.at # "loop" => reader.ndone = 0
    BY <1>1 DEF IInv, Types, LocalsMatch, End
  \* Steps that move no byte only have to keep the sums.
  <2>2. ASSUME writer' \in End, reader' \in End, sent' \in Nat, counted' \in Nat,
               UNCHANGED <<pipe, received>>,
               writer'.ndone <= writer'.nbytes, reader'.ndone <= reader'.nbytes,
               writer'.at # "loop" => writer'.ndone = 0,
               reader'.at # "loop" => reader'.ndone = 0,
               sent' + writer'.ndone = sent + writer.ndone,
               counted' + reader'.ndone = counted + reader.ndone
        PROVE  IInv'
    BY <1>1, <2>2 DEF IInv, Types, LocalsMatch, InOrder
  <2>3. ASSUME NEW n \in 1..MaxLen, qp_fd_writen(n)
        PROVE  IInv'
    <3>1. /\ writer.at = "ready" /\ writer' = [at |-> "loop", nbytes |-> n, ndone |-> 0]
          /\ UNCHANGED <<pipe, reader, sent, received, counted>>
      BY <2>3 DEF qp_fd_writen
    <3>2. writer' \in End /\ writer'.ndone = 0 /\ writer'.nbytes = n /\ writer'.at = "loop"
      BY <3>1 DEF End
    <3>3. reader.ndone <= reader.nbytes
      BY <1>1 DEF IInv, LocalsMatch
    <3> QED
      BY <2>1, <2>2, <3>1, <3>2, <3>3
  <2>4. ASSUME NEW n \in 1..MaxLen, qp_fd_readn(n)
        PROVE  IInv'
    <3>1. /\ reader.at = "ready" /\ reader' = [at |-> "loop", nbytes |-> n, ndone |-> 0]
          /\ UNCHANGED <<pipe, writer, sent, received, counted>>
      BY <2>4 DEF qp_fd_readn
    <3>2. reader' \in End /\ reader'.ndone = 0 /\ reader'.nbytes = n /\ reader'.at = "loop"
      BY <3>1 DEF End
    <3>3. writer.ndone <= writer.nbytes
      BY <1>1 DEF IInv, LocalsMatch
    <3> QED
      BY <2>1, <2>2, <3>1, <3>2, <3>3
  <2>5. CASE WriteBroken \/ WriteFails
    <3>1. writer' = Idle /\ sent' = sent + writer.ndone /\ UNCHANGED <<pipe, reader, received, counted>>
      BY <2>5 DEF WriteBroken, WriteFails, WriteReturns
    <3>2. writer' \in End /\ writer'.ndone = 0 /\ writer'.nbytes = 0 /\ writer'.at = "ready"
      BY <3>1 DEF End, Idle
    <3>3. reader.ndone <= reader.nbytes
      BY <1>1 DEF IInv, LocalsMatch
    <3> QED
      BY <2>1, <2>2, <3>1, <3>2, <3>3
  <2>6. CASE ReadZero \/ ReadFails
    <3>1. reader' = Idle /\ counted' = counted + reader.ndone /\ UNCHANGED <<pipe, writer, sent, received>>
      BY <2>6 DEF ReadZero, ReadFails, ReadReturns
    <3>2. reader' \in End /\ reader'.ndone = 0 /\ reader'.nbytes = 0 /\ reader'.at = "ready"
      BY <3>1 DEF End, Idle
    <3>3. writer.ndone <= writer.nbytes
      BY <1>1 DEF IInv, LocalsMatch
    <3> QED
      BY <2>1, <2>2, <3>1, <3>2, <3>3
  <2>7. CASE CloseWriter
    BY <1>1, <2>1, <2>2, <2>7 DEF CloseWriter, End, IInv, LocalsMatch
  <2>8. CASE CloseReader
    BY <1>1, <2>1, <2>2, <2>8 DEF CloseReader, End, IInv, LocalsMatch
  <2>9. CASE UNCHANGED vars
    BY <1>1, <2>9 DEF vars, IInv, Types, LocalsMatch, InOrder
  <2> QED
    BY <1>1, <2>3, <2>4, <2>5, <2>6, <2>7, <2>8, <2>9, WriteSomeInv, ReadSomeInv
       DEF Next, Writing, Reading
<1> QED
  BY <1>1, IoInit, PTL DEF Spec

(***************************************************************************)
(* However the kernel cuts up the transfers of qp_fd_writen and            *)
(* qp_fd_readn, what has arrived and what is on the way are what was sent, *)
(* in order, and the counts reported are right.                            *)
(***************************************************************************)
THEOREM IoStreamExact == Spec => []StreamExact
<1>1. ASSUME IInv
      PROVE  StreamExact
  <2>1. /\ pipe \in Seq(Nat) /\ received \in Seq(Nat) /\ Len(pipe) \in Nat /\ Len(received) \in Nat
        /\ Len(received) + Len(pipe) = sent + writer.ndone
        /\ \A i \in 1..Len(received) : received[i] = i
        /\ \A i \in 1..Len(pipe) : pipe[i] = Len(received) + i
        /\ Len(received) = counted + reader.ndone
    BY <1>1 DEF IInv, Types, InOrder
  <2> DEFINE all == received \o pipe
  <2>2. /\ all \in Seq(Nat) /\ Len(all) = Len(received) + Len(pipe)
        /\ \A i \in 1..Len(received) : all[i] = received[i]
        /\ \A i \in 1..Len(pipe) : all[Len(received) + i] = pipe[i]
    BY <2>1, Concat
  <2> HIDE DEF all
  <2>3. ASSUME NEW i \in 1..Len(all)
        PROVE  all[i] = i
    <3>1. CASE i \in 1..Len(received)
      BY <2>1, <2>2, <3>1
    <3>2. CASE i \in (Len(received) + 1)..(Len(received) + Len(pipe))
      <4>1. i - Len(received) \in 1..Len(pipe) /\ i = Len(received) + (i - Len(received))
        BY <2>1, <3>2
      <4> QED
        BY <2>1, <2>2, <4>1
    <3> QED
      BY <2>1, <2>2, <3>1, <3>2
  <2>4. all = [i \in 1..Len(all) |-> i]
    BY <2>2, <2>3
  <2> QED
    BY <2>1, <2>2, <2>4 DEF StreamExact, all
<1> QED
  BY <1>1, IoInvariant, PTL

(***************************************************************************)
(* A qp_fd_readn that no error ended returns less than it was asked for    *)
(* only when the writer has closed and everything sent was read, such a    *)
(* qp_fd_writen only when the reader has closed.                           *)
(***************************************************************************)
THEOREM IoShortOnlyAtEnd == Spec => ShortOnlyAtEnd
<1> USE IoAssumption
<1>1. ASSUME IInv, [Next]_vars
      PROVE  [/\ (/\ reader.at = "loop" /\ reader'.at = "ready" /\ "reader" \notin failed'
                  /\ counted' - counted < reader.nbytes)
                   => writer.at = "closed" /\ Len(received') = sent
              /\ (/\ writer.at = "loop" /\ writer'.at = "ready" /\ "writer" \notin failed'
                  /\ sent' - sent < writer.nbytes)
                   => reader.at = "closed"]_vars
  <2>1. /\ writer \in End /\ reader \in End /\ sent \in Nat /\ counted \in Nat
        /\ writer.ndone \in Nat /\ reader.ndone \in Nat
        /\ writer.nbytes \in Nat /\ reader.nbytes \in Nat
        /\ writer.at # "loop" => writer.ndone = 0
    BY <1>1 DEF IInv, Types, LocalsMatch, End
  <2>2. ASSUME reader.at = "loop", reader'.at = "ready", "reader" \notin failed',
               counted' - counted < reader.nbytes, Next
        PROVE  writer.at = "closed" /\ Len(received') = sent
    <3>1. ReadZero
      <4>1. ASSUME NEW k, ReadSome(k)
            PROVE  FALSE
        BY <2>1, <2>2, <4>1 DEF ReadSome, End
      <4> QED
        BY <2>2, <4>1 DEF Next, Writing, Reading, WriteBroken, WriteSome, WriteFails, ReadFails,
           qp_fd_writen, qp_fd_readn, CloseWriter, CloseReader
    <3>2. counted' - counted = reader.ndone
      BY <2>1, <3>1 DEF ReadZero, ReadReturns
    <3>3. EndOfStream /\ received' = received
      BY <2>1, <2>2, <3>1, <3>2 DEF ReadZero, ReadReturns
    <3>4. pipe = <<>> /\ writer.at = "closed" /\ writer.ndone = 0 /\ Len(pipe) = 0
      BY <2>1, <3>3 DEF EndOfStream
    <3> QED
      BY <1>1, <2>1, <3>3, <3>4 DEF IInv, InOrder, Types
  <2>3. ASSUME writer.at = "loop", writer'.at = "ready", "writer" \notin failed',
               sent' - sent < writer.nbytes, Next
        PROVE  reader.at = "closed"
    <3>1. ASSUME NEW k \in 1..Capacity, WriteSome(k)
          PROVE  FALSE
      <4>1. CASE writer' = [writer EXCEPT !.ndone = writer.ndone + k]
        BY <2>1, <2>3, <4>1 DEF End
      <4>2. CASE writer.ndone + k = writer.nbytes /\ sent' = sent + (writer.ndone + k)
        BY <2>1, <2>3, <4>2
      <4> QED
        BY <3>1, <4>1, <4>2 DEF WriteSome, WriteReturns
    <3>2. WriteBroken
      BY <2>3, <3>1 DEF Next, Writing, Reading, ReadSome, ReadZero, ReadFails, ReadReturns,
         WriteFails, qp_fd_writen, qp_fd_readn, CloseWriter, CloseReader
    <3> QED
      BY <3>2 DEF WriteBroken
  <2> QED
    BY <1>1, <2>2, <2>3
<1> QED
  BY <1>1, IoInvariant, PTL DEF Spec, ShortOnlyAtEnd
=============================================================================
