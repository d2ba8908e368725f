--------------------------- MODULE QpManagerProof ---------------------------
(***************************************************************************)
(* Proofs about qp_manager_t and its pools, for every number of managers,  *)
(* of pools and of elements per pool.                                      *)
(***************************************************************************)
EXTENDS QpManager, TLAPS, FiniteSetTheorems

PoolType == [free : Seq(1..ECount), nfree : Nat, nsize : {ECount}]

Types ==
  /\ is_inited \in [Manager -> BOOLEAN]
  /\ pools_queue \in [Manager -> SUBSET PoolId]
  /\ available_pools \in [Manager -> Seq(PoolId)]
  /\ pool_count \in [Manager -> Nat] /\ nfree \in [Manager -> Int] /\ peak \in [Manager -> Nat]
  /\ pool \in [PoolId -> PoolType]
  /\ owner \in [PoolId -> Manager \cup {NULL}]
  /\ linked \in [PoolId -> BOOLEAN]
  /\ live \subseteq PoolId \X (1..ECount)

\* Every element of the pool with contents pl at address p is free or in held.
Chained(p, pl, held) ==
  /\ IsInjective(pl.free)
  /\ Range(pl.free) = {i \in 1..ECount : <<p, i>> \notin held}
  /\ pl.nfree = Len(pl.free)

Sound(m) ==
  /\ IsInjective(available_pools[m])
  /\ Range(available_pools[m]) = {p \in pools_queue[m] : pool[p].nfree > 0}
  /\ \A p \in pools_queue[m] : linked[p] <=> pool[p].nfree > 0
  /\ pool_count[m] = Cardinality(pools_queue[m])
  /\ nfree[m] + Cardinality(LiveOf(m)) = pool_count[m] * ECount
  /\ pool_count[m] * ECount < peak[m] + ECount

ManagerInv(m) ==
  /\ \A p \in pools_queue[m] : owner[p] = m /\ Chained(p, pool[p], live)
  /\ is_inited[m] => Sound(m)
  /\ ~is_inited[m] => pools_queue[m] = {}

LastInv == last.call = "alloc" /\ last.result = NULL => nfree[last.manager] = 0

(***************************************************************************)
(* The inductive invariant.  Instead of counting the free elements it says *)
(* that those a manager counts as free and those clients hold make up its  *)
(* pools.                                                                  *)
(***************************************************************************)
IInv ==
  /\ Types
  /\ \A e \in live : e[1] \in Allocated
  /\ \A m \in Manager : ManagerInv(m)
  /\ LastInv

-----------------------------------------------------------------------------
(* Lists without repetition *)

(***************************************************************************)
(* Pushing a new node on a list.                                           *)
(***************************************************************************)
LEMMA Pushed ==
  ASSUME NEW S, NEW s \in Seq(S), NEW x \in S, IsInjective(s), x \notin Range(s)
  PROVE  LET t == qp_list_push(s, x)
         IN  /\ t \in Seq(S) /\ Len(t) = Len(s) + 1 /\ t # <<>> /\ Head(t) = x
             /\ IsInjective(t) /\ Range(t) = Range(s) \cup {x}
<1> DEFINE t == qp_list_push(s, x)
<1>1. /\ t \in Seq(S) /\ Len(t) = Len(s) + 1 /\ t[1] = x /\ Len(s) \in Nat
      /\ \A i \in 1..Len(s) : t[i + 1] = s[i]
  BY DEF qp_list_push
<1>2. DOMAIN t = 1..(Len(s) + 1) /\ DOMAIN s = 1..Len(s)
  BY <1>1
<1>3. t # <<>> /\ Head(t) = x
  BY <1>1
<1> HIDE DEF t
<1>4. \A i \in 2..(Len(s) + 1) : i - 1 \in 1..Len(s) /\ t[i] = s[i - 1]
  <2> TAKE i \in 2..(Len(s) + 1)
  <2>1. i - 1 \in 1..Len(s) /\ (i - 1) + 1 = i
    BY <1>1
  <2> QED
    BY <1>1, <2>1
<1>5. Range(t) = Range(s) \cup {x}
  <2>1. \A y \in Range(t) : y \in Range(s) \cup {x}
    <3> TAKE y \in Range(t)
    <3>1. PICK i \in 1..(Len(s) + 1) : y = t[i]
      BY <1>2 DEF Range
    <3>2. i = 1 \/ i \in 2..(Len(s) + 1)
      BY <1>1
    <3> QED
      BY <1>1, <1>2, <1>4, <3>1, <3>2 DEF Range
  <2>2. x \in Range(t)
    <3>1. 1 \in DOMAIN t
      BY <1>1, <1>2
    <3> QED
      BY <1>1, <3>1 DEF Range
  <2>3. \A y \in Range(s) : y \in Range(t)
    <3> TAKE y \in Range(s)
    <3>1. PICK i \in 1..Len(s) : y = s[i]
      BY <1>2 DEF Range
    <3>2. i + 1 \in DOMAIN t
      BY <1>1, <1>2
    <3> QED
      BY <1>1, <3>1, <3>2 DEF Range
  <2> QED
    BY <2>1, <2>2, <2>3
<1>6. IsInjective(t)
  <2> SUFFICES ASSUME NEW a \in 1..(Len(s) + 1), NEW b \in 1..(Len(s) + 1), t[a] = t[b]
               PROVE  a = b
    BY <1>2 DEF IsInjective
  <2>1. \A i \in 2..(Len(s) + 1) : t[i] # x
    BY <1>2, <1>4 DEF Range
  <2>2. CASE a = 1 \/ b = 1
    <3>1. (a = 1 \/ a \in 2..(Len(s) + 1)) /\ (b = 1 \/ b \in 2..(Len(s) + 1))
      BY <1>1
    <3> QED
      BY <1>1, <2>1, <2>2, <3>1
  <2>3. CASE a \in 2..(Len(s) + 1) /\ b \in 2..(Len(s) + 1)
    <3>1. a - 1 = b - 1
      BY <1>2, <1>4, <2>3 DEF IsInjective
    <3> QED
      BY <1>1, <3>1
  <2> QED
    BY <1>1, <2>2, <2>3
<1> QED
  BY <1>1, <1>3, <1>5, <1>6 DEF t

(***************************************************************************)
(* Popping the first node of a list.                                       *)
(***************************************************************************)
LEMMA Popped ==
  ASSUME NEW S, NEW s \in Seq(S), s # <<>>, IsInjective(s)
  PROVE  LET t == qp_list_pop(s)
         IN  /\ qp_list_first(s) = Head(s) /\ Head(s) \in Range(s) /\ Head(s) \in S
             /\ t \in Seq(S) /\ Len(t) = Len(s) - 1
             /\ IsInjective(t) /\ Range(t) = Range(s) \ {Head(s)}
<1> DEFINE t == qp_list_pop(s)
<1>1. t = Tail(s) /\ qp_list_first(s) = Head(s)
  BY DEF qp_list_pop, qp_list_first, qp_list_is_empty
<1>2. /\ Len(s) \in Nat /\ Len(s) > 0 /\ t \in Seq(S) /\ Len(t) = Len(s) - 1
      /\ \A i \in 1..(Len(s) - 1) : t[i] = s[i + 1]
      /\ Head(s) = s[1]
  BY <1>1
<1>3. DOMAIN t = 1..(Len(s) - 1) /\ DOMAIN s = 1..Len(s) /\ 1 \in DOMAIN s
  BY <1>2
<1> HIDE DEF t
<1>4. Head(s) \in Range(s) /\ Head(s) \in S
  BY <1>2, <1>3 DEF Range
<1>5. IsInjective(t)
  <2> SUFFICES ASSUME NEW a \in 1..(Len(s) - 1), NEW b \in 1..(Len(s) - 1), t[a] = t[b]
               PROVE  a = b
    BY <1>3 DEF IsInjective
  <2>1. a + 1 \in DOMAIN s /\ b + 1 \in DOMAIN s
    BY <1>2, <1>3
  <2>2. a + 1 = b + 1
    BY <1>2, <2>1 DEF IsInjective
  <2> QED
    BY <2>2
<1>6. \A y \in Range(t) : y \in Range(s) \ {Head(s)}
  <2> TAKE y \in Range(t)
  <2>1. PICK i \in 1..(Len(s) - 1) : y = t[i]
    BY <1>3 DEF Range
  <2>2. i + 1 \in DOMAIN s /\ i + 1 # 1 /\ y = s[i + 1]
    BY <1>2, <1>3, <2>1
  <2> QED
    BY <1>2, <1>3, <2>2 DEF Range, IsInjective
<1>7. \A y \in Range(s) \ {Head(s)} : y \in Range(t)
  <2> TAKE y \in Range(s) \ {Head(s)}
  <2>1. PICK i \in 1..Len(s) : y = s[i]
    BY <1>3 DEF Range
  <2>2. i - 1 \in 1..(Len(s) - 1) /\ (i - 1) + 1 = i
    BY <1>2, <2>1
  <2>3. y = t[i - 1]
    BY <1>2, <2>1, <2>2
  <2> QED
    BY <1>3, <2>2, <2>3 DEF Range
<1> QED
  BY <1>1, <1>2, <1>4, <1>5, <1>6, <1>7 DEF t

(***************************************************************************)
(* The length of a list without repetition is the number of its members.   *)
(***************************************************************************)
LEMMA ListCounts ==
  ASSUME NEW S, NEW s \in Seq(S), IsInjective(s)
  PROVE  Cardinality(Range(s)) = Len(s)
<1>1. Len(s) \in Nat /\ s \in [1..Len(s) -> Range(s)] /\ DOMAIN s = 1..Len(s)
  BY DEF Range
<1>2. s \in Bijection(1..Len(s), Range(s))
  BY <1>1 DEF Bijection, Injection, Surjection, IsInjective, Range
<1>3. ExistsBijection(1..Len(s), Range(s))
  BY <1>2 DEF ExistsBijection
<1> QED
  BY <1>1, <1>3, FS_CountingElements

-----------------------------------------------------------------------------
(* Counting *)

(***************************************************************************)
(* The elements that clients hold are finitely many.                       *)
(***************************************************************************)
LEMMA LiveFinite ==
  ASSUME Types, NEW m
  PROVE  IsFiniteSet(LiveOf(m)) /\ Cardinality(LiveOf(m)) \in Nat
<1>1. IsFiniteSet(1..ECount) /\ IsFiniteSet(PoolId)
  BY ManagerAssumption, FS_Interval
<1>2. IsFiniteSet(PoolId \X (1..ECount))
  BY <1>1, FS_Product
<1>3. LiveOf(m) \in SUBSET (PoolId \X (1..ECount))
  BY DEF Types, LiveOf
<1>4. IsFiniteSet(LiveOf(m))
  BY <1>2, <1>3, FS_Subset
<1> QED
  BY <1>4, FS_CardinalityType

(***************************************************************************)
(* A manager's pools have ECount elements each.                            *)
(***************************************************************************)
LEMMA PoolElements ==
  ASSUME NEW Q \in SUBSET PoolId
  PROVE  /\ IsFiniteSet(Q) /\ Cardinality(Q) \in Nat
         /\ IsFiniteSet(Q \X (1..ECount))
         /\ Cardinality(Q \X (1..ECount)) = Cardinality(Q) * ECount
<1>1. IsFiniteSet(1..ECount) /\ Cardinality(1..ECount) = ECount
  <2>1. 1 \in Int /\ ECount \in Int /\ ~(1 > ECount) /\ ECount - 1 + 1 = ECount
    BY ManagerAssumption
  <2> QED
    BY <2>1, FS_Interval
<1>2. IsFiniteSet(Q)
  BY ManagerAssumption, FS_Subset
<1> QED
  BY <1>1, <1>2, FS_Product, FS_CardinalityType

(***************************************************************************)
(* What clients hold from a manager lies in its pools.                     *)
(***************************************************************************)
LEMMA HeldInside ==
  ASSUME IInv, NEW m \in Manager
  PROVE  LiveOf(m) \subseteq pools_queue[m] \X (1..ECount)
<1>1. ASSUME NEW e \in LiveOf(m)
      PROVE  e \in pools_queue[m] \X (1..ECount)
  <2>1. e \in live /\ owner[e[1]] = m /\ e \in PoolId \X (1..ECount)
    BY DEF LiveOf, IInv, Types
  <2>2. PICK o \in Manager : e[1] \in pools_queue[o]
    BY <2>1 DEF IInv, Allocated
  <2>3. owner[e[1]] = o
    BY <2>2 DEF IInv, ManagerInv
  <2> QED
    BY <2>1, <2>2, <2>3
<1> QED
  BY <1>1

(***************************************************************************)
(* A manager without an available pool has nothing free.                   *)
(***************************************************************************)
LEMMA NoneFree ==
  ASSUME IInv, NEW m \in Manager, is_inited[m], available_pools[m] = <<>>
  PROVE  nfree[m] = 0 /\ Cardinality(LiveOf(m)) = pool_count[m] * ECount
<1>1. /\ Types /\ Sound(m) /\ pools_queue[m] \in SUBSET PoolId
      /\ \A p \in pools_queue[m] : owner[p] = m /\ Chained(p, pool[p], live)
  BY DEF IInv, ManagerInv, Types
<1>2. ASSUME NEW p \in pools_queue[m], NEW i \in 1..ECount
      PROVE  <<p, i>> \in LiveOf(m)
  <2>1. pool[p] \in PoolType /\ pool[p].free \in Seq(1..ECount) /\ pool[p].nfree \in Nat
    BY <1>1 DEF Types, PoolType
  <2>2. Range(available_pools[m]) = {}
    BY DEF Range
  <2>3. ~(pool[p].nfree > 0)
    BY <1>1, <2>2 DEF Sound
  <2>4. Len(pool[p].free) = 0
    BY <1>1, <2>1, <2>3 DEF Chained
  <2>5. Range(pool[p].free) = {}
    BY <2>1, <2>4 DEF Range
  <2> QED
    BY <1>1, <2>5 DEF Chained, LiveOf
<1>3. LiveOf(m) = pools_queue[m] \X (1..ECount)
  BY <1>2, HeldInside
<1>4. Cardinality(LiveOf(m)) = pool_count[m] * ECount
  BY <1>1, <1>3, PoolElements DEF Sound
<1>5. nfree[m] \in Int /\ Cardinality(LiveOf(m)) \in Nat
  BY <1>1, LiveFinite DEF Types
<1> QED
  BY <1>1, <1>4, <1>5 DEF Sound

(***************************************************************************)
(* What no step of another manager can disturb.                            *)
(***************************************************************************)
LEMMA OthersKept ==
  ASSUME NEW m \in Manager, ManagerInv(m),
         is_inited'[m] = is_inited[m], pools_queue'[m] = pools_queue[m],
         available_pools'[m] = available_pools[m], pool_count'[m] = pool_count[m],
         nfree'[m] = nfree[m], peak'[m] = peak[m], LiveOf(m)' = LiveOf(m),
         \A p \in pools_queue[m] :
           /\ pool'[p] = pool[p] /\ owner'[p] = owner[p] /\ linked'[p] = linked[p]
           /\ \A i \in 1..ECount : <<p, i>> \in live' <=> <<p, i>> \in live
  PROVE  ManagerInv(m)'
<1>1. \A p \in pools_queue[m] : owner'[p] = m /\ Chained(p, pool[p], live)'
  BY DEF ManagerInv, Chained
<1>2. Sound(m) => Sound(m)'
  BY DEF Sound
<1> QED
  BY <1>1, <1>2 DEF ManagerInv

-----------------------------------------------------------------------------
(* The steps *)

(***************************************************************************)
(* The part of qp_manager_alloc that both ways share: p, with the contents *)
(* pl, is first in the list avail of the pools that have a free element,   *)
(* and from then on one of the manager's count pools.                      *)
(***************************************************************************)
LEMMA TakeFromInv ==
  ASSUME IInv, NEW m \in Manager, NEW p \in PoolId, NEW pl \in PoolType,
         NEW avail \in Seq(PoolId), NEW free \in Int, NEW count \in Nat,
         TakeFrom(m, p, pl, avail, free),
         is_inited[m], is_inited' = is_inited,
         Chained(p, pl, live),
         avail # <<>>, Head(avail) = p, IsInjective(avail),
         Range(avail) = {q \in pools_queue[m] \ {p} : pool[q].nfree > 0} \cup {p},
         \A o \in Manager \ {m} : p \notin pools_queue[o],
         \A e \in live : e[1] = p => owner[p] = m,
         pools_queue' = [pools_queue EXCEPT ![m] = pools_queue[m] \cup {p}],
         owner' = [owner EXCEPT ![p] = m],
         pool_count' = [pool_count EXCEPT ![m] = count],
         count = Cardinality(pools_queue[m] \cup {p}),
         free + Cardinality(LiveOf(m)) = count * ECount,
         count * ECount < peak'[m] + ECount
  PROVE  IInv'
<1> DEFINE k == Head(pl.free)
           e == <<p, k>>
           rest == qp_list_pop(pl.free)
           after == qp_pool_alloc(pl)
           avail2 == IF after.nfree < 1 THEN qp_list_pop(avail) ELSE avail
<1> USE ManagerAssumption
<1>1. Types /\ pl.free \in Seq(1..ECount) /\ pl.nfree \in Nat /\ pl.nfree > 0
      /\ pl.nfree = Len(pl.free) /\ IsInjective(pl.free) /\ pl.free # <<>>
  <2>1. Types /\ pl.free \in Seq(1..ECount) /\ pl.nfree \in Nat
    BY DEF IInv, PoolType
  <2>2. pl.nfree > 0
    BY DEF TakeFrom, qp_pool_can_alloc, qp_pool_available
  <2>3. pl.nfree = Len(pl.free) /\ IsInjective(pl.free)
    BY DEF Chained
  <2> QED
    BY <2>1, <2>2, <2>3
<1>2. /\ qp_pool_element(pl) = k /\ k \in Range(pl.free) /\ k \in 1..ECount
      /\ rest \in Seq(1..ECount) /\ Len(rest) = Len(pl.free) - 1
      /\ IsInjective(rest) /\ Range(rest) = Range(pl.free) \ {k}
  BY <1>1, Popped DEF qp_pool_element
<1>3. e \notin live /\ e \in PoolId \X (1..ECount) /\ e[1] = p
  BY <1>2 DEF Chained
<1>4. /\ after \in PoolType /\ after.free = rest /\ after.nfree = pl.nfree - 1
      /\ after.nfree \in Nat /\ after.nfree = Len(rest)
  <2>1. after = [pl EXCEPT !.free = rest, !.nfree = pl.nfree - 1] /\ pl.nfree - 1 \in Nat
    BY <1>1 DEF qp_pool_alloc
  <2> HIDE DEF after, rest
  <2>2. after \in PoolType /\ after.free = rest /\ after.nfree = pl.nfree - 1
    BY <1>2, <2>1 DEF PoolType
  <2> QED
    BY <1>1, <1>2, <2>1, <2>2
<1>5. /\ pool' = [pool EXCEPT ![p] = after]
      /\ nfree' = [nfree EXCEPT ![m] = free - 1]
      /\ available_pools' = [available_pools EXCEPT ![m] = avail2]
      /\ linked' = [linked EXCEPT ![p] = ~(after.nfree < 1)]
      /\ live' = live \cup {e}
      /\ last' = [call |-> "alloc", manager |-> m, result |-> "element"]
  BY <1>2 DEF TakeFrom, Called, qp_pool_available
<1>6. peak' \in [Manager -> Nat] /\ \A o \in Manager \ {m} : peak'[o] = peak[o]
  <2> DEFINE n == Cardinality(LiveOf(m)) + 1
             top == IF n > peak[m] THEN n ELSE peak[m]
  <2>1. peak' = [peak EXCEPT ![m] = top]
    BY <1>1 DEF TakeFrom, Types
  <2>2. top \in Nat
    <3>1. Cardinality(LiveOf(m)) \in Nat
      BY <1>1, LiveFinite
    <3>2. peak[m] \in Nat
      BY <1>1 DEF Types
    <3> QED
      BY <3>1, <3>2
  <2> HIDE DEF top
  <2> QED
    BY <1>1, <2>1, <2>2 DEF Types
<1> HIDE DEF k, rest, after
<1>7. Chained(p, after, live')
  <2>1. {i \in 1..ECount : <<p, i>> \notin live'} = {i \in 1..ECount : <<p, i>> \notin live} \ {k}
    BY <1>5
  <2> QED
    BY <1>2, <1>4, <2>1 DEF Chained
<1>8. /\ avail2 \in Seq(PoolId) /\ IsInjective(avail2)
      /\ Range(avail2) = IF after.nfree < 1 THEN Range(avail) \ {p} ELSE Range(avail)
  BY Popped
<1> HIDE DEF avail2
<1>9. Types'
  <2>1. free - 1 \in Int /\ (~(after.nfree < 1)) \in BOOLEAN
    OBVIOUS
  <2>2. /\ pool' \in [PoolId -> PoolType] /\ nfree' \in [Manager -> Int]
        /\ linked' \in [PoolId -> BOOLEAN] /\ available_pools' \in [Manager -> Seq(PoolId)]
    BY <1>1, <1>4, <1>5, <1>8, <2>1 DEF Types
  <2>3. /\ pools_queue' \in [Manager -> SUBSET PoolId] /\ pool_count' \in [Manager -> Nat]
        /\ owner' \in [PoolId -> Manager \cup {NULL}]
    BY <1>1 DEF Types
  <2>4. live' \subseteq PoolId \X (1..ECount)
    BY <1>1, <1>3, <1>5 DEF Types
  <2> QED
    BY <1>1, <1>6, <2>2, <2>3, <2>4 DEF Types
<1>10. /\ pools_queue'[m] = pools_queue[m] \cup {p}
       /\ \A o \in Manager \ {m} : pools_queue'[o] = pools_queue[o]
       /\ owner'[p] = m /\ \A q \in PoolId \ {p} : owner'[q] = owner[q]
       /\ pool'[p] = after /\ \A q \in PoolId \ {p} : pool'[q] = pool[q]
       /\ linked'[p] = ~(after.nfree < 1) /\ \A q \in PoolId \ {p} : linked'[q] = linked[q]
       /\ pool_count'[m] = count /\ nfree'[m] = free - 1 /\ available_pools'[m] = avail2
       /\ \A o \in Manager \ {m} : /\ pool_count'[o] = pool_count[o] /\ nfree'[o] = nfree[o]
                                   /\ available_pools'[o] = available_pools[o]
  BY <1>1, <1>5 DEF Types
<1>11. ASSUME NEW x \in live'
       PROVE  x[1] \in Allocated'
  <2>1. CASE x = e
    BY <1>10, <2>1 DEF Allocated
  <2>2. CASE x \in live
    <3>1. PICK o \in Manager : x[1] \in pools_queue[o]
      BY <2>2 DEF IInv, Allocated
    <3>2. x[1] \in pools_queue'[o]
      BY <1>10, <3>1
    <3> QED
      BY <3>2 DEF Allocated
  <2> QED
    BY <1>5, <1>11, <2>1, <2>2
<1>12. ASSUME NEW o \in Manager \ {m}
       PROVE  ManagerInv(o)'
  <2>1. ManagerInv(o) /\ p \notin pools_queue[o] /\ pools_queue[o] \subseteq PoolId
    BY <1>1 DEF IInv, Types
  <2>2. LiveOf(o)' = LiveOf(o)
    <3>1. ASSUME NEW x \in live
          PROVE  x[1] \in PoolId /\ (owner'[x[1]] = o <=> owner[x[1]] = o)
      BY <1>1, <1>10, <3>1 DEF Types
    <3>2. owner'[e[1]] # o
      BY <1>3, <1>10
    <3> QED
      BY <1>5, <3>1, <3>2 DEF LiveOf
  <2>3. \A q \in pools_queue[o] :
          /\ pool'[q] = pool[q] /\ owner'[q] = owner[q] /\ linked'[q] = linked[q]
          /\ \A i \in 1..ECount : <<q, i>> \in live' <=> <<q, i>> \in live
    BY <1>5, <1>10, <2>1
  <2> QED
    BY <1>6, <1>10, <2>1, <2>2, <2>3, OthersKept
<1>13. \A q \in pools_queue'[m] : owner'[q] = m /\ Chained(q, pool[q], live)'
  <2> TAKE q \in pools_queue'[m]
  <2>1. CASE q = p
    BY <1>7, <1>10, <2>1 DEF Chained
  <2>2. CASE q # p
    <3>1. q \in pools_queue[m] /\ q \in PoolId
      BY <1>1, <1>10, <2>2 DEF Types
    <3>2. owner[q] = m /\ Chained(q, pool[q], live)
      BY <3>1 DEF IInv, ManagerInv
    <3>3. \A i \in 1..ECount : <<q, i>> \in live' <=> <<q, i>> \in live
      BY <1>5, <2>2
    <3> QED
      BY <1>10, <2>2, <3>1, <3>2, <3>3 DEF Chained
  <2> QED
    BY <2>1, <2>2
<1>14. Sound(m)'
  <2>1. Range(available_pools'[m]) = {q \in pools_queue'[m] : pool'[q].nfree > 0}
    <3>1. \A q \in pools_queue[m] \ {p} : q \in PoolId /\ pool'[q] = pool[q]
      BY <1>1, <1>10 DEF Types
    <3>2. {q \in pools_queue'[m] : pool'[q].nfree > 0} =
            {q \in pools_queue[m] \ {p} : pool[q].nfree > 0} \cup {q \in {p} : after.nfree > 0}
      BY <1>10, <3>1
    <3>3. CASE after.nfree < 1
      <4>1. ~(after.nfree > 0)
        BY <1>4, <3>3
      <4> QED
        BY <1>8, <1>10, <3>2, <3>3, <4>1
    <3>4. CASE ~(after.nfree < 1)
      <4>1. after.nfree > 0
        BY <1>4, <3>4
      <4> QED
        BY <1>8, <1>10, <3>2, <3>4, <4>1
    <3> QED
      BY <3>3, <3>4
  <2>2. \A q \in pools_queue'[m] : linked'[q] <=> pool'[q].nfree > 0
    <3> TAKE q \in pools_queue'[m]
    <3>1. CASE q = p
      <4>1. ~(after.nfree < 1) <=> after.nfree > 0
        BY <1>4
      <4> QED
        BY <1>10, <3>1, <4>1
    <3>2. CASE q # p
      <4>1. q \in pools_queue[m] /\ q \in PoolId
        BY <1>1, <1>10, <3>2 DEF Types
      <4>2. linked[q] <=> pool[q].nfree > 0
        BY <4>1 DEF IInv, ManagerInv, Sound
      <4> QED
        BY <1>10, <3>2, <4>1, <4>2
    <3> QED
      BY <3>1, <3>2
  <2>3. LiveOf(m)' = LiveOf(m) \cup {e} /\ e \notin LiveOf(m)
    <3>1. ASSUME NEW x \in live
          PROVE  x[1] \in PoolId /\ (owner'[x[1]] = m <=> owner[x[1]] = m)
      BY <1>1, <1>10, <3>1 DEF Types
    <3>2. owner'[e[1]] = m
      BY <1>3, <1>10
    <3> QED
      BY <1>3, <1>5, <3>1, <3>2 DEF LiveOf
  <2>4. Cardinality(LiveOf(m)') = Cardinality(LiveOf(m)) + 1 /\ Cardinality(LiveOf(m)) \in Nat
    <3>1. IsFiniteSet(LiveOf(m)) /\ Cardinality(LiveOf(m)) \in Nat
      BY <1>1, LiveFinite
    <3> HIDE DEF e
    <3>2. Cardinality(LiveOf(m) \cup {e}) = Cardinality(LiveOf(m)) + 1
      BY <2>3, <3>1, FS_AddElement
    <3> QED
      BY <2>3, <3>1, <3>2
  <2>5. nfree'[m] + Cardinality(LiveOf(m)') = pool_count'[m] * ECount
    BY <1>10, <2>4
  <2> QED
    BY <1>8, <1>10, <2>1, <2>2, <2>5 DEF Sound
<1>15. ManagerInv(m)'
  BY <1>13, <1>14 DEF ManagerInv
<1>16. LastInv'
  BY <1>5 DEF LastInv
<1> QED
  BY <1>9, <1>11, <1>12, <1>15, <1>16 DEF IInv

(***************************************************************************)
(* An allocation's effect on the history of the most elements held.        *)
(***************************************************************************)
LEMMA PeakGrows ==
  ASSUME Types, NEW m \in Manager, NEW p, NEW pl, NEW avail, NEW free,
         TakeFrom(m, p, pl, avail, free)
  PROVE  /\ peak[m] \in Nat /\ peak'[m] \in Nat /\ peak'[m] >= peak[m]
         /\ peak'[m] >= Cardinality(LiveOf(m)) + 1
<1> DEFINE n == Cardinality(LiveOf(m)) + 1
           top == IF n > peak[m] THEN n ELSE peak[m]
<1>1. Cardinality(LiveOf(m)) \in Nat
  BY LiveFinite
<1>2. peak[m] \in Nat /\ peak' = [peak EXCEPT ![m] = top]
  BY DEF TakeFrom, Types
<1>3. top \in Nat /\ top >= peak[m] /\ top >= n
  BY <1>1, <1>2
<1> HIDE DEF top
<1>4. peak'[m] = top
  BY <1>2 DEF Types
<1> QED
  BY <1>2, <1>3, <1>4

(***************************************************************************)
(* A new pool's elements are all free and chained once.                    *)
(***************************************************************************)
LEMMA NewPool ==
  LET pl == qp_pool_init(ECount)
  IN  /\ pl \in PoolType /\ IsInjective(pl.free) /\ Range(pl.free) = 1..ECount
      /\ pl.nfree = Len(pl.free)
<1> DEFINE f == [i \in 1..ECount |-> ECount + 1 - i]
<1>1. ECount \in Nat
  BY ManagerAssumption
<1>2. \A i \in 1..ECount : ECount + 1 - i \in 1..ECount /\ ECount + 1 - (ECount + 1 - i) = i
  BY <1>1
<1>3. f \in Seq(1..ECount) /\ Len(f) = ECount /\ DOMAIN f = 1..ECount
  BY <1>1, <1>2
<1>4. \A i \in 1..ECount : f[i] = ECount + 1 - i
  OBVIOUS
<1> HIDE DEF f
<1>5. IsInjective(f)
  <2> SUFFICES ASSUME NEW a \in 1..ECount, NEW b \in 1..ECount, f[a] = f[b]
               PROVE  a = b
    BY <1>3 DEF IsInjective
  <2> QED
    BY <1>1, <1>4
<1>6. Range(f) = 1..ECount
  <2>1. \A y \in Range(f) : y \in 1..ECount
    BY <1>2, <1>3, <1>4 DEF Range
  <2>2. \A y \in 1..ECount : y = f[ECount + 1 - y] /\ ECount + 1 - y \in DOMAIN f
    BY <1>2, <1>3, <1>4
  <2> QED
    BY <2>1, <2>2 DEF Range
<1>7. qp_pool_init(ECount) = [free |-> f, nfree |-> ECount, nsize |-> ECount]
  BY DEF qp_pool_init, f
<1> QED
  BY <1>1, <1>3, <1>5, <1>6, <1>7 DEF PoolType

(***************************************************************************)
(* An allocation from a pool that has a free element keeps the invariant.  *)
(***************************************************************************)
LEMMA AllocFromAvailableInv ==
  ASSUME IInv, NEW m \in Manager, AllocFromAvailable(m)
  PROVE  IInv'
<1> DEFINE avail == available_pools[m]
           p == Head(avail)
<1>1. /\ Types /\ is_inited[m] /\ Sound(m)
      /\ \A q \in pools_queue[m] : owner[q] = m /\ Chained(q, pool[q], live)
  BY DEF IInv, ManagerInv, AllocFromAvailable
<1>2. avail \in Seq(PoolId) /\ avail # <<>> /\ IsInjective(avail)
  BY <1>1 DEF Types, Sound, AllocFromAvailable, qp_list_is_empty
<1>3. p \in Range(avail) /\ p \in PoolId /\ qp_list_first(avail) = p
  BY <1>2, Popped
<1>4. p \in pools_queue[m] /\ owner[p] = m /\ Chained(p, pool[p], live)
      /\ Range(avail) = {q \in pools_queue[m] : pool[q].nfree > 0}
  BY <1>1, <1>3 DEF Sound
<1>5. TakeFrom(m, p, pool[p], avail, nfree[m])
  BY <1>3 DEF AllocFromAvailable
<1> HIDE DEF avail, p
<1>6. /\ pool[p] \in PoolType /\ nfree[m] \in Int /\ pool_count[m] \in Nat
      /\ pools_queue[m] \cup {p} = pools_queue[m]
  BY <1>1, <1>3, <1>4 DEF Types
<1>7. /\ is_inited' = is_inited
      /\ pools_queue' = [pools_queue EXCEPT ![m] = pools_queue[m] \cup {p}]
      /\ owner' = [owner EXCEPT ![p] = m]
      /\ pool_count' = [pool_count EXCEPT ![m] = pool_count[m]]
  BY <1>1, <1>3, <1>4, <1>6 DEF Types, AllocFromAvailable
<1>8. /\ pool_count[m] = Cardinality(pools_queue[m] \cup {p})
      /\ nfree[m] + Cardinality(LiveOf(m)) = pool_count[m] * ECount
      /\ pool_count[m] * ECount < peak[m] + ECount
  BY <1>1, <1>6 DEF Sound
<1>9. pool_count[m] * ECount < peak'[m] + ECount
  <2>1. peak[m] \in Nat /\ peak'[m] \in Nat /\ peak'[m] >= peak[m]
    BY <1>1, <1>5, PeakGrows
  <2>2. pool_count[m] * ECount \in Nat /\ ECount \in Nat
    BY <1>6, ManagerAssumption
  <2>3. \A a, b, c, d \in Nat : a < b + d /\ c >= b => a < c + d
    OBVIOUS
  <2> QED
    BY <1>8, <2>1, <2>2, <2>3
<1>10. Range(avail) = {q \in pools_queue[m] \ {p} : pool[q].nfree > 0} \cup {p}
  BY <1>3, <1>4
<1>11. \A o \in Manager \ {m} : p \notin pools_queue[o]
  BY <1>4 DEF IInv, ManagerInv
<1>12. \A e \in live : e[1] = p => owner[p] = m
  BY <1>4
<1>13. Head(avail) = p
  BY DEF p
<1> QED
  BY <1>1, <1>2, <1>3, <1>4, <1>5, <1>6, <1>7, <1>8, <1>9, <1>10, <1>11, <1>12, <1>13,
     TakeFromInv

(***************************************************************************)
(* So does one that has to add a pool: nothing was free, so all were held. *)
(***************************************************************************)
LEMMA AllocFromNewPoolInv ==
  ASSUME IInv, NEW m \in Manager, NEW p \in PoolId, AllocFromNewPool(m, p)
  PROVE  IInv'
<1> DEFINE pl == qp_pool_init(ECount)
           avail == qp_list_push(available_pools[m], p)
<1>1. /\ Types /\ is_inited[m] /\ Sound(m) /\ available_pools[m] = <<>>
      /\ pools_queue[m] \in SUBSET PoolId /\ pool_count[m] \in Nat /\ nfree[m] \in Int
  BY DEF IInv, ManagerInv, AllocFromNewPool, qp_list_is_empty, Types
<1>2. /\ \A o \in Manager : p \notin pools_queue[o]
      /\ \A e \in live : e[1] # p
  BY DEF AllocFromNewPool, Allocated, IInv
<1>3. nfree[m] = 0 /\ Cardinality(LiveOf(m)) = pool_count[m] * ECount
  BY <1>1, NoneFree
<1>4. Range(available_pools[m]) = {} /\ IsInjective(available_pools[m])
      /\ available_pools[m] \in Seq(PoolId)
  BY <1>1 DEF Range, IsInjective, Types
<1>5. /\ avail \in Seq(PoolId) /\ avail # <<>> /\ Head(avail) = p
      /\ IsInjective(avail) /\ Range(avail) = {p}
  BY <1>4, Pushed
<1>6. pl \in PoolType /\ Chained(p, pl, live)
  BY <1>2, NewPool DEF Chained
<1>7. TakeFrom(m, p, pl, avail, nfree[m] + ECount)
  BY DEF AllocFromNewPool
<1> HIDE DEF pl, avail
<1>8. Range(avail) = {q \in pools_queue[m] \ {p} : pool[q].nfree > 0} \cup {p}
  BY <1>1, <1>4, <1>5 DEF Sound
<1>9. /\ is_inited' = is_inited
      /\ pools_queue' = [pools_queue EXCEPT ![m] = pools_queue[m] \cup {p}]
      /\ owner' = [owner EXCEPT ![p] = m]
      /\ pool_count' = [pool_count EXCEPT ![m] = pool_count[m] + 1]
  BY <1>1 DEF Types, AllocFromNewPool
<1>10. pool_count[m] + 1 = Cardinality(pools_queue[m] \cup {p}) /\ pool_count[m] + 1 \in Nat
  <2>1. IsFiniteSet(pools_queue[m]) /\ pool_count[m] = Cardinality(pools_queue[m])
    BY <1>1, PoolElements DEF Sound
  <2>2. p \notin pools_queue[m]
    BY <1>2
  <2>3. Cardinality(pools_queue[m] \cup {p}) = Cardinality(pools_queue[m]) + 1
    BY <2>1, <2>2, FS_AddElement
  <2> QED
    BY <1>1, <2>1, <2>3
<1>11. /\ (pool_count[m] + 1) * ECount = pool_count[m] * ECount + ECount
       /\ pool_count[m] * ECount \in Nat /\ ECount \in Nat
  BY <1>1, ManagerAssumption
<1>12. nfree[m] + ECount \in Int
       /\ (nfree[m] + ECount) + Cardinality(LiveOf(m)) = (pool_count[m] + 1) * ECount
  BY <1>3, <1>11
<1>13. (pool_count[m] + 1) * ECount < peak'[m] + ECount
  <2>1. peak'[m] \in Nat /\ peak'[m] >= pool_count[m] * ECount + 1
    BY <1>1, <1>3, <1>7, PeakGrows
  <2>2. \A a, b, c \in Nat : b >= a + 1 => a + c < b + c
    OBVIOUS
  <2> QED
    BY <1>11, <2>1, <2>2
<1> DEFINE free == nfree[m] + ECount
           count == pool_count[m] + 1
<1>14. /\ free \in Int /\ count \in Nat /\ TakeFrom(m, p, pl, avail, free)
       /\ pool_count' = [pool_count EXCEPT ![m] = count]
       /\ count = Cardinality(pools_queue[m] \cup {p})
       /\ free + Cardinality(LiveOf(m)) = count * ECount
       /\ count * ECount < peak'[m] + ECount
  BY <1>7, <1>9, <1>10, <1>12, <1>13
<1> HIDE DEF free, count
<1>15. /\ \A o \in Manager \ {m} : p \notin pools_queue[o]
       /\ \A e \in live : e[1] = p => owner[p] = m
  BY <1>2
<1>16. /\ avail \in Seq(PoolId) /\ avail # <<>> /\ Head(avail) = p /\ IsInjective(avail)
       /\ is_inited[m] /\ is_inited' = is_inited
       /\ pools_queue' = [pools_queue EXCEPT ![m] = pools_queue[m] \cup {p}]
       /\ owner' = [owner EXCEPT ![p] = m]
  BY <1>1, <1>5, <1>9
<1> QED
  BY <1>6, <1>8, <1>14, <1>15, <1>16, TakeFromInv

(***************************************************************************)
(* A call that changes no manager.                                         *)
(***************************************************************************)
LEMMA Untouched ==
  ASSUME IInv, LastInv',
         UNCHANGED <<is_inited, pools_queue, available_pools, pool_count, nfree,
                     pool, owner, linked, live, peak>>
  PROVE  IInv'
<1>1. Types' /\ Allocated' = Allocated
  BY DEF IInv, Types, Allocated
<1>2. ASSUME NEW m \in Manager
      PROVE  ManagerInv(m)'
  <2>1. LiveOf(m)' = LiveOf(m) /\ ManagerInv(m)
    BY DEF LiveOf, IInv
  <2> QED
    BY <2>1, OthersKept
<1> QED
  BY <1>1, <1>2 DEF IInv

(***************************************************************************)
(* The calls that fail or are refused; one that fails found nothing free.  *)
(***************************************************************************)
LEMMA CallsWithoutEffect ==
  ASSUME IInv, NEW m \in Manager,
         \/ \E toobig \in BOOLEAN : AllocFails(m, toobig)
         \/ \E e \in live : FreeRefused(m, e)
  PROVE  IInv'
<1>1. UNCHANGED <<is_inited, pools_queue, available_pools, pool_count, nfree,
                  pool, owner, linked, live, peak>>
  BY DEF AllocFails, FreeRefused
<1>2. LastInv'
  <2>1. CASE \E e \in live : FreeRefused(m, e)
    BY <2>1 DEF FreeRefused, Called, LastInv
  <2>2. ASSUME NEW toobig \in BOOLEAN, AllocFails(m, toobig)
        PROVE  LastInv'
    <3>1. CASE toobig
      BY <2>2, <3>1 DEF AllocFails, Called, LastInv
    <3>2. CASE ~toobig
      <4>1. is_inited[m] /\ available_pools[m] = <<>>
        BY <2>2, <3>2 DEF AllocFails, qp_list_is_empty
      <4>2. nfree[m] = 0
        BY <4>1, NoneFree
      <4>3. last'.manager = m
        BY <2>2 DEF AllocFails, Called
      <4> QED
        BY <1>1, <4>2, <4>3 DEF LastInv
    <3> QED
      BY <3>1, <3>2
  <2> QED
    BY <2>1, <2>2
<1> QED
  BY <1>1, <1>2, Untouched

(***************************************************************************)
(* A manager that is created has no pool, so no client holds of its elements. *)
(***************************************************************************)
LEMMA ManagerInitInv ==
  ASSUME IInv, NEW m \in Manager, qp_manager_init(m)
  PROVE  IInv'
<1> USE DEF qp_manager_init
<1>1. Types /\ pools_queue[m] = {} /\ LiveOf(m) = {}
  <2>1. Types /\ pools_queue[m] = {}
    BY DEF IInv, ManagerInv
  <2> QED
    BY <2>1, HeldInside
<1>2. /\ is_inited'[m] = TRUE /\ pools_queue'[m] = {} /\ available_pools'[m] = <<>>
      /\ pool_count'[m] = 0 /\ nfree'[m] = 0 /\ peak'[m] = 0
      /\ \A o \in Manager \ {m} :
           /\ is_inited'[o] = is_inited[o] /\ pools_queue'[o] = pools_queue[o]
           /\ available_pools'[o] = available_pools[o] /\ pool_count'[o] = pool_count[o]
           /\ nfree'[o] = nfree[o] /\ peak'[o] = peak[o]
  BY <1>1 DEF Types
<1>3. Types'
  BY <1>1 DEF Types
<1>4. pools_queue' = pools_queue
  BY <1>1 DEF Types
<1>5. \A o : LiveOf(o)' = LiveOf(o)
  BY DEF LiveOf
<1>6. ASSUME NEW o \in Manager \ {m}
      PROVE  ManagerInv(o)'
  <2>1. ManagerInv(o)
    BY DEF IInv
  <2> QED
    BY <1>2, <1>5, <2>1, OthersKept
<1>7. Sound(m)'
  <2>1. IsInjective(<<>>) /\ Range(<<>>) = {}
    BY DEF IsInjective, Range
  <2>2. Cardinality({}) = 0
    BY FS_EmptySet
  <2>3. 0 + 0 = 0 * ECount /\ 0 * ECount < 0 + ECount
    BY ManagerAssumption
  <2> QED
    BY <1>1, <1>2, <1>5, <2>1, <2>2, <2>3 DEF Sound
<1>8. ManagerInv(m)'
  BY <1>2, <1>7 DEF ManagerInv
<1>9. LastInv'
  BY DEF Called, LastInv
<1>10. \A e \in live' : e[1] \in Allocated'
  BY <1>4 DEF IInv, Allocated
<1> QED
  BY <1>3, <1>6, <1>8, <1>9, <1>10 DEF IInv

(***************************************************************************)
(* A forced destroy takes the manager's pools and the elements in them only. *)
(***************************************************************************)
LEMMA ManagerDestroyInv ==
  ASSUME IInv, NEW m \in Manager, NEW force \in BOOLEAN, qp_manager_destroy(m, force)
  PROVE  IInv'
<1> USE DEF qp_manager_destroy
<1>1. CASE ~force
  <2>1. LastInv'
    BY <1>1 DEF Called, LastInv
  <2> QED
    BY <1>1, <2>1, Untouched
<1>2. CASE force
  <2>1. /\ Types /\ live' = live \ LiveOf(m) /\ owner' = owner
        /\ is_inited' = [is_inited EXCEPT ![m] = FALSE]
        /\ pools_queue' = [pools_queue EXCEPT ![m] = {}]
        /\ linked' = [p \in PoolId |-> linked[p] /\ owner[p] # m]
    BY <1>2 DEF IInv
  <2>2. Types'
    BY <1>2, <2>1 DEF Types
  <2>3. /\ ~is_inited'[m] /\ pools_queue'[m] = {}
        /\ \A o \in Manager \ {m} : is_inited'[o] = is_inited[o] /\ pools_queue'[o] = pools_queue[o]
    BY <2>1 DEF Types
  <2>4. ManagerInv(m)'
    BY <2>3 DEF ManagerInv
  <2>5. ASSUME NEW o \in Manager \ {m}
        PROVE  ManagerInv(o)'
    <3>1. /\ ManagerInv(o) /\ pools_queue[o] \subseteq PoolId
          /\ \A p \in pools_queue[o] : owner[p] = o
      BY <2>1 DEF IInv, Types, ManagerInv
    <3>2. LiveOf(o)' = LiveOf(o)
      BY <2>1 DEF LiveOf
    <3>3. ASSUME NEW p \in pools_queue[o]
          PROVE  /\ pool'[p] = pool[p] /\ owner'[p] = owner[p] /\ linked'[p] = linked[p]
                 /\ \A i \in 1..ECount : <<p, i>> \in live' <=> <<p, i>> \in live
      <4>1. p \in PoolId /\ owner[p] = o /\ linked[p] \in BOOLEAN
        BY <2>1, <3>1 DEF Types
      <4>2. linked'[p] = linked[p]
        BY <2>1, <4>1
      <4>3. \A i \in 1..ECount : <<p, i>> \notin LiveOf(m)
        BY <4>1 DEF LiveOf
      <4> QED
        BY <2>1, <4>2, <4>3
    <3> QED
      BY <2>3, <3>1, <3>2, <3>3, OthersKept
  <2>6. ASSUME NEW x \in live'
        PROVE  x[1] \in Allocated'
    <3>1. x \in live /\ owner[x[1]] # m
      BY <2>1 DEF LiveOf
    <3>2. PICK o \in Manager : x[1] \in pools_queue[o]
      BY <3>1 DEF IInv, Allocated
    <3>3. owner[x[1]] = o
      BY <3>2 DEF IInv, ManagerInv
    <3> QED
      BY <2>3, <3>1, <3>2, <3>3 DEF Allocated
  <2>7. LastInv'
    BY <1>2 DEF Called, LastInv
  <2> QED
    BY <2>2, <2>4, <2>5, <2>6, <2>7 DEF IInv
<1> QED
  BY <1>1, <1>2

(***************************************************************************)
(* qp_manager_free of an element of the manager, in its three outcomes: an *)
(* exhausted pool is linked again, an unused first pool is released (no    *)
(* client holds one of its elements), any other pool is kept.              *)
(***************************************************************************)
LEMMA FreeInv ==
  ASSUME IInv, NEW m \in Manager, NEW e \in live, Free(m, e)
  PROVE  IInv'
<1> DEFINE p == e[1]
           k == e[2]
           after == qp_pool_free(pool[p], k)
           avail == available_pools[m]
<1> USE ManagerAssumption
<1>1. /\ Types /\ is_inited[m] /\ Sound(m) /\ e \in PoolId \X (1..ECount)
      /\ p \in PoolId /\ k \in 1..ECount /\ e = <<p, k>> /\ owner[p] = m
  BY DEF IInv, Types, ManagerInv, Free
<1>2. p \in pools_queue[m] /\ Chained(p, pool[p], live) /\ e \in LiveOf(m)
  <2>1. e \in LiveOf(m)
    BY <1>1 DEF LiveOf
  <2>2. p \in pools_queue[m]
    BY <2>1, HeldInside
  <2> QED
    BY <2>1, <2>2 DEF IInv, ManagerInv
<1>3. /\ pool[p] \in PoolType /\ pool[p].free \in Seq(1..ECount) /\ pool[p].nfree \in Nat
      /\ pool[p].nfree = Len(pool[p].free) /\ IsInjective(pool[p].free)
      /\ Range(pool[p].free) = {i \in 1..ECount : <<p, i>> \notin live}
      /\ k \notin Range(pool[p].free)
  <2>1. pool[p] \in PoolType
    BY <1>1 DEF Types
  <2>2. pool[p].free \in Seq(1..ECount) /\ pool[p].nfree \in Nat
    BY <2>1 DEF PoolType
  <2> QED
    BY <1>1, <1>2, <2>1, <2>2 DEF Chained
<1>4. /\ pool' = [pool EXCEPT ![p] = after] /\ live' = live \ {e}
      /\ is_inited' = is_inited /\ owner' = owner /\ peak' = peak
      /\ last' = [call |-> "free", manager |-> m, result |-> "QP_SUCCESS"]
      /\ Relink(m, p) \/ ReleasePool(m, p) \/ KeepPool(m, p)
  BY <1>1 DEF Free, Called, Types
<1>5. /\ after \in PoolType /\ after.nfree = pool[p].nfree + 1 /\ after.nfree = Len(after.free)
      /\ after.nfree > 0 /\ IsInjective(after.free) /\ after.free \in Seq(1..ECount)
      /\ Range(after.free) = Range(pool[p].free) \cup {k}
  <2> DEFINE f == qp_list_push(pool[p].free, k)
  <2>1. /\ f \in Seq(1..ECount) /\ Len(f) = Len(pool[p].free) + 1
        /\ IsInjective(f) /\ Range(f) = Range(pool[p].free) \cup {k}
    <3> DEFINE list == pool[p].free
    <3>1. k \in 1..ECount /\ list \in Seq(1..ECount) /\ IsInjective(list) /\ k \notin Range(list)
      BY <1>1, <1>3
    <3> HIDE DEF k, list
    <3>2. LET t == qp_list_push(list, k)
          IN  /\ t \in Seq(1..ECount) /\ Len(t) = Len(list) + 1
              /\ IsInjective(t) /\ Range(t) = Range(list) \cup {k}
      BY <3>1, Pushed
    <3> QED
      BY <3>2 DEF list
  <2>2. after = [pool[p] EXCEPT !.free = f, !.nfree = pool[p].nfree + 1]
        /\ pool[p].nfree + 1 \in Nat /\ pool[p].nfree + 1 > 0
    BY <1>3 DEF qp_pool_free
  <2> HIDE DEF after, f
  <2>3. after \in PoolType /\ after.free = f /\ after.nfree = pool[p].nfree + 1
    BY <1>3, <2>1, <2>2 DEF PoolType
  <2> QED
    BY <1>3, <2>1, <2>2, <2>3
<1> HIDE DEF after
<1>6. Chained(p, after, live')
  <2>1. {i \in 1..ECount : <<p, i>> \notin live'} = {i \in 1..ECount : <<p, i>> \notin live} \cup {k}
    BY <1>1, <1>4
  <2> QED
    BY <1>3, <1>5, <2>1 DEF Chained
<1>7. pool'[p] = after /\ \A q \in PoolId \ {p} : pool'[q] = pool[q]
  BY <1>1, <1>4 DEF Types
<1> HIDE DEF p, k
<1>8. /\ LiveOf(m)' = LiveOf(m) \ {e} /\ \A o \in Manager \ {m} : LiveOf(o)' = LiveOf(o)
      /\ Cardinality(LiveOf(m)') = Cardinality(LiveOf(m)) - 1 /\ Cardinality(LiveOf(m)) \in Nat
  <2>1. LiveOf(m)' = LiveOf(m) \ {e}
    BY <1>4 DEF LiveOf
  <2>2. \A o \in Manager \ {m} : LiveOf(o)' = LiveOf(o)
    BY <1>1, <1>4 DEF LiveOf, p
  <2>3. IsFiniteSet(LiveOf(m)) /\ Cardinality(LiveOf(m)) \in Nat
    BY <1>1, LiveFinite
  <2>4. Cardinality(LiveOf(m) \ {e}) = Cardinality(LiveOf(m)) - 1
    BY <1>2, <2>3, FS_RemoveElement
  <2> QED
    BY <2>1, <2>2, <2>3, <2>4
<1>9. /\ avail \in Seq(PoolId) /\ IsInjective(avail) /\ pools_queue[m] \in SUBSET PoolId
      /\ Range(avail) = {q \in pools_queue[m] : pool[q].nfree > 0}
      /\ linked[p] <=> pool[p].nfree > 0
      /\ nfree[m] \in Int /\ pool_count[m] \in Nat /\ peak[m] \in Nat
      /\ pool_count[m] = Cardinality(pools_queue[m])
      /\ nfree[m] + Cardinality(LiveOf(m)) = pool_count[m] * ECount
      /\ pool_count[m] * ECount < peak[m] + ECount
  BY <1>1, <1>2 DEF Types, Sound
<1>10. {q \in pools_queue[m] : pool'[q].nfree > 0} = Range(avail) \cup {p}
  BY <1>2, <1>5, <1>7, <1>9
<1> DEFINE
      Typed == /\ pools_queue' \in [Manager -> SUBSET PoolId]
               /\ available_pools' \in [Manager -> Seq(PoolId)]
               /\ pool_count' \in [Manager -> Nat] /\ nfree' \in [Manager -> Int]
               /\ linked' \in [PoolId -> BOOLEAN]
      Others == /\ \A o \in Manager \ {m} :
                     /\ pools_queue'[o] = pools_queue[o]
                     /\ available_pools'[o] = available_pools[o]
                     /\ pool_count'[o] = pool_count[o] /\ nfree'[o] = nfree[o]
                /\ \A q \in PoolId \ {p} : linked'[q] = linked[q]
      Queue == /\ pools_queue'[m] \subseteq pools_queue[m]
               /\ \A x \in live' : x[1] \in pools_queue[m] => x[1] \in pools_queue'[m]
      Lists == /\ IsInjective(available_pools'[m])
               /\ Range(available_pools'[m]) = {q \in pools_queue'[m] : pool'[q].nfree > 0}
               /\ p \in pools_queue'[m] => linked'[p] = TRUE
      Counts == /\ pool_count'[m] = Cardinality(pools_queue'[m])
                /\ nfree'[m] + (Cardinality(LiveOf(m)) - 1) = pool_count'[m] * ECount
                /\ pool_count'[m] * ECount < peak[m] + ECount
      Good == Typed /\ Others /\ Queue /\ Lists /\ Counts
<1>11. ASSUME Relink(m, p)
       PROVE  Good
  <2> DEFINE new == qp_list_push(avail, p)
  <2>1. p \notin Range(avail)
    BY <1>9, <1>11 DEF Relink
  <2>2. new \in Seq(PoolId) /\ IsInjective(new) /\ Range(new) = Range(avail) \cup {p}
    BY <1>1, <1>9, <2>1, Pushed
  <2>3. /\ linked' = [linked EXCEPT ![p] = TRUE]
        /\ available_pools' = [available_pools EXCEPT ![m] = new]
        /\ nfree' = [nfree EXCEPT ![m] = nfree[m] + 1]
        /\ pools_queue' = pools_queue /\ pool_count' = pool_count
    BY <1>1, <1>11 DEF Relink, Types
  <2> HIDE DEF new
  <2>4. nfree[m] + 1 \in Int /\ nfree'[m] = nfree[m] + 1 /\ available_pools'[m] = new /\ linked'[p]
    BY <1>1, <1>9, <2>3 DEF Types
  <2>5. Typed /\ Others
    BY <1>1, <2>2, <2>3, <2>4 DEF Types
  <2>6. Lists
    BY <1>10, <2>2, <2>3, <2>4
  <2>7. nfree'[m] + (Cardinality(LiveOf(m)) - 1) = nfree[m] + Cardinality(LiveOf(m))
    BY <1>8, <1>9, <2>4
  <2> QED
    BY <1>9, <2>3, <2>5, <2>6, <2>7
<1>12. ASSUME KeepPool(m, p)
       PROVE  Good
  <2>1. p \in Range(avail) /\ linked[p]
    BY <1>2, <1>9, <1>12 DEF KeepPool
  <2>2. /\ linked' = linked /\ available_pools' = available_pools
        /\ nfree' = [nfree EXCEPT ![m] = nfree[m] + 1]
        /\ pools_queue' = pools_queue /\ pool_count' = pool_count
    BY <1>1, <1>12 DEF KeepPool, Types
  <2>3. nfree[m] + 1 \in Int /\ nfree'[m] = nfree[m] + 1 /\ linked[p] = TRUE
    BY <1>1, <1>9, <2>1, <2>2 DEF Types
  <2>4. Typed /\ Others
    BY <1>1, <2>2, <2>3 DEF Types
  <2>5. Lists
    BY <1>9, <1>10, <2>1, <2>2, <2>3
  <2>6. nfree'[m] + (Cardinality(LiveOf(m)) - 1) = nfree[m] + Cardinality(LiveOf(m))
    BY <1>8, <1>9, <2>3
  <2> QED
    BY <1>9, <2>2, <2>4, <2>5, <2>6
<1>13. ASSUME ReleasePool(m, p)
       PROVE  Good
  <2> DEFINE new == qp_list_pop(avail)
  <2>1. /\ linked[p] /\ qp_pool_used(after) < 1 /\ p = qp_list_first(avail)
    BY <1>7, <1>13 DEF ReleasePool, Releasable
  <2>2. p \in Range(avail) /\ avail # <<>>
    BY <1>2, <1>9, <2>1 DEF Range
  <2>3. new \in Seq(PoolId) /\ IsInjective(new) /\ Range(new) = Range(avail) \ {p}
    BY <1>9, <2>1, <2>2, Popped
  <2>4. /\ linked' = [linked EXCEPT ![p] = FALSE]
        /\ available_pools' = [available_pools EXCEPT ![m] = new]
        /\ nfree' = [nfree EXCEPT ![m] = nfree[m] + 1 - ECount]
        /\ pools_queue' = [pools_queue EXCEPT ![m] = pools_queue[m] \ {p}]
        /\ pool_count' = [pool_count EXCEPT ![m] = pool_count[m] - 1]
    BY <1>1, <1>13 DEF ReleasePool, Types
  <2> HIDE DEF new
  <2>5. pool_count[m] - 1 = Cardinality(pools_queue[m] \ {p}) /\ pool_count[m] - 1 \in Nat
    <3>1. IsFiniteSet(pools_queue[m])
      BY <1>9, PoolElements
    <3>2. IsFiniteSet(pools_queue[m] \ {p})
          /\ Cardinality(pools_queue[m] \ {p}) = Cardinality(pools_queue[m]) - 1
      BY <1>2, <3>1, FS_RemoveElement
    <3>3. Cardinality(pools_queue[m] \ {p}) \in Nat
      BY <3>2, FS_CardinalityType
    <3> QED
      BY <1>9, <3>2, <3>3
  <2>6. /\ nfree[m] + 1 - ECount \in Int /\ nfree'[m] = nfree[m] + 1 - ECount
        /\ available_pools'[m] = new
        /\ pools_queue'[m] = pools_queue[m] \ {p} /\ pool_count'[m] = pool_count[m] - 1
    BY <1>1, <1>9, <2>4 DEF Types
  <2>7. Typed /\ Others
    BY <1>1, <2>3, <2>4, <2>5, <2>6 DEF Types
  <2>8. \A x \in live' : x[1] # p
    <3>1. after.nfree >= ECount
      <4>1. after.nsize = ECount /\ after.nfree \in Nat
        BY <1>5 DEF PoolType
      <4> QED
        BY <2>1, <4>1 DEF qp_pool_used
    <3>2. Cardinality(Range(after.free)) = after.nfree
      BY <1>5, ListCounts
    <3>3. IsFiniteSet(1..ECount) /\ Cardinality(1..ECount) = ECount
      <4>1. 1 \in Int /\ ECount \in Int /\ ~(1 > ECount) /\ ECount - 1 + 1 = ECount
        OBVIOUS
      <4> QED
        BY <4>1, FS_Interval
    <3>4. Range(after.free) \in SUBSET (1..ECount)
      BY <1>6 DEF Chained
    <3>5. Cardinality(Range(after.free)) <= Cardinality(1..ECount)
      BY <3>3, <3>4, FS_Subset
    <3>6. after.nfree \in Nat
      BY <1>5 DEF PoolType
    <3>7. Cardinality(1..ECount) = Cardinality(Range(after.free))
      BY <3>1, <3>2, <3>3, <3>5, <3>6
    <3>8. Range(after.free) = 1..ECount
      BY <3>3, <3>4, <3>7, FS_Subset
    <3>9. \A i \in 1..ECount : <<p, i>> \notin live'
      BY <1>6, <3>8 DEF Chained
    <3>10. live' \subseteq PoolId \X (1..ECount)
      BY <1>1, <1>4 DEF Types
    <3> QED
      BY <3>9, <3>10
  <2>9. Queue
    BY <2>6, <2>8
  <2>10. Lists
    BY <1>10, <2>3, <2>6
  <2>11. /\ nfree'[m] + (Cardinality(LiveOf(m)) - 1) = pool_count'[m] * ECount
         /\ pool_count'[m] * ECount < peak[m] + ECount
    <3>1. /\ (pool_count[m] - 1) * ECount = pool_count[m] * ECount - ECount
          /\ pool_count[m] * ECount \in Nat /\ ECount \in Nat \ {0}
      BY <1>9
    <3>2. \A n, l \in Int : (n + 1 - ECount) + (l - 1) = (n + l) - ECount
      BY <3>1
    <3>3. \A a, b \in Nat : a < b + ECount => a - ECount < b + ECount
      BY <3>1
    <3>4. nfree'[m] + (Cardinality(LiveOf(m)) - 1) = (nfree[m] + Cardinality(LiveOf(m))) - ECount
      <4> DEFINE l == Cardinality(LiveOf(m))
      <4>1. nfree[m] \in Int /\ l \in Int /\ nfree'[m] = nfree[m] + 1 - ECount
        BY <1>8, <1>9, <2>6
      <4> HIDE DEF l
      <4>2. (nfree[m] + 1 - ECount) + (l - 1) = (nfree[m] + l) - ECount
        BY <3>2, <4>1
      <4>3. nfree'[m] + (l - 1) = (nfree[m] + l) - ECount
        BY <4>1, <4>2
      <4> QED
        BY <4>3 DEF l
    <3>5. pool_count'[m] * ECount = pool_count[m] * ECount - ECount
      BY <2>6, <3>1
    <3> QED
      BY <1>9, <3>1, <3>3, <3>4, <3>5
  <2> QED
    BY <2>5, <2>6, <2>7, <2>9, <2>10, <2>11
<1>14. Good
  BY <1>4, <1>11, <1>12, <1>13
<1>15. Types'
  <2>1. Typed
    BY <1>14
  <2>2. pool' \in [PoolId -> PoolType]
    BY <1>1, <1>4, <1>5 DEF Types
  <2>3. live' \subseteq PoolId \X (1..ECount)
    BY <1>1, <1>4 DEF Types
  <2> QED
    BY <1>1, <1>4, <2>1, <2>2, <2>3 DEF Types
<1> HIDE DEF Typed
<1>16. ASSUME NEW x \in live'
       PROVE  x[1] \in Allocated'
  <2>1. x \in live
    BY <1>4
  <2>2. PICK o \in Manager : x[1] \in pools_queue[o]
    BY <2>1 DEF IInv, Allocated
  <2>3. x[1] \in pools_queue'[o]
    BY <1>14, <2>2
  <2> QED
    BY <2>3 DEF Allocated
<1>17. ASSUME NEW o \in Manager \ {m}
       PROVE  ManagerInv(o)'
  <2>1. /\ ManagerInv(o) /\ pools_queue[o] \subseteq PoolId
        /\ \A q \in pools_queue[o] : owner[q] = o
    BY <1>1 DEF IInv, Types, ManagerInv
  <2>2. p \notin pools_queue[o]
    BY <1>1, <2>1
  <2>3. \A q \in pools_queue[o] :
          /\ pool'[q] = pool[q] /\ owner'[q] = owner[q] /\ linked'[q] = linked[q]
          /\ \A i \in 1..ECount : <<q, i>> \in live' <=> <<q, i>> \in live
    BY <1>1, <1>4, <1>7, <1>14, <2>1, <2>2
  <2> QED
    BY <1>4, <1>8, <1>14, <2>1, <2>3, OthersKept
<1>18. \A q \in pools_queue'[m] : owner'[q] = m /\ Chained(q, pool[q], live)'
  <2> TAKE q \in pools_queue'[m]
  <2>1. q \in pools_queue[m] /\ q \in PoolId
    BY <1>9, <1>14
  <2>2. owner[q] = m /\ Chained(q, pool[q], live)
    BY <2>1 DEF IInv, ManagerInv
  <2>3. CASE q = p
    BY <1>4, <1>6, <1>7, <2>2, <2>3 DEF Chained
  <2>4. CASE q # p
    <3>1. \A i \in 1..ECount : <<q, i>> \in live' <=> <<q, i>> \in live
      BY <1>1, <1>4, <2>4
    <3> QED
      BY <1>4, <1>7, <2>1, <2>2, <2>4, <3>1 DEF Chained
  <2> QED
    BY <2>3, <2>4
<1>19. Sound(m)'
  <2>1. \A q \in pools_queue'[m] : linked'[q] <=> pool'[q].nfree > 0
    <3> TAKE q \in pools_queue'[m]
    <3>1. CASE q = p
      BY <1>5, <1>7, <1>14, <3>1
    <3>2. CASE q # p
      <4>1. q \in pools_queue[m] /\ q \in PoolId
        BY <1>9, <1>14
      <4>2. linked[q] <=> pool[q].nfree > 0
        BY <1>1, <4>1 DEF Sound
      <4> QED
        BY <1>7, <1>14, <3>2, <4>1, <4>2
    <3> QED
      BY <3>1, <3>2
  <2> QED
    BY <1>4, <1>8, <1>14, <2>1 DEF Sound
<1>20. ManagerInv(m)'
  BY <1>1, <1>4, <1>18, <1>19 DEF ManagerInv
<1>21. LastInv'
  BY <1>4 DEF LastInv
<1> QED
  BY <1>15, <1>16, <1>17, <1>20, <1>21 DEF IInv

-----------------------------------------------------------------------------
(* The theorems *)

(***************************************************************************)
(* The invariant holds in every state that calls on managers can reach.    *)
(***************************************************************************)
THEOREM ManagerInvariant == Spec => []IInv
<1>1. Init => IInv
  <2> SUFFICES ASSUME Init
               PROVE  IInv
    OBVIOUS
  <2>1. qp_pool_init(ECount) \in PoolType
    BY NewPool
  <2>2. Types
    <3>1. <<>> \in Seq(PoolId)
      OBVIOUS
    <3> QED
      BY <2>1, <3>1 DEF Init, Types
  <2>3. \A m \in Manager : ManagerInv(m)
    BY DEF Init, ManagerInv
  <2>4. LastInv
    BY DEF Init, LastInv
  <2> QED
    BY <2>2, <2>3, <2>4 DEF Init, IInv
<1>2. IInv /\ [Next]_vars => IInv'
  <2> SUFFICES ASSUME IInv, [Next]_vars
               PROVE  IInv'
    OBVIOUS
  <2>1. CASE UNCHANGED vars
    <3>1. LastInv'
      BY <2>1 DEF vars, IInv, LastInv
    <3> QED
      BY <2>1, <3>1, Untouched DEF vars
  <2>2. CASE Next
    <3>1. PICK m \in Manager :
            \/ qp_manager_init(m)
            \/ AllocFromAvailable(m)
            \/ \E p \in PoolId : AllocFromNewPool(m, p)
            \/ \E toobig \in BOOLEAN : AllocFails(m, toobig)
            \/ \E e \in live : FreeRefused(m, e) \/ Free(m, e)
            \/ \E force \in BOOLEAN : qp_manager_destroy(m, force)
      BY <2>2 DEF Next
    <3> QED
      BY <3>1, ManagerInitInv, AllocFromAvailableInv, AllocFromNewPoolInv,
         CallsWithoutEffect, FreeInv, ManagerDestroyInv
  <2> QED
    BY <2>1, <2>2
<1> QED
  BY <1>1, <1>2, PTL DEF Spec

(***************************************************************************)
(* Every element of an allocated pool is held by a client or is once in    *)
(* the pool's free list, whatever the calls of qp_manager_alloc,           *)
(* qp_manager_free, init and forced destroy, and no client holds memory of *)
(* a pool that was released.                                               *)
(***************************************************************************)
THEOREM ManagerElementsExact == Spec => []ElementsExact
<1>1. IInv => ElementsExact
  BY DEF IInv, ManagerInv, Chained, Allocated, ElementsExact
<1> QED
  BY <1>1, ManagerInvariant, PTL

(***************************************************************************)
(* available_pools, each pool's link, pool_count, nfree and so what        *)
(* qp_manager_available and qp_manager_used report are true of the pools   *)
(* and of what clients hold, and an allocation fails only when nothing is  *)
(* free.                                                                   *)
(***************************************************************************)
THEOREM ManagerBooksExact == Spec => []BooksExact
<1>1. ASSUME IInv, NEW m \in Manager, is_inited[m]
      PROVE  nfree[m] = Cardinality(FreeOf(m)) /\ qp_manager_used(m) = Cardinality(LiveOf(m))
  <2> DEFINE all == pools_queue[m] \X (1..ECount)
  <2>1. /\ Types /\ Sound(m) /\ pools_queue[m] \in SUBSET PoolId
        /\ \A p \in pools_queue[m] : owner[p] = m /\ Chained(p, pool[p], live)
    BY <1>1 DEF IInv, ManagerInv, Types
  <2>2. FreeOf(m) = all \ LiveOf(m)
    <3>1. ASSUME NEW e \in all
          PROVE  e[2] \in Range(pool[e[1]].free) <=> e \notin LiveOf(m)
      <4>1. e[1] \in pools_queue[m] /\ e[2] \in 1..ECount /\ e = <<e[1], e[2]>>
        OBVIOUS
      <4>2. owner[e[1]] = m /\ Range(pool[e[1]].free) = {i \in 1..ECount : <<e[1], i>> \notin live}
        BY <2>1, <4>1 DEF Chained
      <4> QED
        BY <4>1, <4>2 DEF LiveOf
    <3> QED
      BY <3>1 DEF FreeOf
  <2>3. all \cap LiveOf(m) = LiveOf(m)
    BY <1>1, HeldInside
  <2>4. IsFiniteSet(all) /\ Cardinality(all) = pool_count[m] * ECount
    BY <2>1, PoolElements DEF Sound
  <2>5. Cardinality(FreeOf(m)) = pool_count[m] * ECount - Cardinality(LiveOf(m))
    <3> HIDE DEF all
    <3>1. Cardinality(all \ LiveOf(m)) = Cardinality(all) - Cardinality(all \cap LiveOf(m))
      BY <2>4, FS_Difference
    <3>2. Cardinality(FreeOf(m)) = Cardinality(all) - Cardinality(LiveOf(m))
      BY <2>2, <2>3, <3>1
    <3> QED
      BY <2>4, <3>2
  <2>6. /\ nfree[m] \in Int /\ Cardinality(LiveOf(m)) \in Nat /\ pool_count[m] * ECount \in Nat
        /\ nfree[m] + Cardinality(LiveOf(m)) = pool_count[m] * ECount
    BY <2>1, LiveFinite, ManagerAssumption DEF Types, Sound
  <2>7. \A n, l, t \in Int : n + l = t => n = t - l /\ l = t - n
    OBVIOUS
  <2> QED
    BY <2>5, <2>6, <2>7 DEF qp_manager_used
<1>2. IInv => BooksExact
  <2> SUFFICES ASSUME IInv
               PROVE  BooksExact
    OBVIOUS
  <2>1. ASSUME NEW m \in Manager, is_inited[m]
        PROVE  /\ Sound(m) /\ \A p \in pools_queue[m] : owner[p] = m
               /\ nfree[m] = Cardinality(FreeOf(m)) /\ qp_manager_used(m) = Cardinality(LiveOf(m))
    BY <1>1, <2>1 DEF IInv, ManagerInv
  <2> QED
    BY <2>1 DEF IInv, LastInv, Sound, BooksExact
<1> QED
  BY <1>2, ManagerInvariant, PTL

(***************************************************************************)
(* A manager never has more pools than the most elements ever in use at    *)
(* once needed: qp_manager_alloc adds a pool only when every element of    *)
(* the others is held.                                                     *)
(***************************************************************************)
THEOREM ManagerNoOvergrowth == Spec => []NoOvergrowth
<1>1. IInv => NoOvergrowth
  BY DEF IInv, ManagerInv, Sound, NoOvergrowth
<1> QED
  BY <1>1, ManagerInvariant, PTL

-----------------------------------------------------------------------------
(* What the managers promise *)

\* What clients hold, manager by manager.
Held == [m \in Manager |-> LiveOf(m)]

Abstract == INSTANCE ElementAllocator
              WITH Element <- PoolId \X (1..ECount),
                   ready <- is_inited, held <- Held, answer <- last

(***************************************************************************)
(* qp_manager_alloc, qp_manager_free, init and destroy are the calls of    *)
(* ElementAllocator: see there for what each may do and answer.            *)
(***************************************************************************)
ImplementsAllocator == Abstract!Spec

(***************************************************************************)
(* What an allocation takes nobody holds, and afterwards it is held from   *)
(* the manager asked.                                                      *)
(***************************************************************************)
LEMMA TakeFromGrants ==
  ASSUME IInv, NEW m \in Manager, NEW p \in PoolId, NEW pl \in PoolType,
         NEW avail, NEW free, TakeFrom(m, p, pl, avail, free), Chained(p, pl, live),
         \A e \in live : e[1] = p => owner[p] = m,
         owner' = [owner EXCEPT ![p] = m],
         is_inited[m], is_inited' = is_inited
  PROVE  Abstract!Next
<1> DEFINE k == Head(pl.free)
           e == <<p, k>>
<1>1. pl.free \in Seq(1..ECount) /\ pl.nfree > 0 /\ pl.nfree = Len(pl.free) /\ IsInjective(pl.free)
  BY DEF PoolType, Chained, TakeFrom, qp_pool_can_alloc, qp_pool_available
<1>2. pl.free # <<>>
  BY <1>1
<1>3. qp_pool_element(pl) = k /\ k \in Range(pl.free) /\ k \in 1..ECount
  BY <1>1, <1>2, Popped DEF qp_pool_element
<1>4. e \notin live /\ e \in PoolId \X (1..ECount) /\ e[1] = p
  BY <1>3 DEF Chained
<1>5. /\ live' = live \cup {e}
      /\ last' = [call |-> "alloc", manager |-> m, result |-> "element"]
  BY <1>3 DEF TakeFrom, Called
<1> HIDE DEF e
<1>6. owner \in [PoolId -> Manager \cup {NULL}] /\ live \subseteq PoolId \X (1..ECount)
  BY DEF IInv, Types
<1>7. \A x \in live : owner'[x[1]] = owner[x[1]]
  <2> TAKE x \in live
  <2>1. x[1] \in PoolId
    BY <1>6
  <2> QED
    BY <1>6, <2>1
<1>8. owner'[e[1]] = m
  BY <1>4, <1>6
<1>9. \A n \in Manager : LiveOf(n)' = IF n = m THEN LiveOf(n) \cup {e} ELSE LiveOf(n)
  BY <1>5, <1>7, <1>8 DEF LiveOf
<1>10. Held' = [Held EXCEPT ![m] = @ \cup {e}]
  BY <1>9 DEF Held
<1>11. \A n \in Manager : e \notin Held[n]
  BY <1>4 DEF Held, LiveOf
<1>12. Abstract!Grant(m, e)
  BY <1>5, <1>10, <1>11 DEF Abstract!Grant, Abstract!Answer
<1> QED
  BY <1>4, <1>12 DEF Abstract!Next

(***************************************************************************)
(* An element that is held is held from the manager its pool belongs to.   *)
(***************************************************************************)
LEMMA HeldFromOwner ==
  ASSUME IInv, NEW e \in live
  PROVE  owner[e[1]] \in Manager /\ e \in Held[owner[e[1]]] /\ e \in PoolId \X (1..ECount)
<1>1. PICK o \in Manager : e[1] \in pools_queue[o]
  BY DEF IInv, Allocated
<1>2. owner[e[1]] = o
  BY <1>1 DEF IInv, ManagerInv
<1> QED
  BY <1>2 DEF Held, LiveOf, IInv, Types

(***************************************************************************)
(* qp_manager_free gives back what was handed out by the manager asked.    *)
(***************************************************************************)
LEMMA FreeTakesBack ==
  ASSUME IInv, NEW m \in Manager, NEW e \in live, FreeRefused(m, e) \/ Free(m, e)
  PROVE  Abstract!Next
<1> DEFINE o == owner[e[1]]
<1>1. o \in Manager /\ e \in Held[o] /\ e \in PoolId \X (1..ECount)
  BY HeldFromOwner
<1>2. CASE FreeRefused(m, e)
  <2>1. /\ is_inited[m] /\ o # m /\ UNCHANGED <<is_inited, live, owner>>
        /\ last' = [call |-> "free", manager |-> m, result |-> "QP_ERROR"]
    BY <1>2 DEF FreeRefused, Called
  <2>2. Held' = Held
    BY <2>1 DEF Held, LiveOf
  <2>3. Abstract!TakeBack(m, o, e)
    BY <1>1, <2>1, <2>2 DEF Abstract!TakeBack, Abstract!Answer
  <2> QED
    BY <1>1, <2>3 DEF Abstract!Next
<1>3. CASE Free(m, e)
  <2>1. /\ is_inited[m] /\ o = m /\ UNCHANGED <<is_inited, owner>> /\ live' = live \ {e}
        /\ last' = [call |-> "free", manager |-> m, result |-> "QP_SUCCESS"]
    BY <1>3 DEF Free, Called
  <2>2. \A n \in Manager : LiveOf(n)' = IF n = m THEN LiveOf(n) \ {e} ELSE LiveOf(n)
    BY <2>1 DEF LiveOf
  <2>3. Held' = [Held EXCEPT ![m] = @ \ {e}]
    BY <2>2 DEF Held
  <2>4. Abstract!TakeBack(m, m, e)
    BY <1>1, <2>1, <2>3 DEF Abstract!TakeBack, Abstract!Answer
  <2> QED
    BY <1>1, <2>4 DEF Abstract!Next
<1> QED
  BY <1>2, <1>3

(***************************************************************************)
(* Managers implement the abstract allocator: whatever pools are added,    *)
(* relinked and released, a client sees elements nobody else has, given    *)
(* back to the manager they came from and to no other, and a call that     *)
(* fails changes nothing.                                                  *)
(***************************************************************************)
THEOREM ManagerRefinement == Spec => ImplementsAllocator
<1>1. Init => Abstract!Init
  BY DEF Init, Abstract!Init, Held, LiveOf
<1>2. ASSUME IInv, [Next]_vars
      PROVE  [Abstract!Next]_<<is_inited, Held, last>>
  <2>1. CASE UNCHANGED vars
    BY <2>1 DEF vars, Held, LiveOf
  <2>2. ASSUME NEW m \in Manager, qp_manager_init(m)
        PROVE  Abstract!Next
    <3>1. Abstract!Open(m)
      BY <2>2 DEF qp_manager_init, Called, Held, LiveOf, Abstract!Open, Abstract!Answer
    <3> QED
      BY <3>1 DEF Abstract!Next
  <2>3. ASSUME NEW m \in Manager, AllocFromAvailable(m)
        PROVE  Abstract!Next
    <3> DEFINE avail == available_pools[m]
               p == Head(avail)
    <3>1. /\ Types /\ is_inited[m] /\ Sound(m)
          /\ \A q \in pools_queue[m] : owner[q] = m /\ Chained(q, pool[q], live)
      BY <1>2, <2>3 DEF IInv, ManagerInv, AllocFromAvailable
    <3>2. avail \in Seq(PoolId) /\ avail # <<>> /\ IsInjective(avail)
      BY <2>3, <3>1 DEF Types, Sound, AllocFromAvailable, qp_list_is_empty
    <3>3. p \in Range(avail) /\ p \in PoolId /\ qp_list_first(avail) = p
      BY <3>2, Popped
    <3>4. owner[p] = m /\ Chained(p, pool[p], live)
      BY <3>1, <3>3 DEF Sound
    <3>5. TakeFrom(m, p, pool[p], avail, nfree[m]) /\ UNCHANGED <<is_inited, owner>>
      BY <2>3, <3>3 DEF AllocFromAvailable
    <3> HIDE DEF avail, p
    <3>6. pool[p] \in PoolType /\ owner' = [owner EXCEPT ![p] = m] /\ is_inited' = is_inited
      BY <3>1, <3>3, <3>4, <3>5 DEF Types
    <3>7. \A e \in live : e[1] = p => owner[p] = m
      BY <3>4
    <3> QED
      BY <1>2, <3>1, <3>3, <3>4, <3>5, <3>6, <3>7, TakeFromGrants
  <2>4. ASSUME NEW m \in Manager, NEW p \in PoolId, AllocFromNewPool(m, p)
        PROVE  Abstract!Next
    <3> DEFINE pl == qp_pool_init(ECount)
               avail == qp_list_push(available_pools[m], p)
               free == nfree[m] + ECount
    <3>1. \A e \in live : e[1] # p
      BY <1>2, <2>4 DEF AllocFromNewPool, IInv
    <3>2. pl \in PoolType /\ Chained(p, pl, live)
      BY <3>1, NewPool DEF Chained
    <3>3. /\ TakeFrom(m, p, pl, avail, free) /\ is_inited[m] /\ is_inited' = is_inited
          /\ owner' = [owner EXCEPT ![p] = m]
      BY <2>4 DEF AllocFromNewPool
    <3> HIDE DEF pl, avail, free
    <3> QED
      BY <1>2, <3>1, <3>2, <3>3, TakeFromGrants
  <2>5. ASSUME NEW m \in Manager, NEW toobig \in BOOLEAN, AllocFails(m, toobig)
        PROVE  Abstract!Next
    <3> DEFINE f == IF toobig THEN "allocBig" ELSE "alloc"
    <3>1. Abstract!NoGrant(m, f) /\ f \in {"alloc", "allocBig"}
      BY <2>5 DEF AllocFails, Called, Held, LiveOf, Abstract!NoGrant, Abstract!Answer
    <3> HIDE DEF f
    <3> QED
      BY <3>1 DEF Abstract!Next
  <2>6. ASSUME NEW m \in Manager, NEW force \in BOOLEAN, qp_manager_destroy(m, force)
        PROVE  Abstract!Next
    <3>1. CASE force
      <4>1. /\ is_inited[m] /\ is_inited' = [is_inited EXCEPT ![m] = FALSE]
            /\ live' = live \ LiveOf(m) /\ owner' = owner
            /\ last' = [call |-> "destroy", manager |-> m, result |-> "QP_SUCCESS"]
        BY <2>6, <3>1 DEF qp_manager_destroy, Called
      <4>2. \A n \in Manager : LiveOf(n)' = IF n = m THEN {} ELSE LiveOf(n)
        BY <4>1 DEF LiveOf
      <4>3. Held' = [Held EXCEPT ![m] = {}]
        BY <4>2 DEF Held
      <4>4. Abstract!Close(m)
        BY <4>1, <4>3 DEF Abstract!Close, Abstract!Answer
      <4> QED
        BY <4>4 DEF Abstract!Next
    <3>2. CASE ~force
      <4>1. Abstract!StayOpen(m)
        BY <2>6, <3>2 DEF qp_manager_destroy, Called, Held, LiveOf, Abstract!StayOpen, Abstract!Answer
      <4> QED
        BY <4>1 DEF Abstract!Next
    <3> QED
      BY <3>1, <3>2
  <2>7. CASE Next
    BY <1>2, <2>2, <2>3, <2>4, <2>5, <2>6, <2>7, FreeTakesBack DEF Next
  <2> QED
    BY <1>2, <2>1, <2>7
<1> QED
  BY <1>1, <1>2, ManagerInvariant, PTL DEF Spec, ImplementsAllocator, Abstract!Spec, Abstract!vars
=============================================================================
