---------------------- MODULE PinnedBufferPool_proofs ----------------------
(***************************************************************************)
(* Proofs about PinnedBufferPool, for every number of workers, buffers and *)
(* size classes and every bound on the free lists.                         *)
(***************************************************************************)
EXTENDS PinnedBufferPool, SequenceTheorems, WellFoundedInduction, TLAPS

-----------------------------------------------------------------------------
(* Sequences without repetitions, seen as the set of their elements *)

\* The range of a sequence is the set of its entries, and a sequence is
\* injective when no entry occurs twice.
LEMMA RangeMember ==
  ASSUME NEW S, NEW s \in Seq(S)
  PROVE  /\ \A i \in 1 .. Len(s) : s[i] \in Range(s)
         /\ \A x \in Range(s) : x \in S /\ \E i \in 1 .. Len(s) : s[i] = x
         /\ IsInjective(s) <=>
              \A i, j \in 1 .. Len(s) : s[i] = s[j] => i = j
  BY LenProperties, ElementOfSeq DEF Range, IsInjective

\* A free list that was cleared holds nothing.
LEMMA EmptyHasNoMember ==
  ASSUME NEW S
  PROVE  /\ <<>> \in Seq(S)
         /\ Range(<<>>) = {}
         /\ IsInjective(<<>>)
         /\ Len(<<>>) = 0
  BY DEF Range, IsInjective

\* push_back adds one entry, and repeats none if the entry is new.
LEMMA AppendMember ==
  ASSUME NEW S, NEW s \in Seq(S), NEW x \in S
  PROVE  /\ Append(s, x) \in Seq(S)
         /\ Len(Append(s, x)) = Len(s) + 1
         /\ Range(Append(s, x)) = Range(s) \cup {x}
         /\ IsInjective(s) /\ x \notin Range(s) => IsInjective(Append(s, x))
<1> DEFINE r == Append(s, x)
<1>1. /\ r \in Seq(S)
      /\ Len(s) \in Nat
      /\ Len(r) = Len(s) + 1
      /\ \A i \in 1 .. Len(s) : r[i] = s[i]
      /\ r[Len(s) + 1] = x
  BY AppendProperties, LenProperties
<1> HIDE DEF r
<1>2. Range(r) = Range(s) \cup {x}
  <2>1. \A y \in Range(r) : y \in Range(s) \cup {x}
    BY <1>1, RangeMember
  <2>2. \A y \in Range(s) : y \in Range(r)
    BY <1>1, RangeMember
  <2>3. x \in Range(r)
    BY <1>1, RangeMember
  <2> QED BY <2>1, <2>2, <2>3
<1>3. ASSUME IsInjective(s), x \notin Range(s)
      PROVE  IsInjective(r)
  BY <1>1, <1>3, RangeMember
<1> QED BY <1>1, <1>2, <1>3 DEF r

\* pop_back splits a free list into its last entry and the others.
LEMMA FrontMember ==
  ASSUME NEW S, NEW s \in Seq(S), s # <<>>
  PROVE  LET f == SubSeq(s, 1, Len(s) - 1)
             l == s[Len(s)]
         IN  /\ f \in Seq(S)
             /\ l \in S
             /\ Len(f) = Len(s) - 1
             /\ Range(s) = Range(f) \cup {l}
             /\ IsInjective(s) => IsInjective(f) /\ l \notin Range(f)
<1> DEFINE f == SubSeq(s, 1, Len(s) - 1)
           l == s[Len(s)]
<1>1. Len(s) \in Nat \ {0} /\ l \in S
  BY EmptySeq, ElementOfSeq
<1>2. /\ f \in Seq(S)
      /\ Len(f) = Len(s) - 1
      /\ \A i \in 1 .. Len(s) - 1 : f[i] = s[i]
  <2>1. \A i \in 1 .. Len(s) - 1 : s[i] \in S
    BY <1>1, ElementOfSeq
  <2>2. /\ f \in Seq(S)
        /\ Len(f) = IF 1 <= Len(s) - 1 THEN Len(s) - 1 - 1 + 1 ELSE 0
        /\ \A i \in 1 .. Len(s) - 1 - 1 + 1 : f[i] = s[1 + i - 1]
    BY <1>1, <2>1, SubSeqProperties
  <2> HIDE DEF f
  <2>3. Len(f) = Len(s) - 1
    <3> DEFINE n == Len(s)
               m == Len(f)
    <3>1. n \in Nat \ {0} /\ m = IF 1 <= n - 1 THEN n - 1 - 1 + 1 ELSE 0
      BY <1>1, <2>2
    <3> HIDE DEF n, m
    <3>2. m = n - 1
      BY <3>1
    <3> QED BY <3>2 DEF n, m
  <2>4. ASSUME NEW i \in 1 .. Len(s) - 1
        PROVE  f[i] = s[i]
    <3>1. i \in 1 .. Len(s) - 1 - 1 + 1 /\ 1 + i - 1 = i
      BY <1>1
    <3> QED BY <2>2, <3>1
  <2> QED BY <2>2, <2>3, <2>4
<1> HIDE DEF f
<1>3. Range(s) = Range(f) \cup {l}
  <2>1. \A y \in Range(s) : y \in Range(f) \cup {l}
    BY <1>1, <1>2, RangeMember
  <2>2. \A y \in Range(f) : y \in Range(s)
    BY <1>1, <1>2, RangeMember
  <2>3. l \in Range(s)
    BY <1>1, RangeMember
  <2> QED BY <2>1, <2>2, <2>3
<1>4. ASSUME IsInjective(s)
      PROVE  IsInjective(f) /\ l \notin Range(f)
  <2>1. \A i, j \in 1 .. Len(s) : s[i] = s[j] => i = j
    BY <1>4, RangeMember
  <2>2. \A i, j \in 1 .. Len(f) : f[i] = f[j] => i = j
    BY <1>1, <1>2, <2>1
  <2>3. \A i \in 1 .. Len(f) : f[i] # l
    BY <1>1, <1>2, <2>1
  <2> QED BY <1>2, <2>2, <2>3, RangeMember
<1> QED BY <1>1, <1>2, <1>3, <1>4 DEF f

\* The first entry of Shutdown's vector and the entries after it.
LEMMA TailMember ==
  ASSUME NEW S, NEW s \in Seq(S), s # <<>>
  PROVE  /\ Head(s) \in S
         /\ Tail(s) \in Seq(S)
         /\ Range(s) = {Head(s)} \cup Range(Tail(s))
         /\ IsInjective(s) => /\ IsInjective(Tail(s))
                              /\ Head(s) \notin Range(Tail(s))
<1> DEFINE r == Tail(s)
           h == Head(s)
<1>1. /\ Len(s) \in Nat \ {0}
      /\ h = s[1]
      /\ h \in S
      /\ r \in Seq(S)
      /\ Len(r) = Len(s) - 1
      /\ \A i \in 1 .. Len(r) : r[i] = s[i + 1]
  BY HeadTailProperties, EmptySeq
<1> HIDE DEF r, h
<1>2. Range(s) = {h} \cup Range(r)
  <2>1. \A y \in Range(s) : y \in {h} \cup Range(r)
    <3> SUFFICES ASSUME NEW y \in Range(s), y # h PROVE y \in Range(r)
      OBVIOUS
    <3>1. PICK i \in 1 .. Len(s) : s[i] = y
      BY RangeMember
    <3>2. i - 1 \in 1 .. Len(r) /\ r[i - 1] = y
      BY <1>1, <3>1
    <3> QED BY <1>1, <3>2, RangeMember
  <2>2. \A y \in Range(r) : y \in Range(s)
    BY <1>1, RangeMember
  <2>3. h \in Range(s)
    BY <1>1, RangeMember
  <2> QED BY <2>1, <2>2, <2>3
<1>3. ASSUME IsInjective(s)
      PROVE  IsInjective(r) /\ h \notin Range(r)
  <2>1. \A i, j \in 1 .. Len(s) : s[i] = s[j] => i = j
    BY <1>3, RangeMember
  <2>2. ASSUME NEW i \in 1 .. Len(r), NEW j \in 1 .. Len(r), r[i] = r[j]
        PROVE  i = j
    <3>1. /\ i + 1 \in 1 .. Len(s) /\ j + 1 \in 1 .. Len(s)
          /\ s[i + 1] = s[j + 1]
      BY <1>1, <2>2
    <3>2. i + 1 = j + 1
      BY <2>1, <3>1
    <3> QED BY <1>1, <3>2
  <2>3. ASSUME NEW i \in 1 .. Len(r) PROVE r[i] # h
    <3>1. /\ i + 1 \in 1 .. Len(s) /\ 1 \in 1 .. Len(s) /\ i + 1 # 1
          /\ r[i] = s[i + 1]
      BY <1>1
    <3> QED BY <1>1, <2>1, <3>1
  <2>4. IsInjective(r)
    BY <1>1, <2>2, RangeMember
  <2>5. h \notin Range(r)
    BY <1>1, <2>3, RangeMember
  <2> QED BY <2>4, <2>5
<1> QED BY <1>1, <1>2, <1>3 DEF r, h

\* Draining a free list into Shutdown's vector joins their entries.
LEMMA ConcatMember ==
  ASSUME NEW S, NEW s \in Seq(S), NEW t \in Seq(S)
  PROVE  /\ s \o t \in Seq(S)
         /\ Range(s \o t) = Range(s) \cup Range(t)
         /\ IsInjective(s) /\ IsInjective(t) /\ Range(s) \cap Range(t) = {}
              => IsInjective(s \o t)
<1> DEFINE r == s \o t
<1>1. /\ Len(s) \in Nat /\ Len(t) \in Nat
      /\ r \in Seq(S)
      /\ Len(r) = Len(s) + Len(t)
      /\ \A i \in 1 .. Len(s) + Len(t) :
           r[i] = IF i <= Len(s) THEN s[i] ELSE t[i - Len(s)]
  BY ConcatProperties, LenProperties
<1>2. Range(r) = Range(s) \cup Range(t)
  BY RangeConcatenation
<1> HIDE DEF r
<1>3. ASSUME IsInjective(s), IsInjective(t), Range(s) \cap Range(t) = {},
             NEW i \in 1 .. Len(r), NEW j \in 1 .. Len(r), r[i] = r[j]
      PROVE  i = j
  <2>1. CASE i <= Len(s) /\ j <= Len(s)
    <3>1. i \in 1 .. Len(s) /\ j \in 1 .. Len(s) /\ s[i] = s[j]
      BY <1>1, <1>3, <2>1
    <3> QED BY <1>3, <3>1, RangeMember
  <2>2. CASE i > Len(s) /\ j > Len(s)
    <3>1. /\ i - Len(s) \in 1 .. Len(t)
          /\ j - Len(s) \in 1 .. Len(t)
          /\ t[i - Len(s)] = t[j - Len(s)]
      BY <1>1, <1>3, <2>2
    <3>2. i - Len(s) = j - Len(s)
      BY <1>3, <3>1, RangeMember
    <3> QED BY <1>1, <3>2
  <2>3. CASE i <= Len(s) /\ j > Len(s)
    <3>1. /\ s[i] \in Range(s) /\ t[j - Len(s)] \in Range(t)
          /\ s[i] = t[j - Len(s)]
      BY <1>1, <1>3, <2>3, RangeMember
    <3> QED BY <1>3, <3>1
  <2>4. CASE i > Len(s) /\ j <= Len(s)
    <3>1. /\ t[i - Len(s)] \in Range(t) /\ s[j] \in Range(s)
          /\ s[j] = t[i - Len(s)]
      BY <1>1, <1>3, <2>4, RangeMember
    <3> QED BY <1>3, <3>1
  <2> QED BY <1>1, <2>1, <2>2, <2>3, <2>4
<1> QED BY <1>1, <1>2, <1>3, RangeMember DEF r

-----------------------------------------------------------------------------
(* Size classes *)

\* The indices of the classes, and the index that stands for none of them.
LEMMA ClassFacts ==
  /\ Len(SizeClasses) \in Nat
  /\ Oversize \in Nat
  /\ Oversize \notin ClassIdx
  /\ \A c \in ClassIdx : c \in Nat /\ SizeClasses[c] \in Nat
  BY PoolAssumption, LenProperties, ElementOfSeq DEF ClassIdx, Oversize

\* The buffer that PickClass makes Acquire look for is long enough.
LEMMA PickClassFits ==
  ASSUME NEW size \in Nat
  PROVE  /\ PickClass(size) \in ClassIdx \cup {Oversize}
         /\ Length(PickClass(size), size) \in Nat
         /\ size <= Length(PickClass(size), size)
         /\ Fits(size) # {} => PickClass(size) \in ClassIdx
<1>1. CASE Fits(size) = {}
  BY <1>1 DEF PickClass, Length
<1>2. CASE Fits(size) # {}
  <2>1. Fits(size) \subseteq Nat
    BY ClassFacts DEF Fits
  <2>2. PICK x \in Fits(size) :
          \A y \in Fits(size) : ~(<<y, x>> \in OpToRel(<, Nat))
    BY <1>2, <2>1, NatLessThanWellFounded, WFMin
  <2>3. ASSUME NEW y \in Fits(size) PROVE x <= y
    <3>1. x \in Nat /\ y \in Nat
      BY <2>1
    <3>2. y < x => <<y, x>> \in OpToRel(<, Nat)
      BY <3>1 DEF OpToRel
    <3>3. ~(y < x)
      BY <2>2, <3>2, Zenon
    <3> QED BY <3>1, <3>3
  <2>4. (CHOOSE i \in Fits(size) : \A j \in Fits(size) : i <= j) \in Fits(size)
    BY <2>3
  <2>5. PickClass(size) \in Fits(size)
    BY <1>2, <2>4 DEF PickClass
  <2> QED BY <2>5, ClassFacts DEF Fits, Length
<1> QED BY <1>1, <1>2

-----------------------------------------------------------------------------
(* The inductive invariant *)

\* A newly constructed pool satisfies the invariant.
LEMMA InitPoolInv == Init => PoolInv
<1> SUFFICES ASSUME Init PROVE PoolInv
  OBVIOUS
<1> USE DEF Init
<1>1. TypeOK
  <2>1. sidx \in ClassIdx \cup {Oversize}
    BY ClassFacts DEF ClassIdx, Oversize
  <2>2. free_list \in [ClassIdx -> Seq(Buffers)] /\ to_destroy \in Seq(Buffers)
    BY EmptyHasNoMember
  <2> QED BY <2>1, <2>2 DEF TypeOK, WorkerPC, StopPC
<1>2. (\A c \in ClassIdx : Cached(c) = {}) /\ Draining = {}
  BY EmptyHasNoMember DEF Cached, Draining
<1>3. ExclusiveOwner
  BY <1>2, EmptyHasNoMember
  DEF ExclusiveOwner, DistinctLeases, DistinctCached, LeasedNotCached
<1>4. NoDanglingNoLeak
  BY DEF NoDanglingNoLeak
<1>5. CacheBounded
  BY EmptyHasNoMember, PoolAssumption DEF CacheBounded
<1>6. WorkerOwns
  BY DEF WorkerOwns, OwnerKnows
<1>7. CachedReady /\ DrainReady
  BY <1>2 DEF CachedReady, DrainReady
<1> QED BY <1>1, <1>3, <1>4, <1>5, <1>6, <1>7 DEF PoolInv

\* Every step of every thread preserves the invariant.
LEMMA NextPoolInv == PoolInv /\ [Next]_vars => PoolInv'
<1> SUFFICES ASSUME PoolInv, [Next]_vars PROVE PoolInv'
  OBVIOUS
<1> USE DEF PoolInv, Goto, Leave, poolVars, workerVars, stopVars
<1>a. /\ \A c \in ClassIdx : \A b \in Cached(c) : b \in Buffers
      /\ \A b \in Draining : b \in Buffers
  BY RangeMember DEF TypeOK, Cached, Draining
<1>b. \A t \in Threads : Length(cls[t], want[t]) \in Nat
  BY ClassFacts DEF TypeOK, Length
<1>1. ASSUME NEW t \in Threads, NEW size \in Sizes, Acquire(t, size)
      PROVE  PoolInv'
  <2>1. /\ UNCHANGED <<free_list, to_destroy>>
        /\ \A c : Cached(c)' = Cached(c)
        /\ Draining' = Draining
    BY <1>1 DEF Acquire, Cached, Draining
  <2>2. /\ size \in Nat
        /\ PickClass(size) \in ClassIdx \cup {Oversize}
        /\ size <= Length(PickClass(size), size)
    BY PickClassFits, PoolAssumption
  <2>3. TypeOK'
    BY <1>1, <2>1, <2>2 DEF Acquire, TypeOK, WorkerPC, StopPC
  <2>4. ExclusiveOwner'
    BY <1>1, <2>1
    DEF Acquire, TypeOK, ExclusiveOwner, DistinctLeases, DistinctCached,
        LeasedNotCached, WorkerOwns, OwnerKnows, CachedReady, DrainReady
  <2>5. NoDanglingNoLeak'
    BY <1>1, <2>1 DEF Acquire, TypeOK, NoDanglingNoLeak, WorkerOwns, OwnerKnows
  <2>6. CacheBounded'
    BY <1>1, <2>1 DEF Acquire, CacheBounded
  <2>7. WorkerOwns'
    <3> SUFFICES ASSUME NEW u \in Threads PROVE OwnerKnows(u)'
      BY DEF WorkerOwns
    <3>1. CASE u = t
      BY <1>1, <2>1, <2>2, <3>1 DEF Acquire, TypeOK, WorkerOwns, OwnerKnows
    <3>2. CASE u # t
      BY <1>1, <2>1, <3>2
      DEF Acquire, TypeOK, WorkerOwns, OwnerKnows, ExclusiveOwner,
          DistinctLeases
    <3> QED BY <3>1, <3>2
  <2>8. CachedReady'
    BY <1>1, <2>1
    DEF Acquire, TypeOK, CachedReady, LeasedNotCached, ExclusiveOwner
  <2>9. DrainReady'
    BY <1>1, <2>1
    DEF Acquire, TypeOK, DrainReady, ExclusiveOwner, LeasedNotCached
  <2> QED BY <2>3, <2>4, <2>5, <2>6, <2>7, <2>8, <2>9
<1>2. ASSUME NEW t \in Threads, PopMiss(t)
      PROVE  PoolInv'
  <2>1. /\ UNCHANGED <<free_list, to_destroy>>
        /\ \A c : Cached(c)' = Cached(c)
        /\ Draining' = Draining
    BY <1>2 DEF PopMiss, Cached, Draining
  <2>3. TypeOK'
    BY <1>2, <2>1 DEF PopMiss, TypeOK, WorkerPC, StopPC
  <2>4. ExclusiveOwner'
    BY <1>2, <2>1
    DEF PopMiss, TypeOK, ExclusiveOwner, DistinctLeases, DistinctCached,
        LeasedNotCached, WorkerOwns, OwnerKnows, CachedReady, DrainReady
  <2>5. NoDanglingNoLeak'
    BY <1>2, <2>1 DEF PopMiss, TypeOK, NoDanglingNoLeak, WorkerOwns, OwnerKnows
  <2>6. CacheBounded'
    BY <1>2, <2>1 DEF PopMiss, CacheBounded
  <2>7. WorkerOwns'
    BY <1>2, <2>1
    DEF PopMiss, TypeOK, WorkerOwns, OwnerKnows, ExclusiveOwner,
        DistinctLeases, NoDanglingNoLeak, LeasedNotCached
  <2>8. CachedReady'
    BY <1>2, <2>1
    DEF PopMiss, TypeOK, CachedReady, LeasedNotCached, ExclusiveOwner
  <2>9. DrainReady'
    BY <1>2, <2>1
    DEF PopMiss, TypeOK, DrainReady, ExclusiveOwner, LeasedNotCached
  <2> QED BY <2>3, <2>4, <2>5, <2>6, <2>7, <2>8, <2>9
<1>3. ASSUME NEW t \in Threads, AllocHostBuffer(t)
      PROVE  PoolInv'
  <2>1. /\ UNCHANGED <<free_list, to_destroy>>
        /\ \A c : Cached(c)' = Cached(c)
        /\ Draining' = Draining
    BY <1>3 DEF AllocHostBuffer, Cached, Draining
  <2>2. PICK b \in Buffers \ allocated :
          /\ allocated' = allocated \cup {b}
          /\ capacity' = [capacity EXCEPT ![b] = Length(cls[t], want[t])]
          /\ buf' = [buf EXCEPT ![t] = b]
    BY <1>3 DEF AllocHostBuffer
  <2>3. TypeOK'
    BY <1>3, <2>1, <2>2, <1>b DEF AllocHostBuffer, TypeOK, WorkerPC, StopPC
  <2>4. ExclusiveOwner'
    BY <1>3, <2>1, <2>2
    DEF AllocHostBuffer, TypeOK, ExclusiveOwner, DistinctLeases,
        DistinctCached, LeasedNotCached, WorkerOwns, OwnerKnows, CachedReady,
        DrainReady
  <2>5. NoDanglingNoLeak'
    <3>1. registered' \subseteq allocated'
      BY <1>3, <2>1, <2>2 DEF AllocHostBuffer, NoDanglingNoLeak
    <3>2. buf[t] = NoBuf
      BY <1>3 DEF AllocHostBuffer, WorkerOwns, OwnerKnows
    <3>3. buf'[t] = b /\ \A u \in Threads : buf[u] # NoBuf => buf'[u] = buf[u]
      BY <2>2, <3>2 DEF TypeOK
    <3>4. ASSUME NEW a \in allocated'
          PROVE  \/ \E u \in Threads : buf'[u] = a
                 \/ \E c \in ClassIdx : a \in Cached(c)
                 \/ a \in Draining
      <4>1. CASE a = b
        BY <3>3, <4>1
      <4>2. CASE a # b
        BY PoolAssumption, <2>2, <3>3, <4>2 DEF NoDanglingNoLeak, TypeOK
      <4> QED BY <4>1, <4>2
    <3> QED BY <2>1, <3>1, <3>4 DEF NoDanglingNoLeak
  <2>6. CacheBounded'
    BY <1>3, <2>1 DEF AllocHostBuffer, CacheBounded
  <2>7. WorkerOwns'
    <3> SUFFICES ASSUME NEW u \in Threads PROVE OwnerKnows(u)'
      BY DEF WorkerOwns
    <3>1. CASE u = t
      BY <1>3, <2>1, <2>2, <3>1, PoolAssumption
      DEF AllocHostBuffer, TypeOK, WorkerOwns, OwnerKnows, NoDanglingNoLeak
    <3>2. CASE u # t
      BY <1>3, <2>1, <2>2, <3>2
      DEF AllocHostBuffer, TypeOK, WorkerOwns, OwnerKnows
    <3> QED BY <3>1, <3>2
  <2>8. CachedReady'
    BY <1>3, <2>1, <2>2
    DEF AllocHostBuffer, TypeOK, CachedReady, LeasedNotCached, ExclusiveOwner
  <2>9. DrainReady'
    BY <1>3, <2>1, <2>2
    DEF AllocHostBuffer, TypeOK, DrainReady, ExclusiveOwner, LeasedNotCached
  <2> QED BY <2>3, <2>4, <2>5, <2>6, <2>7, <2>8, <2>9
<1>4. ASSUME NEW t \in Threads, AllocFails(t)
      PROVE  PoolInv'
  <2>1. /\ UNCHANGED <<free_list, to_destroy>>
        /\ \A c : Cached(c)' = Cached(c)
        /\ Draining' = Draining
    BY <1>4 DEF AllocFails, Cached, Draining
  <2>3. TypeOK'
    BY <1>4, <2>1 DEF AllocFails, TypeOK, WorkerPC, StopPC
  <2>4. ExclusiveOwner'
    BY <1>4, <2>1
    DEF AllocFails, TypeOK, ExclusiveOwner, DistinctLeases, DistinctCached,
        LeasedNotCached, WorkerOwns, OwnerKnows, CachedReady, DrainReady
  <2>5. NoDanglingNoLeak'
    BY <1>4, <2>1
    DEF AllocFails, TypeOK, NoDanglingNoLeak, WorkerOwns, OwnerKnows
  <2>6. CacheBounded'
    BY <1>4, <2>1 DEF AllocFails, CacheBounded
  <2>7. WorkerOwns'
    BY <1>4, <2>1
    DEF AllocFails, TypeOK, WorkerOwns, OwnerKnows, ExclusiveOwner,
        DistinctLeases, NoDanglingNoLeak, LeasedNotCached
  <2>8. CachedReady'
    BY <1>4, <2>1
    DEF AllocFails, TypeOK, CachedReady, LeasedNotCached, ExclusiveOwner
  <2>9. DrainReady'
    BY <1>4, <2>1
    DEF AllocFails, TypeOK, DrainReady, ExclusiveOwner, LeasedNotCached
  <2> QED BY <2>3, <2>4, <2>5, <2>6, <2>7, <2>8, <2>9
<1>5. ASSUME NEW t \in Threads, RegisterBuffer(t)
      PROVE  PoolInv'
  <2>1. /\ UNCHANGED <<free_list, to_destroy>>
        /\ \A c : Cached(c)' = Cached(c)
        /\ Draining' = Draining
    BY <1>5 DEF RegisterBuffer, Cached, Draining
  <2>2. buf[t] \in Buffers
    BY <1>5 DEF RegisterBuffer, TypeOK, WorkerOwns, OwnerKnows
  <2>3. TypeOK'
    BY <1>5, <2>1, <2>2 DEF RegisterBuffer, TypeOK, WorkerPC, StopPC
  <2>4. ExclusiveOwner'
    BY <1>5, <2>1
    DEF RegisterBuffer, TypeOK, ExclusiveOwner, DistinctLeases, DistinctCached,
        LeasedNotCached, WorkerOwns, OwnerKnows, CachedReady, DrainReady
  <2>5. NoDanglingNoLeak'
    BY <1>5, <2>1
    DEF RegisterBuffer, TypeOK, NoDanglingNoLeak, WorkerOwns, OwnerKnows
  <2>6. CacheBounded'
    BY <1>5, <2>1 DEF RegisterBuffer, CacheBounded
  <2>7. WorkerOwns'
    <3> SUFFICES ASSUME NEW u \in Threads PROVE OwnerKnows(u)'
      BY DEF WorkerOwns
    <3>1. CASE u = t
      BY <1>5, <2>1, <2>2, <3>1
      DEF RegisterBuffer, TypeOK, WorkerOwns, OwnerKnows
    <3>2. CASE u # t
      BY <1>5, <2>1, <2>2, <3>2, PoolAssumption
      DEF RegisterBuffer, TypeOK, WorkerOwns, OwnerKnows, ExclusiveOwner,
          DistinctLeases
    <3> QED BY <3>1, <3>2
  <2>8. CachedReady'
    BY <1>5, <2>1
    DEF RegisterBuffer, TypeOK, CachedReady, LeasedNotCached, ExclusiveOwner
  <2>9. DrainReady'
    <3>1. spc = "free" => Head(to_destroy) \in Draining
      BY TailMember DEF TypeOK, DrainReady, Draining
    <3> QED BY <1>5, <2>1, <3>1
    DEF RegisterBuffer, DrainReady, ExclusiveOwner, LeasedNotCached
  <2> QED BY <2>3, <2>4, <2>5, <2>6, <2>7, <2>8, <2>9
<1>6. ASSUME NEW t \in Threads, RegisterFails(t)
      PROVE  PoolInv'
  <2>1. /\ UNCHANGED <<free_list, to_destroy>>
        /\ \A c : Cached(c)' = Cached(c)
        /\ Draining' = Draining
    BY <1>6 DEF RegisterFails, Cached, Draining
  <2>2. /\ buf[t] \in Buffers
        /\ buf[t] \notin registered
        /\ buf'[t] = NoBuf
        /\ \A u \in Threads \ {t} : buf'[u] = buf[u] /\ buf[u] # buf[t]
    BY <1>6
    DEF RegisterFails, TypeOK, WorkerOwns, OwnerKnows, ExclusiveOwner,
        DistinctLeases
  <2>3. TypeOK'
    BY <1>6, <2>1 DEF RegisterFails, TypeOK, WorkerPC, StopPC
  <2>4. ExclusiveOwner'
    <3>1. DistinctLeases'
      BY <2>2 DEF DistinctLeases, ExclusiveOwner
    <3>2. DistinctCached'
      BY <2>1 DEF DistinctCached, ExclusiveOwner
    <3>3. LeasedNotCached'
      BY <1>a, <2>1, <2>2, PoolAssumption DEF LeasedNotCached, ExclusiveOwner
    <3> QED BY <3>1, <3>2, <3>3 DEF ExclusiveOwner
  <2>5. NoDanglingNoLeak'
    BY <1>6, <2>1
    DEF RegisterFails, TypeOK, NoDanglingNoLeak, WorkerOwns, OwnerKnows
  <2>6. CacheBounded'
    BY <1>6, <2>1 DEF RegisterFails, CacheBounded
  <2>7. WorkerOwns'
    <3> SUFFICES ASSUME NEW u \in Threads PROVE OwnerKnows(u)'
      BY DEF WorkerOwns
    <3>1. CASE u = t
      BY <1>6, <2>1, <2>2, <3>1, PoolAssumption
      DEF RegisterFails, TypeOK, OwnerKnows
    <3>2. CASE u # t
      BY <1>6, <2>1, <2>2, <3>2
      DEF RegisterFails, TypeOK, WorkerOwns, OwnerKnows
    <3> QED BY <3>1, <3>2
  <2>8. CachedReady'
    BY <1>6, <2>1
    DEF RegisterFails, TypeOK, CachedReady, LeasedNotCached, ExclusiveOwner
  <2>9. DrainReady'
    BY <1>6, <2>1
    DEF RegisterFails, TypeOK, DrainReady, ExclusiveOwner, LeasedNotCached
  <2> QED BY <2>3, <2>4, <2>5, <2>6, <2>7, <2>8, <2>9
<1>7. ASSUME NEW t \in Threads, Release(t)
      PROVE  PoolInv'
  <2>1. /\ UNCHANGED <<free_list, to_destroy>>
        /\ \A c : Cached(c)' = Cached(c)
        /\ Draining' = Draining
    BY <1>7 DEF Release, Cached, Draining
  <2>3. TypeOK'
    BY <1>7, <2>1 DEF Release, TypeOK, WorkerPC, StopPC
  <2>4. ExclusiveOwner'
    BY <1>7, <2>1
    DEF Release, TypeOK, ExclusiveOwner, DistinctLeases, DistinctCached,
        LeasedNotCached, WorkerOwns, OwnerKnows, CachedReady, DrainReady
  <2>5. NoDanglingNoLeak'
    BY <1>7, <2>1 DEF Release, TypeOK, NoDanglingNoLeak, WorkerOwns, OwnerKnows
  <2>6. CacheBounded'
    BY <1>7, <2>1 DEF Release, CacheBounded
  <2>7. WorkerOwns'
    BY <1>7, <2>1
    DEF Release, TypeOK, WorkerOwns, OwnerKnows, ExclusiveOwner,
        DistinctLeases, NoDanglingNoLeak, LeasedNotCached
  <2>8. CachedReady'
    BY <1>7, <2>1
    DEF Release, TypeOK, CachedReady, LeasedNotCached, ExclusiveOwner
  <2>9. DrainReady'
    BY <1>7, <2>1
    DEF Release, TypeOK, DrainReady, ExclusiveOwner, LeasedNotCached
  <2> QED BY <2>3, <2>4, <2>5, <2>6, <2>7, <2>8, <2>9
<1>8. ASSUME NEW t \in Threads, PushFull(t)
      PROVE  PoolInv'
  <2>1. /\ UNCHANGED <<free_list, to_destroy>>
        /\ \A c : Cached(c)' = Cached(c)
        /\ Draining' = Draining
    BY <1>8 DEF PushFull, Cached, Draining
  <2>3. TypeOK'
    BY <1>8, <2>1 DEF PushFull, TypeOK, WorkerPC, StopPC
  <2>4. ExclusiveOwner'
    BY <1>8, <2>1
    DEF PushFull, TypeOK, ExclusiveOwner, DistinctLeases, DistinctCached,
        LeasedNotCached, WorkerOwns, OwnerKnows, CachedReady, DrainReady
  <2>5. NoDanglingNoLeak'
    BY <1>8, <2>1
    DEF PushFull, TypeOK, NoDanglingNoLeak, WorkerOwns, OwnerKnows
  <2>6. CacheBounded'
    BY <1>8, <2>1 DEF PushFull, CacheBounded
  <2>7. WorkerOwns'
    BY <1>8, <2>1
    DEF PushFull, TypeOK, WorkerOwns, OwnerKnows, ExclusiveOwner,
        DistinctLeases, NoDanglingNoLeak, LeasedNotCached
  <2>8. CachedReady'
    BY <1>8, <2>1
    DEF PushFull, TypeOK, CachedReady, LeasedNotCached, ExclusiveOwner
  <2>9. DrainReady'
    BY <1>8, <2>1
    DEF PushFull, TypeOK, DrainReady, ExclusiveOwner, LeasedNotCached
  <2> QED BY <2>3, <2>4, <2>5, <2>6, <2>7, <2>8, <2>9
<1>9. ASSUME NEW t \in Threads, DisposeDeregister(t)
      PROVE  PoolInv'
  <2>1. /\ UNCHANGED <<free_list, to_destroy>>
        /\ \A c : Cached(c)' = Cached(c)
        /\ Draining' = Draining
    BY <1>9 DEF DisposeDeregister, Cached, Draining
  <2>3. TypeOK'
    BY <1>9, <2>1 DEF DisposeDeregister, TypeOK, WorkerPC, StopPC
  <2>4. ExclusiveOwner'
    BY <1>9, <2>1
    DEF DisposeDeregister, TypeOK, ExclusiveOwner, DistinctLeases,
        DistinctCached, LeasedNotCached, WorkerOwns, OwnerKnows, CachedReady,
        DrainReady
  <2>5. NoDanglingNoLeak'
    BY <1>9, <2>1
    DEF DisposeDeregister, TypeOK, NoDanglingNoLeak, WorkerOwns, OwnerKnows
  <2>6. CacheBounded'
    BY <1>9, <2>1 DEF DisposeDeregister, CacheBounded
  <2>7. WorkerOwns'
    BY <1>9, <2>1
    DEF DisposeDeregister, TypeOK, WorkerOwns, OwnerKnows, ExclusiveOwner,
        DistinctLeases, NoDanglingNoLeak, LeasedNotCached
  <2>8. CachedReady'
    BY <1>9, <2>1
    DEF DisposeDeregister, TypeOK, CachedReady, LeasedNotCached, ExclusiveOwner
  <2>9. DrainReady'
    <3>1. spc = "free" => \A b \in Range(Tail(to_destroy)) : b \in Draining
      BY TailMember DEF TypeOK, DrainReady, Draining
    <3> QED BY <1>9, <2>1, <3>1
    DEF DisposeDeregister, DrainReady, ExclusiveOwner, LeasedNotCached
  <2> QED BY <2>3, <2>4, <2>5, <2>6, <2>7, <2>8, <2>9
<1>10. ASSUME NEW t \in Threads, DisposeFree(t)
      PROVE  PoolInv'
  <2>1. /\ UNCHANGED <<free_list, to_destroy>>
        /\ \A c : Cached(c)' = Cached(c)
        /\ Draining' = Draining
    BY <1>10 DEF DisposeFree, Cached, Draining
  <2>2. /\ buf[t] \in Buffers
        /\ buf[t] \notin registered
        /\ buf'[t] = NoBuf
        /\ \A u \in Threads \ {t} : buf'[u] = buf[u] /\ buf[u] # buf[t]
    BY <1>10
    DEF DisposeFree, TypeOK, WorkerOwns, OwnerKnows, ExclusiveOwner,
        DistinctLeases
  <2>3. TypeOK'
    BY <1>10, <2>1 DEF DisposeFree, TypeOK, WorkerPC, StopPC
  <2>4. ExclusiveOwner'
    <3>1. DistinctLeases'
      BY <2>2 DEF DistinctLeases, ExclusiveOwner
    <3>2. DistinctCached'
      BY <2>1 DEF DistinctCached, ExclusiveOwner
    <3>3. LeasedNotCached'
      BY <1>a, <2>1, <2>2, PoolAssumption DEF LeasedNotCached, ExclusiveOwner
    <3> QED BY <3>1, <3>2, <3>3 DEF ExclusiveOwner
  <2>5. NoDanglingNoLeak'
    BY <1>10, <2>1
    DEF DisposeFree, TypeOK, NoDanglingNoLeak, WorkerOwns, OwnerKnows
  <2>6. CacheBounded'
    BY <1>10, <2>1 DEF DisposeFree, CacheBounded
  <2>7. WorkerOwns'
    <3> SUFFICES ASSUME NEW u \in Threads PROVE OwnerKnows(u)'
      BY DEF WorkerOwns
    <3>1. CASE u = t
      BY <1>10, <2>1, <2>2, <3>1, PoolAssumption
      DEF DisposeFree, TypeOK, OwnerKnows
    <3>2. CASE u # t
      BY <1>10, <2>1, <2>2, <3>2
      DEF DisposeFree, TypeOK, WorkerOwns, OwnerKnows
    <3> QED BY <3>1, <3>2
  <2>8. CachedReady'
    BY <1>10, <2>1
    DEF DisposeFree, TypeOK, CachedReady, LeasedNotCached, ExclusiveOwner
  <2>9. DrainReady'
    BY <1>10, <2>1
    DEF DisposeFree, TypeOK, DrainReady, ExclusiveOwner, LeasedNotCached
  <2> QED BY <2>3, <2>4, <2>5, <2>6, <2>7, <2>8, <2>9
<1>11. ASSUME ShutdownCas
      PROVE  PoolInv'
  <2>1. /\ UNCHANGED <<free_list, to_destroy>>
        /\ \A c : Cached(c)' = Cached(c)
        /\ Draining' = Draining
    BY <1>11 DEF ShutdownCas, Cached, Draining
  <2>3. TypeOK'
    <3>1. \A t \in Threads : pc[t] = "push" => buf[t] \in Buffers
      BY DEF TypeOK, WorkerOwns, OwnerKnows
    <3>2. early' \subseteq Buffers
      BY <1>11, <3>1 DEF ShutdownCas
    <3> QED BY <1>11, <2>1, <3>2 DEF ShutdownCas, TypeOK, WorkerPC, StopPC
  <2>4. ExclusiveOwner'
    BY <1>11, <2>1
    DEF ShutdownCas, TypeOK, ExclusiveOwner, DistinctLeases, DistinctCached,
        LeasedNotCached, WorkerOwns, OwnerKnows, CachedReady, DrainReady
  <2>5. NoDanglingNoLeak'
    BY <1>11, <2>1
    DEF ShutdownCas, TypeOK, NoDanglingNoLeak, WorkerOwns, OwnerKnows
  <2>6. CacheBounded'
    BY <1>11, <2>1 DEF ShutdownCas, CacheBounded
  <2>7. WorkerOwns'
    BY <1>11, <2>1
    DEF ShutdownCas, TypeOK, WorkerOwns, OwnerKnows, ExclusiveOwner,
        DistinctLeases, NoDanglingNoLeak, LeasedNotCached
  <2>8. CachedReady'
    BY <1>11, <2>1
    DEF ShutdownCas, TypeOK, CachedReady, LeasedNotCached, ExclusiveOwner
  <2>9. DrainReady'
    BY <1>11, <2>1
    DEF ShutdownCas, TypeOK, DrainReady, ExclusiveOwner, LeasedNotCached
  <2> QED BY <2>3, <2>4, <2>5, <2>6, <2>7, <2>8, <2>9
<1>12. ASSUME ShutdownDrained
      PROVE  PoolInv'
  <2>1. /\ UNCHANGED <<free_list, to_destroy>>
        /\ \A c : Cached(c)' = Cached(c)
        /\ Draining' = Draining
    BY <1>12 DEF ShutdownDrained, Cached, Draining
  <2>3. TypeOK'
    BY <1>12, <2>1 DEF ShutdownDrained, TypeOK, WorkerPC, StopPC
  <2>4. ExclusiveOwner'
    BY <1>12, <2>1
    DEF ShutdownDrained, TypeOK, ExclusiveOwner, DistinctLeases,
        DistinctCached, LeasedNotCached, WorkerOwns, OwnerKnows, CachedReady,
        DrainReady
  <2>5. NoDanglingNoLeak'
    BY <1>12, <2>1
    DEF ShutdownDrained, TypeOK, NoDanglingNoLeak, WorkerOwns, OwnerKnows
  <2>6. CacheBounded'
    BY <1>12, <2>1 DEF ShutdownDrained, CacheBounded
  <2>7. WorkerOwns'
    BY <1>12, <2>1
    DEF ShutdownDrained, TypeOK, WorkerOwns, OwnerKnows, ExclusiveOwner,
        DistinctLeases, NoDanglingNoLeak, LeasedNotCached
  <2>8. CachedReady'
    BY <1>12, <2>1
    DEF ShutdownDrained, TypeOK, CachedReady, LeasedNotCached, ExclusiveOwner
  <2>9. DrainReady'
    BY <1>12, <2>1
    DEF ShutdownDrained, TypeOK, DrainReady, ExclusiveOwner, LeasedNotCached
  <2> QED BY <2>3, <2>4, <2>5, <2>6, <2>7, <2>8, <2>9
<1>13. ASSUME ShutdownDeregister
      PROVE  PoolInv'
  <2>1. /\ UNCHANGED <<free_list, to_destroy>>
        /\ \A c : Cached(c)' = Cached(c)
        /\ Draining' = Draining
    BY <1>13 DEF ShutdownDeregister, Cached, Draining
  <2>2. /\ Head(to_destroy) \in Buffers
        /\ Draining = {Head(to_destroy)} \cup Range(Tail(to_destroy))
        /\ IsInjective(Tail(to_destroy))
        /\ Head(to_destroy) \notin Range(Tail(to_destroy))
        /\ Tail(to_destroy) \in Seq(Buffers)
    BY <1>13, TailMember
    DEF ShutdownDeregister, TypeOK, DrainReady, ExclusiveOwner, DistinctCached, Draining
  <2>3. TypeOK'
    BY <1>13, <2>1 DEF ShutdownDeregister, TypeOK, WorkerPC, StopPC
  <2>4. ExclusiveOwner'
    BY <1>13, <2>1
    DEF ShutdownDeregister, TypeOK, ExclusiveOwner, DistinctLeases,
        DistinctCached, LeasedNotCached, WorkerOwns, OwnerKnows, CachedReady,
        DrainReady
  <2>5. NoDanglingNoLeak'
    BY <1>13, <2>1
    DEF ShutdownDeregister, TypeOK, NoDanglingNoLeak, WorkerOwns, OwnerKnows
  <2>6. CacheBounded'
    BY <1>13, <2>1 DEF ShutdownDeregister, CacheBounded
  <2>7. WorkerOwns'
    BY <1>13, <2>1, <2>2
    DEF ShutdownDeregister, TypeOK, WorkerOwns, OwnerKnows, ExclusiveOwner,
        LeasedNotCached
  <2>8. CachedReady'
    BY <1>13, <2>1, <2>2
    DEF ShutdownDeregister, CachedReady, ExclusiveOwner, LeasedNotCached
  <2>9. DrainReady'
    BY <1>13, <2>1, <2>2 DEF ShutdownDeregister, DrainReady
  <2> QED BY <2>3, <2>4, <2>5, <2>6, <2>7, <2>8, <2>9
<1>14. ASSUME NEW t \in Threads, PopCached(t)
      PROVE  PoolInv'
  <2> DEFINE c == cls[t]
             front == SubSeq(free_list[c], 1, Len(free_list[c]) - 1)
             last == free_list[c][Len(free_list[c])]
  <2>1. /\ c \in ClassIdx
        /\ free_list[c] # <<>> /\ free_list[c] \in Seq(Buffers)
        /\ free_list' = [free_list EXCEPT ![c] = front]
        /\ buf' = [buf EXCEPT ![t] = last]
        /\ pc' = [pc EXCEPT ![t] = "leased"]
        /\ UNCHANGED <<shutdown, allocated, registered, capacity, cls, want,
                       spc, sidx, to_destroy, early>>
        /\ pc[t] = "pop" /\ buf[t] = NoBuf
    BY <1>14 DEF PopCached, TypeOK, WorkerOwns, OwnerKnows
  <2>2. /\ front \in Seq(Buffers)
        /\ last \in Buffers
        /\ Len(front) = Len(free_list[c]) - 1
        /\ Len(free_list[c]) \in Nat
        /\ Cached(c) = Range(front) \cup {last}
        /\ IsInjective(front)
        /\ last \notin Range(front)
    BY <2>1, FrontMember, LenProperties
    DEF ExclusiveOwner, DistinctCached, Cached
  <2> HIDE DEF front, last
  <2>a. /\ Cached(c)' = Range(front)
        /\ \A d \in ClassIdx \ {c} : Cached(d)' = Cached(d)
        /\ Draining' = Draining
        /\ last \in allocated /\ last \in registered
        /\ capacity[last] = SizeClasses[c]
    BY <2>1, <2>2 DEF TypeOK, Cached, Draining, CachedReady
  <2>b. buf'[t] = last /\ \A u \in Threads \ {t} : buf'[u] = buf[u]
    BY <2>1 DEF TypeOK
  <2>d. /\ free_list'[c] = front
        /\ \A d \in ClassIdx \ {c} : free_list'[d] = free_list[d]
    BY <2>1 DEF TypeOK
  <2>3. TypeOK'
    BY <2>1, <2>2 DEF TypeOK, WorkerPC
  <2>4. ExclusiveOwner'
    <3>1. DistinctLeases'
      BY <2>1, <2>2, <2>b DEF ExclusiveOwner, DistinctLeases, LeasedNotCached
    <3>2. DistinctCached'
      BY <2>1, <2>2, <2>a, <2>d DEF ExclusiveOwner, DistinctCached
    <3>3. LeasedNotCached'
      BY <2>1, <2>2, <2>a, <2>b
      DEF ExclusiveOwner, DistinctCached, LeasedNotCached
    <3> QED BY <3>1, <3>2, <3>3 DEF ExclusiveOwner
  <2>5. NoDanglingNoLeak'
    <3>1. ASSUME NEW a \in allocated
          PROVE  \/ \E u \in Threads : buf'[u] = a
                 \/ \E d \in ClassIdx : a \in Cached(d)'
                 \/ a \in Draining
      <4>1. CASE \E u \in Threads : buf[u] = a
        BY <2>1, <2>b, <4>1, PoolAssumption DEF TypeOK
      <4>2. CASE \E d \in ClassIdx : a \in Cached(d)
        BY <2>1, <2>2, <2>a, <2>b, <4>2
      <4>3. CASE a \in Draining
        BY <4>3
      <4> QED BY <4>1, <4>2, <4>3 DEF NoDanglingNoLeak
    <3> QED BY <2>1, <2>a, <3>1 DEF NoDanglingNoLeak
  <2>6. CacheBounded'
    BY <2>1, <2>2, <2>d, PoolAssumption DEF CacheBounded
  <2>7. WorkerOwns'
    <3> SUFFICES ASSUME NEW u \in Threads PROVE OwnerKnows(u)'
      BY DEF WorkerOwns
    <3>1. CASE u = t
      BY <2>1, <2>2, <2>a, <2>b, <3>1, PoolAssumption, ClassFacts
      DEF TypeOK, WorkerOwns, OwnerKnows, Length
    <3>2. CASE u # t
      BY <2>1, <2>b, <3>2 DEF TypeOK, WorkerOwns, OwnerKnows
    <3> QED BY <3>1, <3>2
  <2>8. CachedReady'
    BY <2>1, <2>2, <2>a DEF CachedReady
  <2>9. DrainReady'
    BY <2>1, <2>a DEF DrainReady
  <2> QED BY <2>3, <2>4, <2>5, <2>6, <2>7, <2>8, <2>9
<1>15. ASSUME NEW t \in Threads, PushCached(t)
      PROVE  PoolInv'
  <2>0. PICK c \in ClassIdx : c = cls[t]
    BY <1>15 DEF PushCached, WorkerOwns, OwnerKnows
  <2> DEFINE longer == Append(free_list[c], buf[t])
  <2>1. /\ c \in ClassIdx
        /\ free_list[c] \in Seq(Buffers)
        /\ Len(free_list[c]) < MaxPerClass
        /\ free_list' = [free_list EXCEPT ![c] = longer]
        /\ buf' = [buf EXCEPT ![t] = NoBuf]
        /\ pc' = [pc EXCEPT ![t] = "idle"]
        /\ cls' = [cls EXCEPT ![t] = Oversize]
        /\ want' = [want EXCEPT ![t] = 0]
        /\ UNCHANGED <<shutdown, allocated, registered, capacity, spc, sidx,
                       to_destroy, early>>
        /\ buf[t] \in Buffers /\ buf[t] \in allocated /\ buf[t] \in registered
        /\ capacity[buf[t]] = SizeClasses[c]
    BY <1>15, <2>0, ClassFacts
    DEF PushCached, TypeOK, WorkerOwns, OwnerKnows, Length
  <2>2. /\ longer \in Seq(Buffers)
        /\ Len(longer) = Len(free_list[c]) + 1
        /\ Len(free_list[c]) \in Nat
        /\ Range(longer) = Cached(c) \cup {buf[t]}
        /\ IsInjective(longer)
    BY <2>1, AppendMember, LenProperties
    DEF ExclusiveOwner, DistinctCached, LeasedNotCached, Cached
  <2> HIDE DEF longer
  <2>a. /\ Cached(c)' = Range(longer)
        /\ \A d \in ClassIdx \ {c} : Cached(d)' = Cached(d)
        /\ Draining' = Draining
    BY <2>1, <2>2 DEF TypeOK, Cached, Draining
  <2>b. /\ buf'[t] = NoBuf
        /\ \A u \in Threads \ {t} : buf'[u] = buf[u] /\ buf[u] # buf[t]
    BY <2>1, PoolAssumption DEF TypeOK, ExclusiveOwner, DistinctLeases
  <2>d. /\ free_list'[c] = longer
        /\ \A d \in ClassIdx \ {c} : free_list'[d] = free_list[d]
    BY <2>1 DEF TypeOK
  <2>3. TypeOK'
    BY <2>1, <2>2 DEF TypeOK, WorkerPC
  <2>4. ExclusiveOwner'
    <3>1. DistinctLeases'
      BY <2>b DEF ExclusiveOwner, DistinctLeases
    <3>2. DistinctCached'
      <4>1. \A d \in ClassIdx : IsInjective(free_list[d])'
        BY <2>2, <2>d DEF ExclusiveOwner, DistinctCached
      <4>2. \A d \in ClassIdx :
              d # c => buf[t] \notin Cached(d) /\ Cached(d) \cap Cached(c) = {}
        BY DEF ExclusiveOwner, DistinctCached, LeasedNotCached
      <4>3. \A d, e \in ClassIdx : d # e => Cached(d)' \cap Cached(e)' = {}
        BY <2>2, <2>a, <4>2 DEF ExclusiveOwner, DistinctCached
      <4> QED BY <2>1, <4>1, <4>3 DEF ExclusiveOwner, DistinctCached
    <3>3. LeasedNotCached'
      <4>1. \A u \in Threads, d \in ClassIdx :
              buf'[u] \notin Cached(d) \cup {buf[t]}
        BY <1>a, <2>1, <2>b, PoolAssumption DEF ExclusiveOwner, LeasedNotCached
      <4>2. \A u \in Threads, d \in ClassIdx : buf'[u] \notin Cached(d)'
        BY <2>2, <2>a, <4>1
      <4>3. \A u \in Threads : buf'[u] \notin Draining'
        BY <1>a, <2>a, <2>b, PoolAssumption DEF ExclusiveOwner, LeasedNotCached
      <4>4. \A d \in ClassIdx : Cached(d)' \cap Draining' = {}
        BY <2>2, <2>a DEF ExclusiveOwner, LeasedNotCached
      <4> QED BY <4>2, <4>3, <4>4 DEF LeasedNotCached
    <3> QED BY <3>1, <3>2, <3>3 DEF ExclusiveOwner
  <2>5. NoDanglingNoLeak'
    <3>1. ASSUME NEW a \in allocated
          PROVE  \/ \E u \in Threads : buf'[u] = a
                 \/ \E d \in ClassIdx : a \in Cached(d)'
                 \/ a \in Draining
      <4>1. CASE \E u \in Threads : buf[u] = a
        BY <2>1, <2>2, <2>a, <2>b, <4>1
      <4>2. CASE \E d \in ClassIdx : a \in Cached(d)
        BY <2>1, <2>2, <2>a, <4>2
      <4>3. CASE a \in Draining
        BY <4>3
      <4> QED BY <4>1, <4>2, <4>3 DEF NoDanglingNoLeak
    <3> QED BY <2>1, <2>a, <3>1 DEF NoDanglingNoLeak
  <2>6. CacheBounded'
    BY <2>1, <2>2, <2>d, PoolAssumption DEF CacheBounded
  <2>7. WorkerOwns'
    <3> SUFFICES ASSUME NEW u \in Threads PROVE OwnerKnows(u)'
      BY DEF WorkerOwns
    <3>1. CASE u = t
      BY <2>1, <2>b, <3>1, PoolAssumption DEF TypeOK, WorkerOwns, OwnerKnows
    <3>2. CASE u # t
      BY <2>1, <2>b, <3>2 DEF TypeOK, WorkerOwns, OwnerKnows
    <3> QED BY <3>1, <3>2
  <2>8. CachedReady'
    BY <2>1, <2>2, <2>a DEF CachedReady
  <2>9. DrainReady'
    BY <2>1, <2>a DEF DrainReady
  <2> QED BY <2>3, <2>4, <2>5, <2>6, <2>7, <2>8, <2>9
<1>16. ASSUME ShutdownDrain
      PROVE  PoolInv'
  <2>0. PICK c \in ClassIdx : c = sidx
    BY <1>16 DEF ShutdownDrain
  <2> DEFINE more == to_destroy \o free_list[c]
  <2>1. /\ c \in ClassIdx
        /\ spc = "drain"
        /\ free_list[c] \in Seq(Buffers)
        /\ free_list' = [free_list EXCEPT ![c] = <<>>]
        /\ to_destroy' = more
        /\ sidx' = c + 1
        /\ UNCHANGED <<shutdown, allocated, registered, capacity, pc, buf, cls,
                       want, spc, early>>
    BY <1>16, <2>0 DEF ShutdownDrain, TypeOK
  <2>2. /\ more \in Seq(Buffers)
        /\ Range(more) = Draining \cup Cached(c)
        /\ IsInjective(more)
    BY <2>1, ConcatMember
    DEF TypeOK, ExclusiveOwner, DistinctCached, LeasedNotCached, Cached, Draining
  <2> HIDE DEF more
  <2>d. /\ free_list'[c] = <<>>
        /\ \A d \in ClassIdx \ {c} : free_list'[d] = free_list[d]
    BY <2>1 DEF TypeOK
  <2>a. /\ Cached(c)' = {}
        /\ \A d \in ClassIdx \ {c} : Cached(d)' = Cached(d)
        /\ Draining' = Draining \cup Cached(c)
    BY <2>1, <2>2, <2>d, EmptyHasNoMember DEF Cached, Draining
  <2>3. TypeOK'
    <3>1. c + 1 \in ClassIdx \cup {Oversize}
      BY <2>1, ClassFacts DEF ClassIdx, Oversize
    <3>2. free_list' \in [ClassIdx -> Seq(Buffers)]
      BY <2>1, EmptyHasNoMember DEF TypeOK
    <3> QED BY <2>1, <2>2, <3>1, <3>2 DEF TypeOK
  <2>4. ExclusiveOwner'
    <3>1. DistinctLeases'
      BY <2>1 DEF ExclusiveOwner, DistinctLeases
    <3>2. DistinctCached'
      BY <2>1, <2>2, <2>a, <2>d, EmptyHasNoMember
      DEF ExclusiveOwner, DistinctCached
    <3>3. LeasedNotCached'
      BY <2>1, <2>a DEF ExclusiveOwner, DistinctCached, LeasedNotCached
    <3> QED BY <3>1, <3>2, <3>3 DEF ExclusiveOwner
  <2>5. NoDanglingNoLeak'
    BY <2>1, <2>a DEF NoDanglingNoLeak
  <2>6. CacheBounded'
    BY <2>1, <2>d, EmptyHasNoMember, PoolAssumption DEF CacheBounded
  <2>7. WorkerOwns'
    BY <2>1 DEF WorkerOwns, OwnerKnows
  <2>8. CachedReady'
    BY <2>1, <2>a DEF CachedReady
  <2>9. DrainReady'
    BY <2>1, <2>a DEF DrainReady, CachedReady
  <2> QED BY <2>3, <2>4, <2>5, <2>6, <2>7, <2>8, <2>9
<1>17. ASSUME ShutdownFree
      PROVE  PoolInv'
  <2>1. /\ Head(to_destroy) \in Buffers
        /\ Draining = {Head(to_destroy)} \cup Range(Tail(to_destroy))
        /\ IsInjective(Tail(to_destroy))
        /\ Head(to_destroy) \notin Range(Tail(to_destroy))
        /\ Tail(to_destroy) \in Seq(Buffers)
    BY <1>17, TailMember
    DEF ShutdownFree, TypeOK, DrainReady, ExclusiveOwner, DistinctCached, Draining
  <2> DEFINE b == Head(to_destroy)
             rest == Tail(to_destroy)
  <2>2. /\ allocated' = allocated \ {b}
        /\ capacity' = [capacity EXCEPT ![b] = 0]
        /\ to_destroy' = rest
        /\ spc' = IF rest = <<>> THEN "returned" ELSE "deregister"
        /\ UNCHANGED <<shutdown, free_list, registered, pc, buf, cls, want, sidx,
                       early>>
        /\ b \notin registered
        /\ \A x \in Range(rest) : x \in registered
    BY <1>17 DEF ShutdownFree, DrainReady
  <2> HIDE DEF b, rest
  <2>a. /\ Draining' = Range(rest)
        /\ \A c : Cached(c)' = Cached(c)
    BY <2>2 DEF Cached, Draining
  <2>b. \A u \in Threads : buf[u] # b
    BY <2>1 DEF ExclusiveOwner, LeasedNotCached, b
  <2>d. /\ \A c \in ClassIdx : b \notin Cached(c)
        /\ b \in Draining
    BY <2>1 DEF ExclusiveOwner, LeasedNotCached, b
  <2>e. /\ Draining = {b} \cup Range(rest)
        /\ IsInjective(rest) /\ b \notin Range(rest) /\ rest \in Seq(Buffers)
        /\ b \in Buffers
    BY <2>1 DEF b, rest
  <2>3. TypeOK'
    BY <2>2, <2>e DEF TypeOK, StopPC
  <2>4. ExclusiveOwner'
    BY <2>2, <2>a, <2>e
    DEF ExclusiveOwner, DistinctLeases, DistinctCached, LeasedNotCached
  <2>5. NoDanglingNoLeak'
    BY <2>2, <2>a, <2>b, <2>d, <2>e DEF NoDanglingNoLeak
  <2>6. CacheBounded'
    BY <2>2 DEF CacheBounded
  <2>7. WorkerOwns'
    BY <2>2, <2>b DEF TypeOK, WorkerOwns, OwnerKnows
  <2>8. CachedReady'
    BY <2>2, <2>a, <2>d DEF TypeOK, CachedReady
  <2>9. DrainReady'
    BY <2>2, <2>a, <2>e DEF DrainReady
  <2> QED BY <2>3, <2>4, <2>5, <2>6, <2>7, <2>8, <2>9
<1>18. CASE UNCHANGED vars
  BY <1>18
  DEF vars, poolVars, workerVars, stopVars, TypeOK, ExclusiveOwner,
      DistinctLeases, DistinctCached, LeasedNotCached, NoDanglingNoLeak,
      CacheBounded, WorkerOwns, OwnerKnows, CachedReady, DrainReady, Cached,
      Draining
<1> QED
  BY <1>1, <1>2, <1>3, <1>4, <1>5, <1>6, <1>7, <1>8, <1>9, <1>10, <1>11,
     <1>12, <1>13, <1>14, <1>15, <1>16, <1>17, <1>18
  DEF Next, Worker, AcquireStep, ReleaseStep, ShutdownStep

\* The invariant holds in every reachable state of the pool, whatever the
\* number of workers, buffers and classes and whenever Shutdown is called.
THEOREM PoolInvariant == Spec => []PoolInv
  BY InitPoolInv, NextPoolInv, PTL DEF Spec

-----------------------------------------------------------------------------
(* What follows from the invariant *)

\* The variables of the pool keep their types.
THEOREM TypeCorrect == Spec => []TypeOK
<1>1. PoolInv => TypeOK
  BY DEF PoolInv
<1> QED BY PoolInvariant, <1>1, PTL

\* Acquire, Release and Shutdown never let two owners have one buffer.
THEOREM OneOwner == Spec => []ExclusiveOwner
<1>1. PoolInv => ExclusiveOwner
  BY DEF PoolInv
<1> QED BY PoolInvariant, <1>1, PTL

\* A lease Acquire returned is registered and long enough for its request.
THEOREM LeasesAreUsable == Spec => []LeaseUsable
<1>1. PoolInv => LeaseUsable
  BY PoolAssumption, ClassFacts
  DEF PoolInv, TypeOK, WorkerOwns, OwnerKnows, LeaseUsable, Length
<1> QED BY PoolInvariant, <1>1, PTL

\* No registered region loses its memory and no buffer loses its owner.
THEOREM NothingDangles == Spec => []NoDanglingNoLeak
<1>1. PoolInv => NoDanglingNoLeak
  BY DEF PoolInv
<1> QED BY PoolInvariant, <1>1, PTL

\* Release respects max_per_class_ in every interleaving.
THEOREM CacheStaysBounded == Spec => []CacheBounded
<1>1. PoolInv => CacheBounded
  BY DEF PoolInv
<1> QED BY PoolInvariant, <1>1, PTL

-----------------------------------------------------------------------------
(* Leases that come back late *)

\* A newly constructed pool has not begun to shut down.
LEMMA InitLateInv == Init => LateInv
  BY EmptyHasNoMember, ClassFacts
  DEF Init, LateInv, PushIsEarly, LateReturnsDestroyed, Cached, ClassIdx

\* A worker that has read shutdown_ as set no longer goes to a free list, so
\* only those that Shutdown found on their way there reach a drained one.
LEMMA NextLateInv == PoolInv /\ LateInv /\ [Next]_vars => LateInv'
<1> SUFFICES ASSUME PoolInv, LateInv, [Next]_vars PROVE LateInv'
  OBVIOUS
<1> USE DEF PoolInv, TypeOK, LateInv, Goto, Leave, poolVars, workerVars,
            stopVars
<1>1. ASSUME NEW t \in Threads,
             UNCHANGED <<shutdown, spc, sidx, early>>,
             \A u \in Threads \ {t} : pc'[u] = pc[u] /\ buf'[u] = buf[u],
             shutdown => pc'[t] # "push"
      PROVE  PushIsEarly'
  BY <1>1 DEF PushIsEarly
<1>2. ASSUME UNCHANGED <<free_list, sidx, early>>
      PROVE  LateReturnsDestroyed'
  BY <1>2 DEF LateReturnsDestroyed, Cached
<1>3. ASSUME NEW t \in Threads, NEW size \in Sizes, Acquire(t, size)
      PROVE  LateInv'
  <2>1. PushIsEarly'
    BY <1>1, <1>3 DEF Acquire
  <2> QED BY <1>2, <1>3, <2>1 DEF Acquire
<1>4. ASSUME NEW t \in Threads,
             \/ PopMiss(t) \/ AllocHostBuffer(t) \/ AllocFails(t)
             \/ RegisterBuffer(t) \/ RegisterFails(t)
      PROVE  LateInv'
  <2>1. /\ UNCHANGED <<shutdown, free_list, spc, sidx, early>>
        /\ \A u \in Threads \ {t} : pc'[u] = pc[u] /\ buf'[u] = buf[u]
        /\ pc'[t] # "push"
    BY <1>4
    DEF PopMiss, AllocHostBuffer, AllocFails, RegisterBuffer, RegisterFails
  <2> QED BY <1>1, <1>2, <2>1
<1>5. ASSUME NEW t \in Threads,
             \/ Release(t) \/ PushFull(t) \/ DisposeDeregister(t)
             \/ DisposeFree(t)
      PROVE  LateInv'
  <2>1. /\ UNCHANGED <<shutdown, free_list, spc, sidx, early>>
        /\ \A u \in Threads \ {t} : pc'[u] = pc[u] /\ buf'[u] = buf[u]
        /\ shutdown => pc'[t] # "push"
    BY <1>5 DEF Release, PushFull, DisposeDeregister, DisposeFree
  <2> QED BY <1>1, <1>2, <2>1
<1>6. ASSUME NEW t \in Threads, PopCached(t)
      PROVE  LateInv'
  <2>1. PushIsEarly'
    BY <1>1, <1>6 DEF PopCached
  <2>2. PICK c \in ClassIdx : c = cls[t]
    BY <1>6 DEF PopCached, WorkerOwns, OwnerKnows
  <2>3. /\ free_list[c] \in Seq(Buffers) /\ free_list[c] # <<>>
        /\ free_list' = [free_list EXCEPT
                           ![c] = SubSeq(free_list[c], 1, Len(free_list[c]) - 1)]
        /\ UNCHANGED <<sidx, early>>
    BY <1>6, <2>2 DEF PopCached
  <2>4. Cached(c)' \subseteq Cached(c)
    BY <2>3, FrontMember DEF Cached
  <2>5. \A d \in ClassIdx \ {c} : Cached(d)' = Cached(d)
    BY <2>3 DEF Cached
  <2>6. LateReturnsDestroyed'
    BY <2>3, <2>4, <2>5 DEF LateReturnsDestroyed
  <2> QED BY <2>1, <2>6
<1>7. ASSUME NEW t \in Threads, PushCached(t)
      PROVE  LateInv'
  <2>1. PushIsEarly'
    BY <1>1, <1>7 DEF PushCached
  <2>2. PICK c \in ClassIdx : c = cls[t]
    BY <1>7 DEF PushCached, WorkerOwns, OwnerKnows
  <2>3. /\ free_list[c] \in Seq(Buffers)
        /\ buf[t] \in Buffers
        /\ free_list' = [free_list EXCEPT ![c] = Append(free_list[c], buf[t])]
        /\ UNCHANGED <<sidx, early>>
    BY <1>7, <2>2 DEF PushCached, WorkerOwns, OwnerKnows
  <2>4. Cached(c)' = Cached(c) \cup {buf[t]}
    BY <2>3, AppendMember DEF Cached
  <2>5. \A d \in ClassIdx \ {c} : Cached(d)' = Cached(d)
    BY <2>3 DEF Cached
  <2>6. c < sidx => buf[t] \in early
    <3>1. c < sidx => shutdown
      BY <2>2, ClassFacts DEF PushIsEarly, ClassIdx
    <3> QED BY <1>7, <3>1 DEF PushIsEarly, PushCached
  <2>7. LateReturnsDestroyed'
    BY <2>3, <2>4, <2>5, <2>6 DEF LateReturnsDestroyed
  <2> QED BY <2>1, <2>7
<1>8. CASE ShutdownCas
  <2>1. sidx = 1 /\ shutdown' /\ spc' = "drain"
    BY <1>8 DEF ShutdownCas, PushIsEarly
  <2>2. \A t \in Threads : pc'[t] = "push" => buf'[t] \in early'
    BY <1>8 DEF ShutdownCas
  <2>3. PushIsEarly'
    BY <2>1, <2>2 DEF PushIsEarly
  <2>4. \A c \in ClassIdx : ~(c < sidx')
    BY <1>8, <2>1, ClassFacts DEF ShutdownCas, ClassIdx
  <2> QED BY <2>3, <2>4 DEF LateReturnsDestroyed
<1>9. CASE ShutdownDrain
  <2>1. shutdown
    <3>1. spc # "running"
      BY <1>9 DEF ShutdownDrain
    <3> QED BY <3>1, Zenon DEF PushIsEarly
  <2>2. PushIsEarly'
    <3>1. /\ UNCHANGED <<shutdown, spc, pc, buf, early>>
          /\ spc # "running"
      BY <1>9 DEF ShutdownDrain
    <3>2. shutdown' /\ spc' # "running"
      BY <2>1, <3>1, Zenon
    <3>3. \A t \in Threads : pc'[t] = "push" => buf'[t] \in early'
      BY <2>1, <3>1 DEF PushIsEarly
    <3> QED BY <3>2, <3>3, Zenon DEF PushIsEarly
  <2>0. PICK c \in ClassIdx : c = sidx
    BY <1>9 DEF ShutdownDrain
  <2>3. /\ Cached(c)' = {}
        /\ \A d \in ClassIdx \ {c} : Cached(d)' = Cached(d)
    BY <1>9, <2>0, EmptyHasNoMember DEF ShutdownDrain, Cached
  <2>4. \A d \in ClassIdx : d < sidx' => d = c \/ d < sidx
    BY <1>9, <2>0, ClassFacts DEF ShutdownDrain, ClassIdx
  <2>5. early' = early
    BY <1>9 DEF ShutdownDrain
  <2> QED BY <2>2, <2>3, <2>4, <2>5 DEF LateReturnsDestroyed
<1>10. CASE ShutdownDrained \/ ShutdownDeregister \/ ShutdownFree
  <2>1. /\ UNCHANGED <<shutdown, free_list, pc, buf, sidx, early>>
        /\ spc # "running" /\ spc' # "running"
    BY <1>10 DEF ShutdownDrained, ShutdownDeregister, ShutdownFree
  <2>2. PushIsEarly'
    BY <2>1 DEF PushIsEarly
  <2> QED BY <1>2, <2>1, <2>2
<1>11. CASE UNCHANGED vars
  BY <1>2, <1>11 DEF vars, PushIsEarly
<1> QED
  BY <1>3, <1>4, <1>5, <1>6, <1>7, <1>8, <1>9, <1>10, <1>11
  DEF Next, Worker, AcquireStep, ReleaseStep, ShutdownStep

\* Whatever the number of workers and wherever they are when Shutdown is
\* called, a drained class only gets back what was already being returned.
THEOREM LateLeasesDestroyed == Spec => []LateReturnsDestroyed
<1>1. LateInv => LateReturnsDestroyed
  BY DEF LateInv
<1> QED BY InitLateInv, NextLateInv, PoolInvariant, <1>1, PTL DEF Spec

-----------------------------------------------------------------------------
(* Refinement *)

\* A newly constructed pool has granted no lease.
LEMMA InitRefines == Init => Leasing!Init
  BY DEF Init, Leasing!Init, Held

\* Every step of the pool is a step of the leasing contract or leaves its
\* state alone: a lease begins in PopCached or RegisterBuffer, ends in
\* Release, and the two deregistrations unpin a buffer nobody leases.
LEMMA NextRefines ==
  ASSUME PoolInv, PoolInv', [Next]_vars
  PROVE  [Leasing!Next]_(Leasing!vars)
<1> USE DEF Goto, Leave, poolVars, workerVars, stopVars, PoolInv, TypeOK,
            Leasing!vars
<1>1. ASSUME NEW t \in Threads, NEW b \in Buffers,
             \A u \in Threads : pc[u] = "leased" => buf[u] # b,
             pc[t] # "leased", pc' = [pc EXCEPT ![t] = "leased"],
             buf'[t] = b, \A u \in Threads \ {t} : buf'[u] = buf[u],
             registered' = registered \cup {b}
      PROVE  Leasing!Next
  <2>1. Held' = [Held EXCEPT ![t] = b]
    BY <1>1 DEF Held
  <2>2. Held[t] = NoBuf /\ \A u \in Threads : Held[u] # b
    BY <1>1, PoolAssumption DEF Held
  <2>3. Leasing!Lease(t, b)
    BY <1>1, <2>1, <2>2 DEF Leasing!Lease
  <2> QED BY <2>3 DEF Leasing!Next
<1>2. ASSUME NEW b \in Buffers,
             \A u \in Threads : pc[u] = "leased" => buf[u] # b,
             Held' = Held, registered' = registered \ {b}
      PROVE  Leasing!Next
  <2>1. \A u \in Threads : Held[u] # b
    BY <1>2, PoolAssumption DEF Held
  <2>2. Leasing!Unpin(b)
    BY <1>2, <2>1 DEF Leasing!Unpin
  <2> QED BY <2>2 DEF Leasing!Next
<1>3. ASSUME NEW t \in Threads, PopCached(t)
      PROVE  Leasing!Next
  <2>1. PICK c \in ClassIdx : c = cls[t]
    BY <1>3 DEF PopCached, WorkerOwns, OwnerKnows
  <2>2. PICK b \in Cached(c) : buf' = [buf EXCEPT ![t] = b]
    <3>1. free_list[c] \in Seq(Buffers) /\ free_list[c] # <<>>
      BY <1>3, <2>1 DEF PopCached
    <3>2. free_list[c][Len(free_list[c])] \in Cached(c)
      BY <3>1, FrontMember DEF Cached
    <3> QED BY <1>3, <2>1, <3>2 DEF PopCached
  <2>3. b \in Buffers /\ b \in registered /\ \A u \in Threads : buf[u] # b
    BY DEF CachedReady, ExclusiveOwner, LeasedNotCached
  <2>4. /\ pc[t] # "leased" /\ pc' = [pc EXCEPT ![t] = "leased"]
        /\ registered' = registered \cup {b}
    BY <1>3, <2>3 DEF PopCached
  <2> QED BY <1>1, <2>2, <2>3, <2>4
<1>4. ASSUME NEW t \in Threads, RegisterBuffer(t)
      PROVE  Leasing!Next
  <2>1. /\ buf[t] \in Buffers
        /\ \A u \in Threads : pc[u] = "leased" => buf[u] # buf[t]
    BY <1>4 DEF RegisterBuffer, WorkerOwns, OwnerKnows, ExclusiveOwner,
                DistinctLeases
  <2> QED BY <1>1, <1>4, <2>1 DEF RegisterBuffer
<1>5. ASSUME NEW t \in Threads, Release(t)
      PROVE  Leasing!Next
  <2>1. Held[t] # NoBuf
    BY <1>5 DEF Release, Held, WorkerOwns, OwnerKnows
  <2>2. Held' = [Held EXCEPT ![t] = NoBuf] /\ registered' = registered
    BY <1>5 DEF Release, Held
  <2>3. Leasing!Return(t)
    BY <2>1, <2>2 DEF Leasing!Return
  <2> QED BY <2>3 DEF Leasing!Next
<1>6. ASSUME NEW t \in Threads, DisposeDeregister(t)
      PROVE  Leasing!Next
  <2>1. /\ buf[t] \in Buffers
        /\ \A u \in Threads : pc[u] = "leased" => buf[u] # buf[t]
    BY <1>6 DEF DisposeDeregister, WorkerOwns, OwnerKnows, ExclusiveOwner,
                DistinctLeases
  <2>2. Held' = Held /\ registered' = registered \ {buf[t]}
    BY <1>6 DEF DisposeDeregister, Held
  <2> QED BY <1>2, <2>1, <2>2
<1>7. CASE ShutdownDeregister
  <2>1. /\ Head(to_destroy) \in Buffers
        /\ \A u \in Threads : buf[u] # Head(to_destroy)
    BY <1>7, TailMember
    DEF ShutdownDeregister, DrainReady, ExclusiveOwner, LeasedNotCached, Draining
  <2>2. Held' = Held /\ registered' = registered \ {Head(to_destroy)}
    BY <1>7 DEF ShutdownDeregister, Held
  <2> QED BY <1>2, <2>1, <2>2
<1>8. ASSUME NEW t \in Threads, NEW size \in Sizes, Acquire(t, size)
      PROVE  UNCHANGED Leasing!vars
  BY <1>8 DEF Acquire, Held
<1>9. ASSUME NEW t \in Threads,
             \/ PopMiss(t) \/ AllocHostBuffer(t) \/ AllocFails(t)
             \/ RegisterFails(t) \/ PushCached(t) \/ PushFull(t)
             \/ DisposeFree(t)
      PROVE  UNCHANGED Leasing!vars
  <2>1. /\ registered' = registered
        /\ pc[t] # "leased" /\ pc'[t] # "leased"
        /\ \A u \in Threads \ {t} : pc'[u] = pc[u] /\ buf'[u] = buf[u]
    BY <1>9
    DEF PopMiss, AllocHostBuffer, AllocFails, RegisterFails, PushCached,
        PushFull, DisposeFree
  <2> QED BY <2>1 DEF Held
<1>10. CASE ShutdownCas \/ ShutdownDrain \/ ShutdownDrained \/ ShutdownFree
  BY <1>10
  DEF ShutdownCas, ShutdownDrain, ShutdownDrained, ShutdownFree, Held
<1>11. CASE UNCHANGED vars
  BY <1>11 DEF vars, Held
<1> QED
  BY <1>3, <1>4, <1>5, <1>6, <1>7, <1>8, <1>9, <1>10, <1>11
  DEF Next, Worker, AcquireStep, ReleaseStep, ShutdownStep

\* The pool with its free lists, classes and shutdown flag implements the
\* leasing contract its users rely on.
THEOREM PoolImplementsLeasing == Spec => ImplementsLeasing
<1>1. PoolInv /\ PoolInv' /\ [Next]_vars => [Leasing!Next]_(Leasing!vars)
  BY NextRefines
<1> QED
  BY InitRefines, PoolInvariant, <1>1, PTL
  DEF Spec, ImplementsLeasing, Leasing!Spec
=============================================================================
