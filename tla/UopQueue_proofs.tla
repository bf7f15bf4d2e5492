---------------------------- MODULE UopQueue_proofs ----------------------------
(***************************************************************************)
(* The micro-op cache, for any kernels, any size of the SRAM and any       *)
(* number of operations in a batch.                                        *)
(***************************************************************************)
EXTENDS UopQueue, WellFoundedInduction, TLAPS, SequenceTheorems

\* A set of natural numbers has a least element: the way to an induction.
LEMMA LeastNumber ==
    ASSUME NEW S \in SUBSET Nat, S # {}
    PROVE  \E m \in S : \A j \in S : m <= j
<1> DEFINE R == {p \in Nat \X Nat : p[1] < p[2]}
<1>1. IsWellFoundedOn(R, Nat)
    BY NatLessThanWellFounded DEF OpToRel
<1>2. PICK m \in S : \A j \in S : <<j, m>> \notin R
    BY <1>1, WFMin
<1>3. \A j \in S : ~(j < m)
    BY <1>2
<1> QED
    BY <1>3

--------------------------------------------------------------------------------
(* The invariant of the cache: the kernels it holds lie in the SRAM in its *)
(* order, side by side; those up to cache_idx_ before sram_end_, the rest, *)
(* which an earlier round left, behind it.  Each has a load in the batch   *)
(* that no later load has overwritten.                                     *)

Typed ==
    /\ cache \in Seq(Kernel) /\ cacheIdx \in 0..Len(cache)
    /\ where \in [Kernel -> [begin : Nat, end : Nat]]
    /\ sram \in [begin : Nat, end : Nat]
    /\ \E S : insns \in Seq(S)
    /\ \A i \in 1..Len(insns) : insns[i].op \in {"LOAD", "GEMM"}

Placed ==
    /\ \A k \in Kernel : IF \E i \in 1..Len(cache) : cache[i] = k THEN where[k].begin < where[k].end
                         ELSE where[k] = Nowhere
    /\ \A i, j \in 1..Len(cache) : i < j => where[cache[i]].end <= where[cache[j]].begin
    /\ \A i \in 1..Len(cache) : IF i <= cacheIdx THEN where[cache[i]].end <= sram.end
                                ELSE sram.end <= where[cache[i]].begin

LoadOf(k, i) ==
    /\ insns[i].op = "LOAD" /\ insns[i].kernel = k
    /\ insns[i].begin = where[k].begin /\ insns[i].end = where[k].end
Loaded ==
    \A k \in Kernel : Cached(k) =>
        \E i \in 1..Len(insns) :
            /\ LoadOf(k, i)
            /\ \A j \in i + 1..Len(insns) : insns[j].op = "LOAD" => ~Overlaps(insns[j], where[k])

Inv == Typed /\ Placed /\ (status = "host" => Loaded /\ LoadCoversOp)

--------------------------------------------------------------------------------
(* Where a kernel goes.                                                    *)

LEMMA Lengths ==
    /\ \A S : \A s \in Seq(S) : Len(s) \in Nat /\ DOMAIN s = 1..Len(s) /\ \A i \in 1..Len(s) : s[i] \in S
    /\ \A S : \A s \in Seq(S) : \A x : /\ Append(s, x) \in Seq(S \cup {x})
                                       /\ Len(Append(s, x)) = Len(s) + 1
                                       /\ Append(s, x)[Len(s) + 1] = x
                                       /\ \A i \in 1..Len(s) : Append(s, x)[i] = s[i]
<1>1. ASSUME NEW S, NEW s \in Seq(S)
      PROVE  Len(s) \in Nat /\ DOMAIN s = 1..Len(s) /\ \A i \in 1..Len(s) : s[i] \in S
    OBVIOUS
<1>2. ASSUME NEW S, NEW s \in Seq(S), NEW x
      PROVE  /\ Append(s, x) \in Seq(S \cup {x}) /\ Len(Append(s, x)) = Len(s) + 1
             /\ Append(s, x)[Len(s) + 1] = x /\ \A i \in 1..Len(s) : Append(s, x)[i] = s[i]
    <2>1. s \in Seq(S \cup {x})
        BY SeqDef
    <2> QED
        BY <2>1
<1> QED
    BY <1>1, <1>2

\* What leaves the cache begins before the end of the new range, what stays
\* behind it begins at or after.
LEMMA EvictionStops ==
    ASSUME Typed, Placed, NEW n \in Nat
    PROVE  /\ EvictFrom(n) \in 0..Len(cache) /\ EvictTo(n) \in EvictFrom(n)..Len(cache)
           /\ Begin(n) \in Nat /\ End(n) \in Nat
           /\ \A i \in 1..EvictFrom(n) : where[cache[i]].end <= Begin(n)
           /\ \A i \in EvictTo(n) + 1..Len(cache) : End(n) <= where[cache[i]].begin
<1> DEFINE f == EvictFrom(n)
           K == Kept(n)
<1>1. /\ cache \in Seq(Kernel) /\ Len(cache) \in Nat /\ f \in 0..Len(cache)
      /\ Begin(n) \in Nat /\ End(n) \in Nat
    BY Lengths DEF Typed, EvictFrom, Begin, End
<1>2. \A i \in 1..f : where[cache[i]].end <= Begin(n)
    BY <1>1 DEF Placed, Typed, EvictFrom, Begin
<1>3. \A i \in 1..Len(cache) : /\ cache[i] \in Kernel /\ where[cache[i]].begin \in Nat /\ where[cache[i]].end \in Nat
                               /\ where[cache[i]].begin < where[cache[i]].end
    BY <1>1 DEF Typed, Placed
<1>4. CASE K = {}
    <2>1. EvictTo(n) = Len(cache)
        BY <1>4 DEF EvictTo
    <2> QED
        BY <2>1, <1>1, <1>2
<1>5. CASE K # {}
    <2>1. K \in SUBSET Nat /\ \A i \in K : i \in f + 1..Len(cache) /\ End(n) <= where[cache[i]].begin
        BY <1>1 DEF Kept, Typed
    <2>2. \E k \in K : \A j \in K : k <= j
        BY <2>1, <1>5, LeastNumber
    <2>3. PICK m : m = Min(K)
        OBVIOUS
    <2>4. m \in K /\ EvictTo(n) = m - 1
        BY <1>5, <2>2, <2>3 DEF Min, EvictTo
    <2> HIDE DEF f, K
    <2>5. m \in f + 1..Len(cache) /\ m \in 1..Len(cache) /\ End(n) <= where[cache[m]].begin
        BY <2>1, <2>4, <1>1
    <2>6. ASSUME NEW i \in m..Len(cache)
          PROVE  End(n) <= where[cache[i]].begin
        <3>1. i \in 1..Len(cache) /\ (i = m \/ m < i)
            BY <2>5, <1>1
        <3>2. m < i => where[cache[m]].end <= where[cache[i]].begin
            BY <3>1, <2>5 DEF Placed
        <3> QED
            BY <3>1, <3>2, <1>1, <1>3, <2>5
    <2> QED
        BY <2>4, <2>5, <2>6, <1>1, <1>2 DEF f
<1> QED
    BY <1>4, <1>5

\* cache_ with a kernel in the place of those it evicts.
Replaced(s, f, t, x) == SubSeq(s, 1, f) \o <<x>> \o SubSeq(s, t + 1, Len(s))

IsRing(r, s, f, t, x) ==
    /\ Len(r) = f + 1 + Len(s) - t /\ r[f + 1] = x
    /\ \A i \in 1..f : r[i] = s[i]
    /\ \A i \in f + 2..Len(r) : r[i] = s[i - f - 1 + t]

LEMMA Ringed ==
    ASSUME NEW S, NEW s \in Seq(S), NEW f \in 0..Len(s), NEW t \in f..Len(s), NEW x \in S
    PROVE  Replaced(s, f, t, x) \in Seq(S) /\ IsRing(Replaced(s, f, t, x), s, f, t, x)
<1>0. PICK r : r = Replaced(s, f, t, x)
    OBVIOUS
<1>1. PICK p, q : p = SubSeq(s, 1, f) /\ q = SubSeq(s, t + 1, Len(s))
    OBVIOUS
<1>2. Len(s) \in Nat /\ f \in Nat /\ t \in Nat /\ f <= t /\ t <= Len(s) /\ \A i \in 1..Len(s) : s[i] \in S
    BY Lengths
<1>3. p \in Seq(S) /\ Len(p) = f /\ \A i \in 1..f : p[i] = s[i]
    <2>1. \A i \in 1..f : s[i] \in S
        BY <1>2
    <2> QED
        BY <1>1, <1>2, <2>1, SubSeqProperties
<1>4. q \in Seq(S) /\ Len(q) = Len(s) - t /\ \A i \in 1..Len(s) - t : q[i] = s[t + i]
    <2>1. \A i \in t + 1..Len(s) : s[i] \in S
        BY <1>2
    <2>2. /\ q \in Seq(S) /\ Len(q) = IF t + 1 <= Len(s) THEN Len(s) - (t + 1) + 1 ELSE 0
          /\ \A i \in 1..Len(s) - (t + 1) + 1 : q[i] = s[t + 1 + i - 1]
        BY <1>1, <1>2, <2>1, SubSeqProperties
    <2>3. Len(q) = Len(s) - t
        BY <1>2, <2>2
    <2>4. ASSUME NEW i \in 1..Len(s) - t
          PROVE  q[i] = s[t + i]
        <3>1. i \in 1..Len(s) - (t + 1) + 1 /\ t + 1 + i - 1 = t + i
            BY <1>2
        <3> QED
            BY <2>2, <3>1
    <2> QED
        BY <2>2, <2>3, <2>4
<1>5. PICK u : u = p \o <<x>>
    OBVIOUS
<1>6. u \in Seq(S) /\ Len(u) = f + 1 /\ u[f + 1] = x /\ \A i \in 1..f : u[i] = s[i]
    <2>1. u = Append(p, x)
        BY <1>3, <1>5, AppendIsConcat
    <2>2. u \in Seq(S) /\ Len(u) = Len(p) + 1 /\ u[Len(p) + 1] = x /\ \A i \in 1..Len(p) : u[i] = p[i]
        BY <1>3, <2>1, AppendProperties
    <2> QED
        BY <1>3, <2>2
<1>7. /\ u \o q \in Seq(S) /\ Len(u \o q) = Len(u) + Len(q)
      /\ \A i \in 1..Len(u) + Len(q) : (u \o q)[i] = IF i <= Len(u) THEN u[i] ELSE q[i - Len(u)]
    BY <1>4, <1>6, ConcatProperties
<1>8. r = u \o q
    BY <1>0, <1>1, <1>5 DEF Replaced
<1>9. Len(r) = f + 1 + Len(s) - t
    BY <1>2, <1>4, <1>6, <1>7, <1>8
<1>10. ASSUME NEW i \in f + 2..Len(r)
       PROVE  r[i] = s[i - f - 1 + t]
    <2>1. i \in f + 2..f + 1 + Len(s) - t
        BY <1>9
    <2>2. i \in 1..(f + 1) + (Len(s) - t) /\ ~(i <= f + 1) /\ i - (f + 1) \in 1..Len(s) - t
        BY <1>2, <2>1
    <2>3. r[i] = q[i - (f + 1)]
        BY <1>4, <1>6, <1>7, <1>8, <2>2
    <2>4. t + (i - (f + 1)) = i - f - 1 + t
        BY <1>2, <2>2
    <2> QED
        BY <1>4, <2>2, <2>3, <2>4
<1>11. ASSUME NEW i \in 1..f + 1
       PROVE  r[i] = u[i]
    <2>1. i \in 1..(f + 1) + (Len(s) - t) /\ i <= f + 1
        BY <1>2
    <2> QED
        BY <1>4, <1>6, <1>7, <1>8, <2>1
<1>12. f + 1 \in 1..f + 1 /\ \A i \in 1..f : i \in 1..f + 1
    BY <1>2
<1> QED
    BY <1>0, <1>6, <1>7, <1>8, <1>9, <1>10, <1>11, <1>12 DEF IsRing

\* No kernel is in the cache twice.
LEMMA Distinct ==
    ASSUME Typed, Placed
    PROVE  /\ cache \in Seq(Kernel) /\ Len(cache) \in Nat
           /\ \A i \in 1..Len(cache) : /\ cache[i] \in Kernel /\ where[cache[i]].begin \in Nat
                                       /\ where[cache[i]].end \in Nat
                                       /\ where[cache[i]].begin < where[cache[i]].end
           /\ \A i, j \in 1..Len(cache) : cache[i] = cache[j] => i = j
           /\ \A k \in Kernel : Cached(k) <=> \E i \in 1..Len(cache) : cache[i] = k
<1>1. /\ cache \in Seq(Kernel) /\ Len(cache) \in Nat
      /\ \A i \in 1..Len(cache) : /\ cache[i] \in Kernel /\ where[cache[i]].begin \in Nat
                                  /\ where[cache[i]].end \in Nat
                                  /\ where[cache[i]].begin < where[cache[i]].end
    BY Lengths DEF Typed, Placed
<1>2. \A i, j \in 1..Len(cache) : i < j => cache[i] # cache[j]
    BY <1>1 DEF Placed
<1>3. \A i, j \in 1..Len(cache) : i = j \/ i < j \/ j < i
    BY <1>1
<1>4. \A k \in Kernel : Cached(k) <=> \E i \in 1..Len(cache) : cache[i] = k
    <2> TAKE k \in Kernel
    <2>1. where[k].begin \in Nat /\ where[k].end \in Nat
        BY DEF Typed
    <2>2. CASE \E i \in 1..Len(cache) : cache[i] = k
        <3>1. where[k].begin < where[k].end
            BY <2>2 DEF Placed
        <3> QED
            BY <2>1, <2>2, <3>1 DEF Cached
    <2>3. CASE ~\E i \in 1..Len(cache) : cache[i] = k
        <3>1. where[k] = Nowhere
            BY <2>3 DEF Placed
        <3> QED
            BY <2>3, <3>1 DEF Cached, Nowhere
    <2> QED
        BY <2>2, <2>3
<1> QED
    BY <1>1, <1>2, <1>3, <1>4

\* A kernel that was not cached gets its range, and those it overlaps lose theirs.
LEMMA PlaceStep ==
    ASSUME Typed, Placed, NEW k \in Kernel, ~Cached(k), NEW n \in Nat \ {0},
           cache' = Ring(k, n), cacheIdx' = EvictFrom(n) + 1,
           sram' = [begin |-> End(n), end |-> End(n)],
           where' = [j \in Kernel |-> IF j = k THEN [begin |-> Begin(n), end |-> End(n)]
                                      ELSE IF j \in Evicted(n) THEN Nowhere ELSE where[j]]
    PROVE  /\ cache' \in Seq(Kernel) /\ cacheIdx' \in 0..Len(cache')
           /\ where' \in [Kernel -> [begin : Nat, end : Nat]]
           /\ sram' \in [begin : Nat, end : Nat]
           /\ Placed'
           /\ \A j \in Kernel : Cached(j)' => j = k \/ (Cached(j) /\ where'[j] = where[j])
           /\ \A j \in Kernel : j # k /\ Cached(j)' => ~Overlaps(where'[k], where'[j])
           /\ Cached(k)'
<1>1. PICK f, t : f = EvictFrom(n) /\ t = EvictTo(n)
    OBVIOUS
<1>2. PICK b, e : b = Begin(n) /\ e = End(n)
    OBVIOUS
<1>3. /\ f \in 0..Len(cache) /\ t \in f..Len(cache) /\ b \in Nat /\ e \in Nat /\ b < e
      /\ \A i \in 1..f : where[cache[i]].end <= b
      /\ \A i \in t + 1..Len(cache) : e <= where[cache[i]].begin
    <2>1. n \in Nat /\ n > 0
        OBVIOUS
    <2>2. b \in Nat /\ e = b + n
        BY <1>2, <2>1, EvictionStops DEF End
    <2>3. b < e
        BY <2>1, <2>2
    <2> QED
        BY <1>1, <1>2, <2>1, <2>3, EvictionStops
<1>b. b \in Nat /\ e \in Nat /\ b < e
    BY <1>3
<1>4. PICK r, w : r = cache' /\ w = where'
    OBVIOUS
<1>5. /\ r \in Seq(Kernel) /\ Len(r) = f + 1 + Len(cache) - t /\ r[f + 1] = k
      /\ \A i \in 1..f : r[i] = cache[i]
      /\ \A i \in f + 2..Len(r) : r[i] = cache[i - f - 1 + t]
    <2>1. r = Replaced(cache, f, t, k)
        BY <1>1, <1>4 DEF Ring, Replaced
    <2>2. cache \in Seq(Kernel) /\ f \in 0..Len(cache) /\ t \in f..Len(cache)
        BY <1>3, Distinct
    <2>3. k \in Kernel
        OBVIOUS
    <2>4. r \in Seq(Kernel) /\ IsRing(r, cache, f, t, k)
        BY <2>1, <2>2, <2>3, Ringed
    <2> QED
        BY <2>4 DEF IsRing
<1>6. \A i \in 1..Len(cache) : cache[i] # k
    BY Distinct
<1>7. /\ w \in [Kernel -> [begin : Nat, end : Nat]] /\ w[k] = [begin |-> b, end |-> e]
      /\ \A j \in Kernel \ {k} : w[j] = IF \E i \in f + 1..t : j = cache[i] THEN Nowhere ELSE where[j]
    BY <1>1, <1>2, <1>3, <1>4 DEF Typed, Nowhere, Evicted
<1>0. w[k].begin = b /\ w[k].end = e
    BY <1>7
<1>8. \A i \in 1..Len(cache) : w[cache[i]] = IF i \in f + 1..t THEN Nowhere ELSE where[cache[i]]
    <2> TAKE i \in 1..Len(cache)
    <2>1. cache[i] \in Kernel \ {k}
        BY <1>6, Distinct
    <2>2. \A j \in f + 1..t : j \in 1..Len(cache)
        BY <1>3, Distinct
    <2>3. (\E j \in f + 1..t : cache[i] = cache[j]) <=> i \in f + 1..t
        BY <2>2, Distinct
    <2> QED
        BY <1>7, <2>1, <2>3
\* Of each place of the ring: the kernel it had before and where it lies.
<1>9. \A i \in 1..Len(r) :
         \/ i <= f /\ i \in 1..Len(cache) /\ r[i] = cache[i] /\ w[r[i]] = where[cache[i]]
         \/ i = f + 1 /\ r[i] = k
         \/ /\ f + 1 < i /\ i - f - 1 + t \in t + 1..Len(cache) /\ i - f - 1 + t \in 1..Len(cache)
            /\ r[i] = cache[i - f - 1 + t] /\ w[r[i]] = where[cache[i - f - 1 + t]]
    <2> TAKE i \in 1..Len(r)
    <2>1. Len(cache) \in Nat
        BY Distinct
    <2>2. CASE i <= f
        <3>1. i \in 1..Len(cache) /\ i \in 1..f /\ i \notin f + 1..t
            BY <1>3, <2>1, <2>2
        <3> QED
            BY <1>5, <1>8, <2>2, <3>1
    <2>3. CASE i = f + 1
        BY <1>5, <2>3
    <2>4. CASE f + 1 < i
        <3>1. /\ i \in f + 2..Len(r) /\ i - f - 1 + t \in t + 1..Len(cache)
              /\ i - f - 1 + t \in 1..Len(cache) /\ i - f - 1 + t \notin f + 1..t
            BY <1>3, <1>5, <2>1, <2>4
        <3> QED
            BY <1>5, <1>8, <2>4, <3>1
    <2> QED
        BY <1>3, <1>5, <2>1, <2>2, <2>3, <2>4
<1>10. \A i \in 1..Len(cache) : i \in 1..f \/ i \in f + 1..t \/ i \in t + 1..Len(cache)
    BY <1>3, Distinct
<1>11. \A i \in t + 1..Len(cache) : i - t + f + 1 \in 1..Len(r) /\ r[i - t + f + 1] = cache[i]
    <2> TAKE i \in t + 1..Len(cache)
    <2>1. i - t + f + 1 \in f + 2..Len(r) /\ i - t + f + 1 \in 1..Len(r) /\ (i - t + f + 1) - f - 1 + t = i
        BY <1>3, <1>5, Distinct
    <2> QED
        BY <1>5, <2>1
<1>12. /\ f + 1 \in 1..Len(r) /\ \A i \in 1..f : i \in 1..Len(r)
       /\ Len(r) \in Nat
    BY <1>3, <1>5, Distinct
<1>13. ASSUME NEW j \in Kernel
       PROVE  IF \E i \in 1..Len(r) : r[i] = j THEN w[j].begin < w[j].end ELSE w[j] = Nowhere
    <2>1. CASE \E i \in 1..Len(r) : r[i] = j
        <3>1. PICK i \in 1..Len(r) : r[i] = j
            BY <2>1
        <3>2. w[j].begin < w[j].end
            <4>1. i = f + 1 => j = k
                BY <1>5, <3>1
            <4>2. i # f + 1 => \E x \in 1..Len(cache) : w[j] = where[cache[x]]
                BY <1>9, <3>1
            <4> QED
                BY <1>0, <1>3, <4>1, <4>2, Distinct
        <3> QED
            BY <2>1, <3>2
    <2>2. CASE ~\E i \in 1..Len(r) : r[i] = j
        <3>1. j # k
            BY <1>5, <1>12, <2>2
        <3>2. CASE \E i \in 1..Len(cache) : cache[i] = j
            <4>1. PICK i \in 1..Len(cache) : cache[i] = j
                BY <3>2
            <4>2. i \notin 1..f /\ i \notin t + 1..Len(cache)
                BY <1>5, <1>11, <1>12, <2>2, <4>1
            <4> QED
                BY <1>8, <1>10, <2>2, <4>1, <4>2
        <3>3. CASE ~\E i \in 1..Len(cache) : cache[i] = j
            <4>1. where[j] = Nowhere
                BY <3>3 DEF Placed
            <4> QED
                BY <1>7, <2>2, <3>1, <4>1
        <3> QED
            BY <3>2, <3>3
    <2> QED
        BY <2>1, <2>2
<1>14. ASSUME NEW i \in 1..Len(r), NEW j \in 1..Len(r), i < j
       PROVE  w[r[i]].end <= w[r[j]].begin
    <2>1. \A x, y \in 1..Len(cache) : x < y => where[cache[x]].end <= where[cache[y]].begin
        BY DEF Placed
    <2>2. f \in Nat /\ t \in Nat /\ f <= t /\ i \in Nat /\ j \in Nat
        BY <1>3, <1>12, Distinct
    <2>3. CASE j <= f
        <3>1. i <= f
            BY <2>2, <2>3, <1>14
        <3>2. i # f + 1 /\ ~(f + 1 < i) /\ j # f + 1 /\ ~(f + 1 < j)
            BY <2>2, <2>3, <3>1
        <3> QED
            BY <1>9, <1>14, <2>1, <3>2
    <2>4. CASE j = f + 1
        <3>1. i <= f /\ i # f + 1 /\ ~(f + 1 < i) /\ i \in 1..f
            BY <2>2, <2>4, <1>14
        <3> QED
            BY <1>0, <1>3, <1>5, <1>9, <2>4, <3>1
    <2>5. CASE f + 1 < j
        <3>1. j # f + 1 /\ ~(j <= f)
            BY <2>2, <2>5
        <3>2. PICK y : y = j - f - 1 + t
            OBVIOUS
        <3>3. y \in t + 1..Len(cache) /\ y \in 1..Len(cache) /\ w[r[j]] = where[cache[y]]
            BY <1>9, <3>1, <3>2
        <3>4. CASE i <= f
            <4>1. i # f + 1 /\ ~(f + 1 < i) /\ i < y
                BY <2>2, <3>3, <3>4
            <4> QED
                BY <1>9, <2>1, <3>3, <4>1
        <3>5. CASE i = f + 1
            BY <1>0, <1>3, <1>5, <3>3, <3>5
        <3>6. CASE f + 1 < i
            <4>1. i # f + 1 /\ ~(i <= f) /\ i - f - 1 + t < y
                BY <2>2, <3>2, <3>6, <1>14
            <4> QED
                BY <1>9, <2>1, <3>3, <4>1
        <3> QED
            BY <2>2, <3>4, <3>5, <3>6
    <2> QED
        BY <2>2, <2>3, <2>4, <2>5
<1>15. ASSUME NEW i \in 1..Len(r)
       PROVE  IF i <= f + 1 THEN w[r[i]].end <= e ELSE e <= w[r[i]].begin
    <2>1. f \in Nat /\ i \in Nat
        BY <1>3, <1>12
    <2>2. CASE i <= f
        <3>1. i # f + 1 /\ ~(f + 1 < i) /\ i \in 1..f /\ i <= f + 1
            BY <2>1, <2>2
        <3>2. w[r[i]].end <= b /\ w[r[i]].end \in Nat
            BY <1>3, <1>9, <3>1, Distinct
        <3> QED
            BY <1>3, <3>1, <3>2
    <2>3. CASE i = f + 1
        BY <1>0, <1>3, <1>5, <2>1, <2>3
    <2>4. CASE f + 1 < i
        <3>1. ~(i <= f) /\ i # f + 1 /\ ~(i <= f + 1)
            BY <2>1, <2>4
        <3> QED
            BY <1>3, <1>9, <3>1
    <2> QED
        BY <2>1, <2>2, <2>3, <2>4
<1>16. cacheIdx' = f + 1 /\ sram' = [begin |-> e, end |-> e] /\ sram'.end = e
    BY <1>1, <1>2
<1>17. Placed'
    BY <1>4, <1>13, <1>14, <1>15, <1>16 DEF Placed
<1>18. \A j \in Kernel : Cached(j)' => \E i \in 1..Len(r) : r[i] = j
    BY <1>4, <1>7, <1>13 DEF Cached, Nowhere
<1>19. ASSUME NEW j \in Kernel, Cached(j)', j # k
       PROVE  Cached(j) /\ w[j] = where[j] /\ ~Overlaps(w[k], w[j])
    <2>1. PICK i \in 1..Len(r) : r[i] = j
        BY <1>18, <1>19
    <2>2. i # f + 1
        BY <1>5, <1>19, <2>1
    <2>3. Cached(j) /\ w[j] = where[j]
        BY <1>9, <2>1, <2>2, Distinct
    <2>4. w[j].end <= b \/ e <= w[j].begin
        <3>1. i <= f => i \in 1..f
            BY <1>3, <1>12
        <3> QED
            BY <1>3, <1>9, <2>1, <2>2, <3>1
    <2>5. w[j].begin \in Nat /\ w[j].end \in Nat
        BY <1>7
    <2>6. ~(b < w[j].end /\ w[j].begin < e)
        BY <1>b, <2>4, <2>5
    <2> QED
        BY <1>0, <2>3, <2>6 DEF Overlaps
<1>20. Cached(k)'
    BY <1>0, <1>3, <1>4 DEF Cached
<1>21. /\ r \in Seq(Kernel) /\ cacheIdx' \in 0..Len(r) /\ sram' \in [begin : Nat, end : Nat]
    BY <1>3, <1>5, <1>12, <1>16
<1> QED
    BY <1>4, <1>7, <1>17, <1>19, <1>20, <1>21

--------------------------------------------------------------------------------
(* The batch.                                                              *)

\* What an instruction needs is in those before it: appending keeps it.
Covered(s, n) ==
    s[n].op = "GEMM" =>
        \E i \in 1..n - 1 :
            /\ s[i].op = "LOAD" /\ Overlaps(s[i], s[n])
            /\ \A j \in 1..n - 1 : s[j].op = "LOAD" /\ Overlaps(s[j], s[n]) => j <= i
            /\ s[i].kernel = s[n].kernel /\ s[i].begin = s[n].begin /\ s[i].end = s[n].end

LEMMA CoversAll ==
    ASSUME Typed
    PROVE  LoadCoversOp <=> (status = "host" => \A n \in 1..Len(insns) : Covered(insns, n))
<1>1. DOMAIN insns = 1..Len(insns)
    BY Lengths DEF Typed
<1>2. ASSUME NEW n \in 1..Len(insns)
      PROVE  Covered(insns, n) <=>
             (insns[n].op = "GEMM" =>
                \E i \in LoadsBefore(n) :
                    /\ \A j \in LoadsBefore(n) : j <= i
                    /\ insns[i].kernel = insns[n].kernel
                    /\ insns[i].begin = insns[n].begin /\ insns[i].end = insns[n].end)
    BY DEF Covered, LoadsBefore
<1> QED
    BY <1>1, <1>2 DEF LoadCoversOp

LEMMA CoversAllNext ==
    ASSUME Typed'
    PROVE  LoadCoversOp' <=> (status' = "host" => \A n \in 1..Len(insns') : Covered(insns', n))
<1>1. DOMAIN insns' = 1..Len(insns')
    BY Lengths DEF Typed
<1>2. ASSUME NEW n \in 1..Len(insns')
      PROVE  Covered(insns', n) <=>
             (insns'[n].op = "GEMM" =>
                \E i \in LoadsBefore(n)' :
                    /\ \A j \in LoadsBefore(n)' : j <= i
                    /\ insns'[i].kernel = insns'[n].kernel
                    /\ insns'[i].begin = insns'[n].begin /\ insns'[i].end = insns'[n].end)
    BY DEF Covered, LoadsBefore
<1> QED
    BY <1>1, <1>2 DEF LoadCoversOp

LEMMA CoveredStays ==
    ASSUME NEW S, NEW s \in Seq(S), NEW T, NEW t \in Seq(T), Len(s) <= Len(t),
           \A i \in 1..Len(s) : t[i] = s[i],
           NEW n \in 1..Len(s), Covered(s, n)
    PROVE  Covered(t, n)
<1>1. Len(s) \in Nat /\ \A i \in 1..n - 1 : i \in 1..Len(s)
    BY Lengths
<1>2. t[n] = s[n] /\ \A i \in 1..n - 1 : t[i] = s[i]
    BY <1>1
<1> QED
    BY <1>2 DEF Covered

\* An operation of a kernel that has its range and its load is covered.
LEMMA CoveredNow ==
    ASSUME NEW S, NEW s \in Seq(S), NEW k, NEW b \in Nat, NEW e \in Nat, b < e,
           NEW i \in 1..Len(s), s[i].op = "LOAD", s[i].kernel = k, s[i].begin = b, s[i].end = e,
           \A j \in i + 1..Len(s) :
               s[j].op = "LOAD" => ~Overlaps(s[j], [begin |-> b, end |-> e]),
           NEW x, x.op = "GEMM", x.kernel = k, x.begin = b, x.end = e
    PROVE  Covered(Append(s, x), Len(s) + 1)
<1>1. PICK t : t = Append(s, x)
    OBVIOUS
<1>2. Len(s) \in Nat /\ t[Len(s) + 1] = x /\ \A j \in 1..Len(s) : t[j] = s[j]
    BY <1>1, Lengths
<1>3. (Len(s) + 1) - 1 = Len(s)
    BY <1>2
<1>4. Overlaps(s[i], x)
    BY DEF Overlaps
<1>5. ASSUME NEW j \in 1..Len(s), s[j].op = "LOAD", Overlaps(s[j], x)
      PROVE  j <= i
    <2>1. Overlaps(s[j], [begin |-> b, end |-> e])
        BY <1>5 DEF Overlaps
    <2>2. j \notin i + 1..Len(s)
        BY <1>5, <2>1
    <2> QED
        BY <1>2, <2>2
<1> QED
    BY <1>1, <1>2, <1>3, <1>4, <1>5 DEF Covered

\* The operations of a kernel in the SRAM.
LEMMA CachedStep ==
    ASSUME Inv, NEW a \in Ask, PushCached(a)
    PROVE  Inv'
<1> DEFINE k == KernelOf(a)
           x == OpInsn(a, kmap[k], where[k].begin, where[k].end)
<1>1. /\ k \in Kernel /\ Cached(k) /\ status = "host" /\ status' = "host" /\ insns' = Append(insns, x)
      /\ cache' = cache /\ cacheIdx' = cacheIdx /\ sram' = sram /\ where' = where
    BY DEF PushCached, Spend, Kernel
<1>2. x.op = "GEMM" /\ x.kernel = k /\ x.begin = where[k].begin /\ x.end = where[k].end
    BY DEF OpInsn
<1> HIDE DEF k, x
<1>3. Typed /\ Placed /\ Loaded /\ LoadCoversOp
    BY <1>1 DEF Inv
<1>4. PICK S : insns \in Seq(S)
    BY <1>3 DEF Typed
<1>5. /\ insns' \in Seq(S \cup {x}) /\ Len(insns') = Len(insns) + 1 /\ insns'[Len(insns) + 1] = x
      /\ Len(insns) \in Nat /\ \A i \in 1..Len(insns) : insns'[i] = insns[i]
    BY <1>1, <1>4, Lengths
<1>6. \A i \in 1..Len(insns') : i \in 1..Len(insns) \/ i = Len(insns) + 1
    BY <1>5
<1>7. Typed'
    <2>1. \A i \in 1..Len(insns') : insns'[i].op \in {"LOAD", "GEMM"}
        BY <1>2, <1>3, <1>5, <1>6 DEF Typed
    <2> QED
        BY <1>1, <1>3, <1>5, <2>1 DEF Typed
<1>8. Placed'
    BY <1>1, <1>3 DEF Placed
<1>9. Loaded'
    <2>1. ASSUME NEW j \in Kernel, Cached(j)
          PROVE  \E i \in 1..Len(insns') :
                     /\ LoadOf(j, i)'
                     /\ \A m \in i + 1..Len(insns') : insns'[m].op = "LOAD" => ~Overlaps(insns'[m], where[j])
        <3>1. PICK i \in 1..Len(insns) :
                     /\ LoadOf(j, i)
                     /\ \A m \in i + 1..Len(insns) : insns[m].op = "LOAD" => ~Overlaps(insns[m], where[j])
            BY <1>3, <2>1 DEF Loaded
        <3>2. i \in 1..Len(insns') /\ LoadOf(j, i)'
            BY <1>1, <1>5, <3>1 DEF LoadOf
        <3>3. ASSUME NEW m \in i + 1..Len(insns'), insns'[m].op = "LOAD"
              PROVE  ~Overlaps(insns'[m], where[j])
            <4>1. m # Len(insns) + 1
                BY <1>2, <1>5, <3>3
            <4>2. m \in i + 1..Len(insns) /\ m \in 1..Len(insns)
                BY <1>5, <4>1
            <4> QED
                BY <1>5, <3>1, <3>3, <4>2
        <3> QED
            BY <3>2, <3>3
    <2>2. \A j \in Kernel : Cached(j)' <=> Cached(j)
        BY <1>1 DEF Cached
    <2> QED
        BY <1>1, <2>1, <2>2 DEF Loaded
<1>10. \A n \in 1..Len(insns') : Covered(insns', n)
    <2>1. \A n \in 1..Len(insns) : Covered(insns, n)
        BY <1>1, <1>3, CoversAll
    <2>2. \A n \in 1..Len(insns) : Covered(insns', n)
        BY <1>4, <1>5, <2>1, CoveredStays
    <2>3. PICK i \in 1..Len(insns) :
                 /\ LoadOf(k, i)
                 /\ \A m \in i + 1..Len(insns) : insns[m].op = "LOAD" => ~Overlaps(insns[m], where[k])
        BY <1>1, <1>3 DEF Loaded
    <2>4. PICK b, e : b = where[k].begin /\ e = where[k].end
        OBVIOUS
    <2>5. b \in Nat /\ e \in Nat /\ b < e
        BY <1>1, <1>3, <2>4, Distinct
    <2>6. \A m \in i + 1..Len(insns) : insns[m].op = "LOAD" => ~Overlaps(insns[m], [begin |-> b, end |-> e])
        BY <2>3, <2>4 DEF Overlaps
    <2>7. /\ insns[i].op = "LOAD" /\ insns[i].kernel = k /\ insns[i].begin = b /\ insns[i].end = e
          /\ x.op = "GEMM" /\ x.kernel = k /\ x.begin = b /\ x.end = e
        BY <1>2, <2>3, <2>4 DEF LoadOf
    <2>8. Covered(insns', Len(insns) + 1)
        BY <1>1, <1>4, <2>5, <2>6, <2>7, CoveredNow
    <2> QED
        BY <1>6, <2>2, <2>8
<1>11. LoadCoversOp'
    BY <1>7, <1>10, CoversAllNext
<1> QED
    BY <1>7, <1>8, <1>9, <1>11 DEF Inv

LEMMA AppendTwo ==
    ASSUME NEW S, NEW s \in Seq(S), NEW x, NEW y
    PROVE  s \o <<x, y>> = Append(Append(s, x), y)
<1>1. PICK T : T = S \cup {x, y}
    OBVIOUS
<1>2. s \in Seq(T) /\ x \in T /\ y \in T
    BY <1>1, SeqDef
<1>3. PICK d : d = <<x, y>>
    OBVIOUS
<1>4. d \in Seq(T) /\ Len(d) = 2 /\ d[1] = x /\ d[2] = y
    BY <1>2, <1>3
<1>5. PICK l : l = s \o d
    OBVIOUS
<1>6. /\ l \in Seq(T) /\ Len(s) \in Nat /\ Len(l) = Len(s) + 2
      /\ \A i \in 1..Len(s) + 2 : l[i] = IF i <= Len(s) THEN s[i] ELSE d[i - Len(s)]
    <2>1. /\ s \o d \in Seq(T) /\ Len(s \o d) = Len(s) + Len(d)
          /\ \A i \in 1..Len(s) + Len(d) : (s \o d)[i] = IF i <= Len(s) THEN s[i] ELSE d[i - Len(s)]
        BY <1>2, <1>4, ConcatProperties
    <2> QED
        BY <1>2, <1>4, <1>5, <2>1, Lengths
<1>7. PICK p, q : p = Append(s, x) /\ q = Append(p, y)
    OBVIOUS
<1>8. /\ p \in Seq(T) /\ Len(p) = Len(s) + 1 /\ p[Len(s) + 1] = x /\ \A i \in 1..Len(s) : p[i] = s[i]
      /\ q \in Seq(T) /\ Len(q) = Len(p) + 1 /\ q[Len(p) + 1] = y /\ \A i \in 1..Len(p) : q[i] = p[i]
    BY <1>2, <1>7, AppendProperties
<1>9. ASSUME NEW i \in 1..Len(s) + 2
      PROVE  l[i] = q[i]
    <2>1. CASE i \in 1..Len(s)
        <3>1. i \in 1..Len(p) /\ i <= Len(s)
            BY <1>6, <1>8, <2>1
        <3> QED
            BY <1>6, <1>8, <2>1, <3>1
    <2>2. CASE i = Len(s) + 1
        <3>1. i \in 1..Len(p) /\ ~(i <= Len(s)) /\ i - Len(s) = 1
            BY <1>6, <1>8, <2>2
        <3> QED
            BY <1>4, <1>6, <1>8, <2>2, <3>1
    <2>3. CASE i = Len(s) + 2
        <3>1. i = Len(p) + 1 /\ ~(i <= Len(s)) /\ i - Len(s) = 2
            BY <1>6, <1>8, <2>3
        <3> QED
            BY <1>4, <1>6, <1>8, <3>1
    <2> QED
        BY <1>6, <2>1, <2>2, <2>3
<1>10. Len(l) = Len(q)
    BY <1>6, <1>8
<1>11. \A i \in 1..Len(l) : l[i] = q[i]
    BY <1>6, <1>9
<1>12. l = q
    BY <1>6, <1>8, <1>10, <1>11, SeqEqual
<1> QED
    BY <1>3, <1>5, <1>7, <1>12

\* The operations of a kernel that has to be placed and loaded first.
LEMMA UncachedStep ==
    ASSUME Inv, NEW a \in Ask, PushUncached(a)
    PROVE  Inv'
<1> DEFINE k == KernelOf(a)
           n == Len(Lookup(a).seq)
           b == Begin(n)
           e == End(n)
           ld == LoadInsn(k, n)
           x == OpInsn(a, Lookup(a), b, e)
<1>1. /\ k \in Kernel /\ ~Cached(k) /\ status = "host" /\ status' = "host" /\ insns' = insns \o <<ld, x>>
      /\ n \in Nat \ {0} /\ n \in Nat
      /\ cache' = Ring(k, n) /\ cacheIdx' = EvictFrom(n) + 1
      /\ sram' = [begin |-> e, end |-> e]
      /\ where' = [j \in Kernel |-> IF j = k THEN [begin |-> b, end |-> e]
                                    ELSE IF j \in Evicted(n) THEN Nowhere ELSE where[j]]
    BY UopQueueAssumption DEF PushUncached, Spend, Kernel, Pushable
<1>2. /\ ld.op = "LOAD" /\ ld.kernel = k /\ ld.begin = b /\ ld.end = e
      /\ x.op = "GEMM" /\ x.kernel = k /\ x.begin = b /\ x.end = e
    BY DEF LoadInsn, OpInsn
<1>3. Typed /\ Placed /\ Loaded /\ LoadCoversOp
    BY <1>1 DEF Inv
<1>4. b \in Nat /\ e \in Nat /\ b < e
    <2>1. b \in Nat /\ e \in Nat
        BY <1>1, <1>3, EvictionStops
    <2>2. e = b + n
        BY DEF End
    <2> HIDE DEF n, b, e
    <2> QED
        BY <1>1, <2>1, <2>2
<1> HIDE DEF k, n, b, e, ld, x
<1>5. /\ cache' \in Seq(Kernel) /\ cacheIdx' \in 0..Len(cache')
      /\ where' \in [Kernel -> [begin : Nat, end : Nat]]
      /\ sram' \in [begin : Nat, end : Nat]
      /\ Placed'
      /\ \A j \in Kernel : Cached(j)' => j = k \/ (Cached(j) /\ where'[j] = where[j])
      /\ \A j \in Kernel : j # k /\ Cached(j)' => ~Overlaps(where'[k], where'[j])
      /\ Cached(k)'
    BY <1>1, <1>3, PlaceStep DEF b, e
<1>6. PICK S : insns \in Seq(S)
    BY <1>3 DEF Typed
<1>7. PICK s : s = Append(insns, ld)
    OBVIOUS
<1>8. /\ Len(insns) \in Nat /\ s \in Seq(S \cup {ld}) /\ Len(s) = Len(insns) + 1 /\ s[Len(insns) + 1] = ld
      /\ \A i \in 1..Len(insns) : s[i] = insns[i]
    BY <1>6, <1>7, Lengths
<1>9. insns' = Append(s, x)
    BY <1>1, <1>6, <1>7, AppendTwo
<1>10. /\ insns' \in Seq((S \cup {ld}) \cup {x}) /\ Len(insns') = Len(insns) + 2
       /\ insns'[Len(insns) + 2] = x /\ insns'[Len(insns) + 1] = ld
       /\ \A i \in 1..Len(insns) : insns'[i] = insns[i]
    <2>1. /\ insns' \in Seq((S \cup {ld}) \cup {x}) /\ Len(insns') = Len(s) + 1 /\ insns'[Len(s) + 1] = x
          /\ \A i \in 1..Len(s) : insns'[i] = s[i]
        BY <1>8, <1>9, Lengths
    <2>2. Len(s) + 1 = Len(insns) + 2 /\ Len(insns) + 1 \in 1..Len(s) /\ \A i \in 1..Len(insns) : i \in 1..Len(s)
        BY <1>8
    <2> QED
        BY <1>8, <2>1, <2>2
<1>11. \A i \in 1..Len(insns') : i \in 1..Len(insns) \/ i = Len(insns) + 1 \/ i = Len(insns) + 2
    BY <1>8, <1>10
<1>12. Typed'
    <2>1. \A i \in 1..Len(insns') : insns'[i].op \in {"LOAD", "GEMM"}
        BY <1>2, <1>3, <1>10, <1>11 DEF Typed
    <2> QED
        BY <1>5, <1>10, <2>1 DEF Typed
<1>13. where'[k] = [begin |-> b, end |-> e]
    BY <1>1
<1>14. Loaded'
    <2>1. ASSUME NEW j \in Kernel, Cached(j)'
          PROVE  \E i \in 1..Len(insns') :
                     /\ LoadOf(j, i)'
                     /\ \A m \in i + 1..Len(insns') : insns'[m].op = "LOAD" => ~Overlaps(insns'[m], where'[j])
        <3>1. CASE j = k
            <4>1. PICK i : i = Len(insns) + 1
                OBVIOUS
            <4>2. i \in 1..Len(insns') /\ insns'[i] = ld
                BY <1>8, <1>10, <4>1
            <4>3. LoadOf(j, i)'
                BY <1>2, <1>13, <3>1, <4>2 DEF LoadOf
            <4>4. \A m \in i + 1..Len(insns') : m = Len(insns) + 2
                BY <1>8, <1>10, <4>1
            <4>5. insns'[Len(insns) + 2].op # "LOAD"
                BY <1>2, <1>10
            <4> QED
                BY <4>2, <4>3, <4>4, <4>5
        <3>2. CASE j # k
            <4>1. Cached(j) /\ where'[j] = where[j] /\ ~Overlaps(where'[k], where'[j])
                BY <1>5, <2>1, <3>2
            <4>2. PICK i \in 1..Len(insns) :
                         /\ LoadOf(j, i)
                         /\ \A m \in i + 1..Len(insns) : insns[m].op = "LOAD" => ~Overlaps(insns[m], where[j])
                BY <1>3, <4>1 DEF Loaded
            <4>3. i \in 1..Len(insns') /\ LoadOf(j, i)'
                BY <1>8, <1>10, <4>1, <4>2 DEF LoadOf
            <4>4. ASSUME NEW m \in i + 1..Len(insns'), insns'[m].op = "LOAD"
                  PROVE  ~Overlaps(insns'[m], where'[j])
                <5>1. m # Len(insns) + 2
                    BY <1>2, <1>10, <4>4
                <5>2. CASE m = Len(insns) + 1
                    BY <1>2, <1>10, <1>13, <4>1, <5>2 DEF Overlaps
                <5>3. CASE m # Len(insns) + 1
                    <6>1. m \in i + 1..Len(insns) /\ m \in 1..Len(insns)
                        BY <1>8, <1>10, <5>1, <5>3
                    <6> QED
                        BY <1>10, <4>1, <4>2, <4>4, <6>1
                <5> QED
                    BY <5>2, <5>3
            <4> QED
                BY <4>3, <4>4
        <3> QED
            BY <3>1, <3>2
    <2> QED
        BY <2>1 DEF Loaded
<1>15. \A i \in 1..Len(insns') : Covered(insns', i)
    <2>1. \A i \in 1..Len(insns) : Covered(insns, i)
        BY <1>1, <1>3, CoversAll
    <2>2. \A i \in 1..Len(insns) : Covered(insns', i)
        <3>1. Len(insns) <= Len(insns')
            BY <1>8, <1>10
        <3> QED
            BY <1>6, <1>10, <2>1, <3>1, CoveredStays
    <2>3. Covered(insns', Len(insns) + 1)
        BY <1>2, <1>10 DEF Covered
    <2>4. Covered(insns', Len(insns) + 2)
        <3>1. Len(insns) + 1 \in 1..Len(s) /\ Len(s) + 1 = Len(insns) + 2
            BY <1>8
        <3>2. \A j \in (Len(insns) + 1) + 1..Len(s) : FALSE
            BY <1>8
        <3>3. Covered(Append(s, x), Len(s) + 1)
            BY <1>2, <1>4, <1>8, <3>1, <3>2, CoveredNow
        <3> QED
            BY <1>9, <3>1, <3>3
    <2> QED
        BY <1>11, <2>2, <2>3, <2>4
<1>16. LoadCoversOp'
    BY <1>12, <1>15, CoversAllNext
<1> QED
    BY <1>5, <1>12, <1>14, <1>16 DEF Inv

LEMMA InitInv == Init => Inv
<1> SUFFICES ASSUME Init
             PROVE  Inv
    OBVIOUS
<1>1. /\ cache = <<>> /\ cacheIdx = 0 /\ sram = Nowhere /\ where = [k \in Kernel |-> Nowhere]
      /\ insns = <<>> /\ Nowhere \in [begin : Nat, end : Nat]
    BY DEF Init, Nowhere
<1>2. Typed
    BY <1>1 DEF Typed
<1>3. Placed
    BY <1>1 DEF Placed
<1>4. Loaded
    BY <1>1 DEF Loaded, Cached, Nowhere
<1>5. LoadCoversOp
    BY <1>1 DEF LoadCoversOp
<1> QED
    BY <1>2, <1>3, <1>4, <1>5 DEF Inv

LEMMA StepInv ==
    ASSUME Inv, [Next]_vars
    PROVE  Inv'
<1>1. ASSUME NEW a \in Ask, PushCached(a)
      PROVE  Inv'
    BY <1>1, CachedStep
<1>2. ASSUME NEW a \in Ask, PushUncached(a)
      PROVE  Inv'
    BY <1>2, UncachedStep
<1>3. CASE UNCHANGED <<cache, cacheIdx, sram, where, insns>> /\ (status' = "host" => status = "host")
    <2>1. Typed' <=> Typed
        BY <1>3 DEF Typed
    <2>2. Placed' <=> Placed
        BY <1>3 DEF Placed
    <2>3. Loaded' <=> Loaded
        BY <1>3 DEF Loaded, LoadOf, Cached
    <2>4. status' = "host" => LoadCoversOp'
        <3>1. CASE status' = "host"
            <4>1. \A n : LoadsBefore(n)' = LoadsBefore(n)
                BY <1>3 DEF LoadsBefore
            <4> QED
                BY <1>3, <3>1, <4>1 DEF Inv, LoadCoversOp
        <3> QED
            BY <3>1
    <2> QED
        BY <1>3, <2>1, <2>2, <2>3, <2>4 DEF Inv
<1>4. ASSUME NEW a \in Ask, PushFails(a)
      PROVE  Inv'
    BY <1>3, <1>4 DEF PushFails, Spend
<1>5. CASE Synchronize
    BY <1>3, <1>5 DEF Synchronize
<1>6. CASE DeviceLoad \/ DeviceOp
    <2>1. /\ UNCHANGED <<cache, cacheIdx, sram, where>> /\ status' = "device"
          /\ insns # <<>> /\ insns' = Tail(insns)
        BY <1>6 DEF DeviceLoad, DeviceOp
    <2>2. Typed /\ Placed
        BY DEF Inv
    <2>3. PICK S : insns \in Seq(S)
        BY <2>2 DEF Typed
    <2>4. /\ insns' \in Seq(S) /\ Len(insns') = Len(insns) - 1 /\ Len(insns) \in Nat /\ Len(insns') \in Nat
          /\ \A i \in 1..Len(insns') : insns'[i] = insns[i + 1]
        BY <2>1, <2>3, HeadTailProperties, Lengths
    <2>5. \A i \in 1..Len(insns') : i + 1 \in 1..Len(insns)
        BY <2>4
    <2>6. \A i \in 1..Len(insns') : insns'[i].op \in {"LOAD", "GEMM"}
        BY <2>2, <2>4, <2>5 DEF Typed
    <2>7. Typed'
        BY <2>1, <2>2, <2>4, <2>6 DEF Typed
    <2>8. Placed'
        BY <2>1, <2>2 DEF Placed
    <2> QED
        BY <2>1, <2>7, <2>8 DEF Inv
<1>7. CASE Reset
    <2>1. /\ cache' = <<>> /\ cacheIdx' = 0 /\ sram' = Nowhere /\ where' = Unmarked
          /\ insns' = <<>> /\ Nowhere \in [begin : Nat, end : Nat]
        BY <1>7 DEF Reset, Nowhere
    <2>2. where' = [k \in Kernel |-> Nowhere]
        <3>1. Typed /\ Placed
            BY DEF Inv
        <3>2. \A k \in Kernel : k \in Range(cache) <=> \E i \in 1..Len(cache) : cache[i] = k
            BY <3>1, Lengths DEF Typed, Range
        <3>3. \A k \in Kernel : k \notin Range(cache) => where[k] = Nowhere
            BY <3>1, <3>2 DEF Placed
        <3> QED
            BY <2>1, <3>3 DEF Unmarked
    <2>3. Typed'
        BY <2>1, <2>2 DEF Typed
    <2>4. Placed'
        BY <2>1, <2>2 DEF Placed
    <2>5. Loaded'
        BY <2>1, <2>2 DEF Loaded, Cached, Nowhere
    <2>6. LoadCoversOp'
        BY <2>1 DEF LoadCoversOp
    <2> QED
        BY <2>3, <2>4, <2>5, <2>6 DEF Inv
<1>8. CASE UNCHANGED vars
    BY <1>3, <1>8 DEF vars
<1> QED
    BY <1>1, <1>2, <1>4, <1>5, <1>6, <1>7, <1>8 DEF Next

\* Every operation of a batch finds, in the same batch, the load of its own
\* kernel, and no later load has overwritten it: for any kernels, wherever the
\* ring of the SRAM begins again and whatever it evicts.
THEOREM OpsAreLoaded == Spec => []LoadCoversOp
<1>1. Init => Inv
    BY InitInv
<1>2. Inv /\ [Next]_vars => Inv'
    BY StepInv
<1>3. Inv => LoadCoversOp
    BY DEF Inv, LoadCoversOp
<1> QED
    BY <1>1, <1>2, <1>3, PTL DEF Spec

--------------------------------------------------------------------------------
(* FlattenSeq, by induction over what it flattens.                         *)

\* The recursion in FlattenSeq has a solution.
IsFlat(f, s, n) == f = [i \in 1..n |-> IF i = 1 THEN s[i] ELSE f[i - 1] \o s[i]]

LEMMA FlatExists ==
    ASSUME NEW s, NEW n \in Nat
    PROVE  \E f : IsFlat(f, s, n)
<1> DEFINE Missing == {m \in Nat : ~\E f : IsFlat(f, s, m)}
<1>1. CASE Missing = {}
    BY <1>1
<1>2. CASE Missing # {}
    <2>1. PICK m \in Missing : \A j \in Missing : m <= j
        BY <1>2, LeastNumber
    <2>2. m # 0
        <3>1. PICK f : f = [i \in 1..0 |-> IF i = 1 THEN s[i] ELSE s[i]]
            OBVIOUS
        <3>2. IsFlat(f, s, 0)
            BY <3>1 DEF IsFlat
        <3> QED
            BY <2>1, <3>2
    <2>3. PICK k \in Nat : m = k + 1
        BY <2>1, <2>2
    <2>4. PICK f : IsFlat(f, s, k)
        BY <2>1, <2>3
    <2>5. PICK g : g = [i \in 1..k + 1 |-> IF i <= k THEN f[i] ELSE IF i = 1 THEN s[i] ELSE f[k] \o s[i]]
        OBVIOUS
    <2>6. g = [i \in 1..k + 1 |-> IF i = 1 THEN s[i] ELSE g[i - 1] \o s[i]]
        <3>1. ASSUME NEW i \in 1..k + 1
              PROVE  g[i] = IF i = 1 THEN s[i] ELSE g[i - 1] \o s[i]
            <4>1. CASE i <= k
                <5>1. i \in 1..k /\ g[i] = f[i]
                    BY <2>5, <4>1
                <5>2. i # 1 => i - 1 \in 1..k + 1 /\ i - 1 <= k
                    BY <4>1
                <5>3. i # 1 => g[i - 1] = f[i - 1]
                    BY <2>5, <5>2
                <5> QED
                    BY <2>4, <5>1, <5>3 DEF IsFlat
            <4>2. CASE ~(i <= k)
                <5>1. i - 1 = k /\ (i # 1 => k \in 1..k + 1 /\ k <= k)
                    BY <4>2
                <5> QED
                    BY <2>5, <4>2, <5>1
            <4> QED
                BY <4>1, <4>2
        <3> QED
            BY <2>5, <3>1
    <2>7. IsFlat(g, s, m)
        BY <2>3, <2>6 DEF IsFlat
    <2> QED
        BY <2>1, <2>7
<1> QED
    BY <1>1, <1>2

LEMMA FlatAt ==
    ASSUME NEW s, NEW n \in Nat, NEW f, IsFlat(f, s, n), NEW i \in 1..n
    PROVE  f[i] = IF i = 1 THEN s[i] ELSE f[i - 1] \o s[i]
<1>1. PICK h : h = [j \in 1..n |-> IF j = 1 THEN s[j] ELSE f[j - 1] \o s[j]]
    OBVIOUS
<1>2. f = h
    BY <1>1 DEF IsFlat
<1> QED
    BY <1>1, <1>2

\* ... and one solution only.
LEMMA FlatUnique ==
    ASSUME NEW s, NEW m \in Nat, NEW n \in Nat, NEW f, IsFlat(f, s, m), NEW g, IsFlat(g, s, n), m <= n
    PROVE  \A i \in 1..m : f[i] = g[i]
<1> DEFINE Differ == {i \in Nat : i \in 1..m /\ f[i] # g[i]}
<1>1. CASE Differ = {}
    BY <1>1
<1>2. CASE Differ # {}
    <2>1. PICK i \in Differ : \A j \in Differ : i <= j
        BY <1>2, LeastNumber
    <2>2. i \in 1..m /\ i \in 1..n
        BY <2>1
    <2>3. CASE i = 1
        BY <2>1, <2>2, <2>3, FlatAt
    <2>4. CASE i # 1
        <3>1. i - 1 \in 1..m /\ i - 1 \in Nat /\ ~(i <= i - 1)
            BY <2>2, <2>4
        <3>2. f[i - 1] = g[i - 1]
            BY <2>1, <3>1
        <3> QED
            BY <2>1, <2>2, <2>4, <3>2, FlatAt
    <2> QED
        BY <2>3, <2>4
<1> QED
    BY <1>1, <1>2

Flatter(s) == CHOOSE f : IsFlat(f, s, Len(s))

LEMMA Flattened ==
    ASSUME NEW s, Len(s) \in Nat
    PROVE  /\ FlattenSeq(s) = IF Len(s) = 0 THEN s ELSE Flatter(s)[Len(s)]
           /\ IsFlat(Flatter(s), s, Len(s))
<1>1. IsFlat(Flatter(s), s, Len(s))
    BY FlatExists DEF Flatter
<1>2. FlattenSeq(s) = IF Len(s) = 0 THEN s ELSE Flatter(s)[Len(s)]
    BY DEF FlattenSeq, Flatter, IsFlat
<1> QED
    BY <1>1, <1>2

LEMMA FlattenAppend ==
    ASSUME NEW S, NEW s \in Seq(S), NEW x
    PROVE  FlattenSeq(Append(s, x)) = IF s = <<>> THEN x ELSE FlattenSeq(s) \o x
<1>1. PICK t : t = Append(s, x)
    OBVIOUS
<1>2. PICK n : n = Len(s)
    OBVIOUS
<1>3. n \in Nat /\ Len(t) = n + 1 /\ t[n + 1] = x /\ \A i \in 1..n : t[i] = s[i]
    <2>1. s \in Seq(S \cup {x})
        BY SeqDef
    <2> QED
        BY <1>1, <1>2, <2>1
<1>4. PICK f, g : f = Flatter(s) /\ g = Flatter(t)
    OBVIOUS
<1>5. /\ FlattenSeq(s) = IF n = 0 THEN s ELSE f[n]
      /\ FlattenSeq(t) = g[n + 1]
      /\ IsFlat(f, s, n) /\ IsFlat(g, t, n + 1)
    BY <1>2, <1>3, <1>4, Flattened
<1>6. IsFlat(f, t, n)
    <2>1. f = [i \in 1..n |-> IF i = 1 THEN t[i] ELSE f[i - 1] \o t[i]]
        BY <1>3, <1>5 DEF IsFlat
    <2> QED
        BY <2>1 DEF IsFlat
<1>7. \A i \in 1..n : f[i] = g[i]
    BY <1>3, <1>5, <1>6, FlatUnique
<1>8. g[n + 1] = IF n + 1 = 1 THEN x ELSE g[(n + 1) - 1] \o x
    <2>1. n + 1 \in Nat /\ n + 1 \in 1..n + 1
        BY <1>3
    <2> QED
        BY <1>3, <1>5, <2>1, FlatAt
<1>9. CASE n = 0
    <2>1. s = <<>>
        BY <1>2, <1>9, EmptySeq
    <2> QED
        BY <1>1, <1>5, <1>8, <1>9, <2>1
<1>10. CASE n # 0
    <2>1. s # <<>> /\ n \in 1..n /\ (n + 1) - 1 = n /\ n + 1 # 1
        BY <1>2, <1>3, <1>10
    <2> QED
        BY <1>1, <1>5, <1>7, <1>8, <1>10, <2>1
<1> QED
    BY <1>9, <1>10

--------------------------------------------------------------------------------
(* What recording leaves: a sequence of the micro-ops that were pushed.    *)

\* The recursion in FoldLeft, over the positions up to n.
RecordsAt(g, calls, s) ==
    IF s = {} THEN NewKernel ELSE LET x == Max(s) IN RecordCall(g[s \ {x}], calls[x])
IsRecord(g, calls, n) == g = [s \in SUBSET (1..n) |-> RecordsAt(g, calls, s)]

LEMMA MaxOfPositions ==
    ASSUME NEW n \in Nat, NEW s \in SUBSET (1..n + 1), s # {}
    PROVE  /\ n + 1 \in s => Max(s) = n + 1
           /\ Max(s) \in s
<1>1. \E m \in s : \A y \in s : m >= y
    <2> DEFINE Bounds == {b \in Nat : \A y \in s : b >= y}
    <2>1. n + 1 \in Bounds
        OBVIOUS
    <2>2. PICK b \in Bounds : \A j \in Bounds : b <= j
        BY <2>1, LeastNumber
    <2>3. b \in s
        <3>1. b # 0
            <4>1. PICK y \in s : y \in 1..n + 1
                OBVIOUS
            <4>2. b >= y /\ y >= 1 /\ y \in Nat
                BY <2>2, <4>1
            <4> QED
                BY <4>2
        <3>2. CASE b \notin s
            <4>1. b - 1 \in Nat /\ \A y \in s : b - 1 >= y
                BY <2>2, <3>1, <3>2
            <4>2. b - 1 \in Bounds /\ ~(b <= b - 1)
                BY <2>2, <4>1
            <4> QED
                BY <2>2, <4>2
        <3> QED
            BY <3>2
    <2> QED
        BY <2>2, <2>3
<1>2. Max(s) \in s /\ \A y \in s : Max(s) >= y
    BY <1>1 DEF Max
<1>3. PICK m : m = Max(s)
    OBVIOUS
<1>4. m \in 1..n + 1 /\ (n + 1 \in s => m >= n + 1)
    BY <1>2, <1>3
<1>5. n + 1 \in s => m = n + 1
    BY <1>4
<1> QED
    BY <1>2, <1>3, <1>5

LEMMA RecordAt ==
    ASSUME NEW calls, NEW n \in Nat, NEW g, IsRecord(g, calls, n), NEW s \in SUBSET (1..n)
    PROVE  g[s] = RecordsAt(g, calls, s)
<1>1. PICK h : h = [t \in SUBSET (1..n) |-> RecordsAt(g, calls, t)]
    OBVIOUS
<1>2. g = h
    BY <1>1 DEF IsRecord
<1> QED
    BY <1>1, <1>2

LEMMA RecordExists ==
    ASSUME NEW calls, NEW n \in Nat
    PROVE  \E g : IsRecord(g, calls, n)
<1> DEFINE Missing == {m \in Nat : ~\E g : IsRecord(g, calls, m)}
<1>1. CASE Missing = {}
    BY <1>1
<1>2. CASE Missing # {}
    <2>1. PICK m \in Missing : \A j \in Missing : m <= j
        BY <1>2, LeastNumber
    <2>2. m # 0
        <3>1. PICK g : g = [s \in SUBSET (1..0) |-> NewKernel]
            OBVIOUS
        <3>2. \A s \in SUBSET (1..0) : s = {}
            OBVIOUS
        <3>3. IsRecord(g, calls, 0)
            BY <3>1, <3>2 DEF IsRecord, RecordsAt
        <3> QED
            BY <2>1, <3>3
    <2>3. PICK k \in Nat : m = k + 1
        BY <2>1, <2>2
    <2>4. PICK f : IsRecord(f, calls, k)
        BY <2>1, <2>3
    <2>5. PICK g : g = [s \in SUBSET (1..k + 1) |->
                          IF k + 1 \in s THEN RecordCall(f[s \ {k + 1}], calls[k + 1]) ELSE f[s]]
        OBVIOUS
    <2>6. ASSUME NEW s \in SUBSET (1..k + 1)
          PROVE  g[s] = RecordsAt(g, calls, s)
        <3>1. CASE k + 1 \in s
            <4>1. s # {} /\ Max(s) = k + 1
                BY <3>1, MaxOfPositions
            <4>2. s \ {k + 1} \in SUBSET (1..k + 1) /\ k + 1 \notin s \ {k + 1}
                OBVIOUS
            <4>3. g[s \ {k + 1}] = f[s \ {k + 1}]
                BY <2>5, <4>2
            <4>4. g[s] = RecordCall(f[s \ {k + 1}], calls[k + 1])
                BY <2>5, <3>1
            <4> QED
                BY <4>1, <4>3, <4>4 DEF RecordsAt
        <3>2. CASE k + 1 \notin s
            <4>1. s \in SUBSET (1..k) /\ g[s] = f[s]
                BY <2>5, <3>2
            <4>2. f[s] = RecordsAt(f, calls, s)
                BY <2>4, <4>1, RecordAt
            <4>3. s # {} => /\ s \ {Max(s)} \in SUBSET (1..k + 1) /\ k + 1 \notin s \ {Max(s)}
                            /\ g[s \ {Max(s)}] = f[s \ {Max(s)}]
                BY <2>5, <3>2
            <4> QED
                BY <4>1, <4>2, <4>3 DEF RecordsAt
        <3> QED
            BY <3>1, <3>2
    <2>7. IsRecord(g, calls, m)
        <3>1. g = [s \in SUBSET (1..k + 1) |-> g[s]]
            BY <2>5
        <3> QED
            BY <2>3, <2>6, <3>1 DEF IsRecord
    <2> QED
        BY <2>1, <2>7
<1> QED
    BY <1>1, <1>2

Recorder(calls) == CHOOSE g : IsRecord(g, calls, Len(calls))

LEMMA Recorded ==
    ASSUME NEW S, NEW calls \in Seq(S)
    PROVE  Record(calls) = Recorder(calls)[1..Len(calls)] /\ IsRecord(Recorder(calls), calls, Len(calls))
<1>1. Len(calls) \in Nat /\ DOMAIN calls = 1..Len(calls)
    OBVIOUS
<1>2. IsRecord(Recorder(calls), calls, Len(calls))
    BY <1>1, RecordExists DEF Recorder
<1>3. Record(calls) = Recorder(calls)[1..Len(calls)]
    BY <1>1 DEF Record, FoldLeft, MapThenFoldSet, Recorder, IsRecord, RecordsAt
<1> QED
    BY <1>2, <1>3

\* Record as a sequence of steps.
IsRecording(h, calls) ==
    /\ h[0] = NewKernel /\ Record(calls) = h[Len(calls)]
    /\ \A m \in 1..Len(calls) : h[m] = RecordCall(h[m - 1], calls[m])

LEMMA RecordSteps ==
    ASSUME NEW S, NEW calls \in Seq(S)
    PROVE  \E h : IsRecording(h, calls)
<1>1. PICK n, g : n = Len(calls) /\ g = Recorder(calls)
    OBVIOUS
<1>2. n \in Nat /\ Record(calls) = g[1..n] /\ IsRecord(g, calls, n)
    BY <1>1, Recorded
<1>3. PICK h : h = [m \in 0..n |-> g[1..m]]
    OBVIOUS
<1>4. h[0] = NewKernel
    <2>1. PICK z : z = {}
        OBVIOUS
    <2>2. z \in SUBSET (1..n) /\ 1..0 = z
        BY <2>1
    <2>3. g[z] = NewKernel
        BY <1>2, <2>1, <2>2, RecordAt DEF RecordsAt
    <2>4. h[0] = g[1..0]
        BY <1>2, <1>3
    <2> QED
        BY <2>2, <2>3, <2>4
<1>5. ASSUME NEW m \in 1..n
      PROVE  h[m] = RecordCall(h[m - 1], calls[m])
    <2>1. PICK k \in Nat : m = k + 1 /\ k + 1 \in 1..n
        <3>1. m - 1 \in Nat /\ m = (m - 1) + 1
            BY <1>2
        <3> QED
            BY <3>1
    <2>2. PICK s : s = 1..k + 1
        OBVIOUS
    <2>3. s \in SUBSET (1..n) /\ s \in SUBSET (1..k + 1) /\ s # {} /\ k + 1 \in s
        <3>1. \A i \in 1..k + 1 : i \in 1..n
            BY <1>2, <2>1
        <3>2. k + 1 \in 1..k + 1
            OBVIOUS
        <3> QED
            BY <2>2, <3>1, <3>2
    <2>4. Max(s) = k + 1
        BY <2>3, MaxOfPositions
    <2>5. s \ {k + 1} = 1..k
        BY <2>2
    <2>6. g[s] = RecordsAt(g, calls, s)
        <3>1. n \in Nat /\ IsRecord(g, calls, n) /\ s \in SUBSET (1..n)
            BY <1>2, <2>3
        <3> QED
            BY <3>1, RecordAt
    <2>7. g[s] = RecordCall(g[1..k], calls[k + 1])
        BY <2>3, <2>4, <2>5, <2>6 DEF RecordsAt
    <2>8. h[m] = g[s] /\ h[m - 1] = g[1..k]
        <3>1. m \in 0..n /\ m - 1 \in 0..n /\ m - 1 = k
            BY <1>2, <2>1
        <3>2. h[m] = g[1..m] /\ h[m - 1] = g[1..m - 1]
            BY <1>3, <3>1
        <3> QED
            BY <2>1, <2>2, <3>1, <3>2
    <2> QED
        BY <2>1, <2>7, <2>8
<1>6. h[n] = g[1..n]
    BY <1>2, <1>3
<1> QED
    BY <1>1, <1>2, <1>4, <1>5, <1>6 DEF IsRecording

IsKernel(k, T) == "seq" \in DOMAIN k /\ k.seq \in Seq(T)

LEMMA RecordCallKeeps ==
    ASSUME NEW T, NEW k, IsKernel(k, T), NEW c, c.op \in {"begin", "end", "push"},
           c.op = "push" => Uop(c) \in T
    PROVE  IsKernel(RecordCall(k, c), T)
<1>1. CASE c.op = "begin"
    <2>1. RecordCall(k, c) = PushLoopBegin(k, c)
        BY <1>1 DEF RecordCall
    <2> QED
        BY <2>1 DEF PushLoopBegin, IsKernel
<1>2. CASE c.op = "end"
    BY <1>2 DEF RecordCall, PushLoopEnd
<1>3. CASE c.op = "push"
    <2>1. RecordCall(k, c) = Push(k, c)
        BY <1>3 DEF RecordCall
    <2>2. Append(k.seq, Uop(c)) \in Seq(T)
        BY <1>3 DEF IsKernel
    <2> QED
        BY <2>1, <2>2 DEF Push, IsKernel
<1> QED
    BY <1>1, <1>2, <1>3

LEMMA RecordsUops ==
    ASSUME NEW S, NEW calls \in Seq(S), NEW T,
           \A i \in 1..Len(calls) : /\ calls[i].op \in {"begin", "end", "push"}
                                    /\ calls[i].op = "push" => Uop(calls[i]) \in T
    PROVE  IsKernel(Record(calls), T)
<1>1. PICK n : n = Len(calls) /\ n \in Nat
    OBVIOUS
<1>2. PICK h : IsRecording(h, calls)
    BY RecordSteps
<1> DEFINE Fails == {m \in Nat : m <= n /\ ~IsKernel(h[m], T)}
<1>3. CASE Fails = {}
    BY <1>1, <1>2, <1>3 DEF IsRecording
<1>4. CASE Fails # {}
    <2>1. PICK m \in Fails : \A j \in Fails : m <= j
        BY <1>4, LeastNumber
    <2>2. IsKernel(NewKernel, T)
        BY DEF NewKernel, IsKernel
    <2>3. m # 0
        BY <1>2, <2>1, <2>2 DEF IsRecording
    <2>4. m \in 1..n /\ m - 1 \in Nat /\ m - 1 <= n /\ ~(m <= m - 1)
        BY <1>1, <2>1, <2>3
    <2>5. IsKernel(h[m - 1], T)
        BY <2>1, <2>4
    <2>6. h[m] = RecordCall(h[m - 1], calls[m])
        BY <1>1, <1>2, <2>4 DEF IsRecording
    <2> QED
        BY <1>1, <2>1, <2>4, <2>5, <2>6, RecordCallKeeps
<1> QED
    BY <1>3, <1>4

--------------------------------------------------------------------------------
(* The micro-ops.  As long as nothing is evicted the cache only grows at   *)
(* its end, so the place of a kernel in the SRAM is its place in the       *)
(* layout of the cache: the offset from which a load takes it is the one   *)
(* at which ReadBarrier puts it.                                           *)

Uops == UNION {{Uop(c) : c \in Range(Calls[a])} : a \in Ask}

Kernels ==
    /\ DOMAIN kmap \subseteq Kernel /\ \A k \in DOMAIN kmap : kmap[k].seq \in Seq(Uops)
    /\ \A k \in Kernel : Cached(k) => k \in DOMAIN kmap
    /\ uopMem = [a \in 0..Depth - 1 |-> uopMem[a]] /\ \E T : buffer \in Seq(T)

AtHome(k) ==
    /\ where[k].end = where[k].begin + Len(kmap[k].seq)
    /\ where[k].end <= Len(Layout(cache))
    /\ \A j \in 1..Len(kmap[k].seq) : Layout(cache)[where[k].begin + j] = kmap[k].seq[j]
Own(i) ==
    LET k == insns[i].kernel IN
    /\ k \in Kernel /\ Cached(k)
    /\ insns[i].begin = where[k].begin /\ insns[i].end = where[k].end
    /\ insns[i].op = "LOAD" => insns[i].offset = where[k].begin
Fits ==
    /\ cacheIdx = Len(cache) /\ sram.end = Len(Layout(cache)) /\ sram.end <= Depth
    /\ Layout(cache) \in Seq(Uops)
    /\ cache # <<>> => where[cache[1]].begin = 0
    /\ \A i \in 1..Len(cache) : cache[i] \in DOMAIN kmap /\ AtHome(cache[i])
    /\ \A i \in 1..Len(insns) : Own(i)

\* On the device: what the host copied, and that an operation's micro-ops are
\* in the SRAM or have their load ahead of it.
InSram(k) == \A j \in 1..Len(kmap[k].seq) : uopMem[where[k].begin + j - 1] = kmap[k].seq[j]
Copied ==
    /\ Len(Layout(cache)) <= Len(buffer)
    /\ \A p \in 1..Len(Layout(cache)) : buffer[p] = Layout(cache)[p]
Ahead ==
    \A n \in 1..Len(insns) : insns[n].op = "GEMM" =>
        \/ InSram(insns[n].kernel)
        \/ \E i \in 1..n - 1 : insns[i].op = "LOAD" /\ insns[i].kernel = insns[n].kernel

Unevicted == Kernels /\ (~evicted => Fits /\ (status = "device" => Copied /\ Ahead))

LEMMA Remembers ==
    ASSUME NEW a \in Ask, Remember(a)
    PROVE  /\ DOMAIN kmap' = DOMAIN kmap \cup {KernelOf(a)} /\ kmap'[KernelOf(a)] = Lookup(a)
           /\ \A k \in DOMAIN kmap : kmap'[k] = kmap[k]
<1>1. KernelOf(a) \in DOMAIN kmap => kmap[KernelOf(a)] = Lookup(a)
    BY DEF Lookup
<1> QED
    BY <1>1 DEF Remember

LEMMA LookupIsUops ==
    ASSUME Kernels, NEW a \in Ask
    PROVE  Lookup(a).seq \in Seq(Uops) /\ KernelOf(a) \in Kernel
<1>1. CASE KernelOf(a) \in DOMAIN kmap
    BY <1>1 DEF Lookup, Kernels, Kernel
<1>2. CASE KernelOf(a) \notin DOMAIN kmap
    <2>1. PICK calls : calls = Calls[a]
        OBVIOUS
    <2>2. calls \in Seq(Range(calls)) /\ \A c \in Range(calls) : c.op \in {"begin", "end", "push"}
        BY <2>1, CallsAssumption
    <2>3. \A c \in Range(calls) : Uop(c) \in Uops
        BY <2>1 DEF Uops
    <2>4. \A i \in 1..Len(calls) : calls[i] \in Range(calls)
        BY <2>2
    <2>5. IsKernel(Record(calls), Uops)
        BY <2>2, <2>3, <2>4, RecordsUops
    <2> QED
        BY <1>2, <2>1, <2>5 DEF Lookup, IsKernel, Kernel
<1> QED
    BY <1>1, <1>2

LEMMA FlattenTyped ==
    ASSUME NEW T, NEW s \in Seq(Seq(T))
    PROVE  FlattenSeq(s) \in Seq(T)
<1>1. PICK n, f : n = Len(s) /\ f = Flatter(s)
    OBVIOUS
<1>2. n \in Nat /\ \A i \in 1..n : s[i] \in Seq(T)
    BY <1>1, Lengths
<1>3. FlattenSeq(s) = (IF n = 0 THEN s ELSE f[n]) /\ IsFlat(f, s, n)
    BY <1>1, <1>2, Flattened
<1> DEFINE Wrong == {m \in Nat : m \in 1..n /\ f[m] \notin Seq(T)}
<1>4. CASE Wrong = {}
    <2>1. n = 0 => s = <<>>
        BY <1>1, EmptySeq
    <2>2. n # 0 => n \in 1..n /\ n \in Nat
        BY <1>2
    <2> QED
        BY <1>3, <1>4, <2>1, <2>2
<1>5. CASE Wrong # {}
    <2>1. PICK m \in Wrong : \A j \in Wrong : m <= j
        BY <1>5, LeastNumber
    <2>2. f[m] = IF m = 1 THEN s[m] ELSE f[m - 1] \o s[m]
        BY <1>2, <1>3, <2>1, FlatAt
    <2>3. CASE m = 1
        BY <1>2, <2>1, <2>2, <2>3
    <2>4. CASE m # 1
        <3>1. m - 1 \in 1..n /\ m - 1 \in Nat /\ ~(m <= m - 1)
            BY <1>2, <2>1, <2>4
        <3>2. f[m - 1] \in Seq(T) /\ s[m] \in Seq(T)
            BY <1>2, <2>1, <3>1
        <3>3. PICK p, q : p = f[m - 1] /\ q = s[m]
            OBVIOUS
        <3>4. p \o q \in Seq(T)
            BY <3>2, <3>3, ConcatProperties
        <3> QED
            BY <2>1, <2>2, <2>4, <3>3, <3>4
    <2> QED
        BY <2>3, <2>4
<1> QED
    BY <1>4, <1>5

LEMMA LayoutEmpty == Layout(<<>>) = <<>>
<1>1. [i \in DOMAIN <<>> |-> kmap[<<>>[i]].seq] = <<>>
    OBVIOUS
<1> QED
    BY <1>1, Flattened DEF Layout

LEMMA LayoutTyped ==
    ASSUME Inv, Kernels
    PROVE  Layout(cache) \in Seq(Uops)
<1>1. PICK s : s = [i \in DOMAIN cache |-> kmap[cache[i]].seq]
    OBVIOUS
<1>2. cache \in Seq(Kernel) /\ Len(cache) \in Nat /\ DOMAIN cache = 1..Len(cache)
    BY Lengths DEF Inv, Typed
<1>3. \A i \in 1..Len(cache) : kmap[cache[i]].seq \in Seq(Uops)
    <2> TAKE i \in 1..Len(cache)
    <2>1. cache[i] \in Kernel /\ Cached(cache[i])
        BY Distinct DEF Inv
    <2> QED
        BY <2>1 DEF Kernels
<1>4. s \in Seq(Seq(Uops))
    BY <1>1, <1>2, <1>3
<1> QED
    BY <1>1, <1>4, FlattenTyped DEF Layout

LEMMA LayoutKept ==
    ASSUME cache' = cache, cache \in Seq(Kernel),
           \A i \in 1..Len(cache) : kmap'[cache[i]] = kmap[cache[i]]
    PROVE  Layout(cache)' = Layout(cache)
<1>1. [i \in DOMAIN cache |-> kmap'[cache[i]].seq] = [i \in DOMAIN cache |-> kmap[cache[i]].seq]
    BY Lengths
<1> QED
    BY <1>1 DEF Layout

LEMMA LayoutGrows ==
    ASSUME NEW k, cache \in Seq(Kernel), cache' = Append(cache, k), kmap'[k].seq \in Seq(Uops),
           \A i \in 1..Len(cache) : kmap[cache[i]].seq \in Seq(Uops) /\ kmap'[cache[i]] = kmap[cache[i]]
    PROVE  Layout(cache)' = Layout(cache) \o kmap'[k].seq
<1>1. PICK s, x : s = [i \in DOMAIN cache |-> kmap[cache[i]].seq] /\ x = kmap'[k].seq
    OBVIOUS
<1>2. /\ Len(cache) \in Nat /\ DOMAIN cache = 1..Len(cache)
      /\ Len(cache') = Len(cache) + 1 /\ DOMAIN cache' = 1..Len(cache) + 1 /\ cache'[Len(cache) + 1] = k
      /\ \A i \in 1..Len(cache) : cache'[i] = cache[i]
    BY Lengths
<1>3. s \in Seq(Seq(Uops)) /\ Len(s) = Len(cache) /\ \A i \in 1..Len(cache) : s[i] = kmap[cache[i]].seq
    BY <1>1, <1>2
<1>4. [i \in DOMAIN cache' |-> kmap'[cache'[i]].seq] = Append(s, x)
    <2>1. PICK t : t = [i \in DOMAIN cache' |-> kmap'[cache'[i]].seq]
        OBVIOUS
    <2>2. t \in Seq(Seq(Uops)) /\ Len(t) = Len(cache) + 1
        <3>1. \A i \in 1..Len(cache) + 1 : kmap'[cache'[i]].seq \in Seq(Uops)
            BY <1>2
        <3> QED
            BY <1>2, <2>1, <3>1
    <2>3. PICK u : u = Append(s, x)
        OBVIOUS
    <2>4. /\ u \in Seq(Seq(Uops)) /\ Len(u) = Len(cache) + 1 /\ u[Len(cache) + 1] = x
          /\ \A i \in 1..Len(cache) : u[i] = s[i]
        BY <1>1, <1>3, <2>3, AppendProperties
    <2>5. ASSUME NEW i \in 1..Len(t)
          PROVE  t[i] = u[i]
        <3>1. i \in 1..Len(cache) + 1 /\ t[i] = kmap'[cache'[i]].seq
            BY <1>2, <2>1, <2>2
        <3>2. CASE i = Len(cache) + 1
            BY <1>1, <1>2, <2>4, <3>1, <3>2
        <3>3. CASE i \in 1..Len(cache)
            <4>1. cache'[i] = cache[i] /\ kmap'[cache[i]] = kmap[cache[i]]
                BY <1>2, <3>3
            <4>2. u[i] = kmap[cache[i]].seq
                BY <1>3, <2>4, <3>3
            <4> QED
                BY <3>1, <4>1, <4>2
        <3> QED
            BY <1>2, <3>1, <3>2, <3>3
    <2>6. t = u
        BY <2>2, <2>4, <2>5, SeqEqual
    <2> QED
        BY <2>1, <2>3, <2>6
<1>5. Layout(cache)' = FlattenSeq(Append(s, x)) /\ Layout(cache) = FlattenSeq(s)
    BY <1>1, <1>4 DEF Layout
<1>6. FlattenSeq(Append(s, x)) = IF s = <<>> THEN x ELSE FlattenSeq(s) \o x
    BY <1>3, FlattenAppend
<1>7. CASE s = <<>>
    <2>1. FlattenSeq(s) = <<>>
        BY <1>7, Flattened
    <2>2. <<>> \o x = x
        BY <1>1, ConcatEmptySeq
    <2> QED
        BY <1>1, <1>5, <1>6, <1>7, <2>1, <2>2
<1> QED
    BY <1>1, <1>5, <1>6, <1>7

\* A kernel that evicts nothing goes behind all others.
LEMMA AtTheEnd ==
    ASSUME Typed, Placed, Fits, NEW k \in Kernel, NEW n \in Nat, 0 < n, n <= Depth, Evicted(n) = {}
    PROVE  /\ Begin(n) = sram.end /\ End(n) = sram.end + n /\ End(n) <= Depth
           /\ EvictFrom(n) = Len(cache) /\ EvictTo(n) = Len(cache)
           /\ Ring(k, n) = Append(cache, k)
<1>1. /\ cache \in Seq(Kernel) /\ Len(cache) \in Nat /\ Depth \in Nat /\ sram.end \in Nat
      /\ EvictFrom(n) \in 0..Len(cache) /\ EvictTo(n) \in EvictFrom(n)..Len(cache)
      /\ Begin(n) \in Nat
    BY Distinct, EvictionStops, UopQueueAssumption DEF Typed
<1>2. EvictTo(n) = EvictFrom(n)
    <2>1. CASE EvictTo(n) # EvictFrom(n)
        <3>1. EvictFrom(n) + 1 \in EvictFrom(n) + 1..EvictTo(n)
            BY <1>1, <2>1
        <3> QED
            BY <3>1 DEF Evicted
    <2> QED
        BY <2>1
<1>3. ~Wraps(n)
    <2>1. SUFFICES ASSUME Wraps(n)
                   PROVE  FALSE
        OBVIOUS
    <2>2. EvictFrom(n) = 0 /\ EvictTo(n) = 0 /\ Begin(n) = 0 /\ End(n) = n
        BY <1>1, <1>2, <2>1 DEF EvictFrom, Begin, End
    <2>3. CASE Len(cache) = 0
        <3>1. cache = <<>>
            BY <1>1, <2>3, EmptySeq
        <3>2. sram.end = 0
            BY <3>1, LayoutEmpty DEF Fits
        <3> QED
            BY <1>1, <2>1, <3>2 DEF Wraps
    <2>4. CASE Len(cache) # 0
        <3>1. cache # <<>> /\ 1 \in 1..Len(cache) /\ 1 \in EvictTo(n) + 1..Len(cache)
            BY <1>1, <2>2, <2>4
        <3>2. where[cache[1]].begin = 0
            BY <3>1 DEF Fits
        <3>3. End(n) <= where[cache[1]].begin
            BY <3>1, EvictionStops
        <3> QED
            BY <2>2, <3>2, <3>3
    <2> QED
        BY <2>3, <2>4
<1>4. /\ Begin(n) = sram.end /\ End(n) = sram.end + n /\ EvictFrom(n) = Len(cache)
      /\ EvictTo(n) = Len(cache)
    BY <1>2, <1>3 DEF Begin, End, EvictFrom, Fits
<1>5. End(n) <= Depth
    BY <1>1, <1>3, <1>4 DEF Wraps
<1>6. Ring(k, n) = Append(cache, k)
    <2>1. PICK r, f : r = Replaced(cache, f, f, k) /\ f = Len(cache)
        OBVIOUS
    <2>2. f \in 0..Len(cache) /\ f \in f..Len(cache)
        BY <1>1, <2>1
    <2>3. r \in Seq(Kernel) /\ IsRing(r, cache, f, f, k)
        BY <1>1, <2>1, <2>2, Ringed
    <2>4. /\ Len(r) = Len(cache) + 1 /\ r[Len(cache) + 1] = k
          /\ \A i \in 1..Len(cache) : r[i] = cache[i]
        BY <1>1, <2>1, <2>3 DEF IsRing
    <2>5. PICK u : u = Append(cache, k)
        OBVIOUS
    <2>6. /\ u \in Seq(Kernel) /\ Len(u) = Len(cache) + 1 /\ u[Len(cache) + 1] = k
          /\ \A i \in 1..Len(cache) : u[i] = cache[i]
        BY <1>1, <2>5, AppendProperties
    <2>7. \A i \in 1..Len(r) : r[i] = u[i]
        BY <1>1, <2>4, <2>6
    <2>8. r = u
        BY <2>3, <2>4, <2>6, <2>7, SeqEqual
    <2>9. Ring(k, n) = r
        BY <1>4, <2>1 DEF Ring, Replaced
    <2> QED
        BY <2>5, <2>8, <2>9
<1> QED
    BY <1>4, <1>5, <1>6

LEMMA TailOf ==
    ASSUME NEW S, NEW s \in Seq(S), s # <<>>
    PROVE  /\ Tail(s) \in Seq(S) /\ Len(s) \in Nat /\ Len(s) > 0 /\ Len(Tail(s)) = Len(s) - 1
           /\ Head(s) = s[1] /\ \A i \in 1..Len(s) - 1 : Tail(s)[i] = s[i + 1]
<1>1. Len(s) \in Nat /\ Len(s) # 0
    BY EmptySeq
<1> QED
    BY <1>1, HeadTailProperties

\* Nothing that places the kernels changes, though others may be recorded.
LEMMA FitsKept ==
    ASSUME Typed, Fits, UNCHANGED <<cache, cacheIdx, sram, where>>,
           \A k \in DOMAIN kmap : k \in DOMAIN kmap' /\ kmap'[k] = kmap[k],
           \A i \in 1..Len(insns') : Own(i)'
    PROVE  Fits' /\ Layout(cache)' = Layout(cache)
<1>1. cache \in Seq(Kernel) /\ \A i \in 1..Len(cache) : cache[i] \in DOMAIN kmap
    BY DEF Typed, Fits
<1>2. Layout(cache)' = Layout(cache)
    BY <1>1, LayoutKept
<1>3. \A i \in 1..Len(cache) : cache[i] \in DOMAIN kmap' /\ kmap'[cache[i]] = kmap[cache[i]]
    BY <1>1
<1>4. \A i \in 1..Len(cache') : cache'[i] \in DOMAIN kmap' /\ AtHome(cache[i])'
    BY <1>2, <1>3 DEF Fits, AtHome
<1> QED
    BY <1>2, <1>4 DEF Fits

LEMMA FitInit == Init => Unevicted
<1> SUFFICES ASSUME Init PROVE Unevicted
    OBVIOUS
<1>1. Kernels
    BY DEF Init, Kernels, Cached, Nowhere
<1>2. Layout(cache) = <<>>
    BY LayoutEmpty DEF Init
<1>3. Len(cache) = 0 /\ Len(insns) = 0 /\ <<>> \in Seq(Uops)
    BY DEF Init
<1>4. cacheIdx = 0 /\ sram.end = 0 /\ cache = <<>> /\ insns = <<>> /\ Len(Layout(cache)) = 0 /\ 0 <= Depth
    BY <1>2, UopQueueAssumption DEF Init, Nowhere
<1>5. \A i \in 1..Len(cache) : FALSE
    BY <1>3
<1>6. \A i \in 1..Len(insns) : FALSE
    BY <1>3
<1>7. Fits
    BY <1>2, <1>3, <1>4, <1>5, <1>6 DEF Fits
<1> QED
    BY <1>1, <1>7 DEF Unevicted, Init

LEMMA FitPushCached ==
    ASSUME Inv, Unevicted, NEW a \in Ask, PushCached(a)
    PROVE  Unevicted'
<1>1. Kernels'
    BY DEF Unevicted, Kernels, PushCached, Cached
<1>2. status' # "device"
    BY DEF PushCached, Spend
<1>3. ASSUME ~evicted
      PROVE  Fits'
    <2>1. PICK S : insns \in Seq(S)
        BY DEF Inv, Typed
    <2>2. PICK k, g : k = KernelOf(a) /\ g = OpInsn(a, kmap[k], where[k].begin, where[k].end)
        OBVIOUS
    <2>3. /\ insns' = Append(insns, g) /\ k \in Kernel /\ Cached(k)
          /\ g.op = "GEMM" /\ g.kernel = k /\ g.begin = where[k].begin /\ g.end = where[k].end
        BY <2>2 DEF PushCached, Kernel, OpInsn
    <2>4. /\ Len(insns) \in Nat /\ Len(insns') = Len(insns) + 1 /\ insns'[Len(insns) + 1] = g
          /\ \A i \in 1..Len(insns) : insns'[i] = insns[i]
        BY <2>1, <2>3, Lengths
    <2>5. where' = where
        BY DEF PushCached
    <2>6. \A i \in 1..Len(insns) : Own(i)
        BY <1>3 DEF Unevicted, Fits
    <2>7. ASSUME NEW i \in 1..Len(insns')
          PROVE  Own(i)'
        <3>1. CASE i \in 1..Len(insns)
            BY <2>4, <2>5, <2>6, <3>1 DEF Own, Cached
        <3>2. CASE i = Len(insns) + 1
            BY <2>3, <2>4, <2>5, <3>2 DEF Own, Cached
        <3> QED
            BY <2>4, <3>1, <3>2
    <2> QED
        BY <1>3, <2>7, FitsKept DEF Inv, Unevicted, PushCached
<1>4. evicted' = evicted
    BY DEF PushCached
<1> QED
    BY <1>1, <1>2, <1>3, <1>4 DEF Unevicted

LEMMA FitPushFails ==
    ASSUME Inv, Unevicted, NEW a \in Ask, PushFails(a)
    PROVE  Unevicted'
<1>1. /\ DOMAIN kmap \subseteq DOMAIN kmap' /\ DOMAIN kmap' \subseteq DOMAIN kmap \cup {KernelOf(a)}
      /\ \A k \in DOMAIN kmap : kmap'[k] = kmap[k]
      /\ KernelOf(a) \in DOMAIN kmap' => KernelOf(a) \in DOMAIN kmap \/ kmap'[KernelOf(a)] = Lookup(a)
    <2>1. CASE Lookup(a).ok
        <3>1. Remember(a)
            BY <2>1 DEF PushFails
        <3> QED
            BY <3>1, Remembers
    <2>2. CASE ~Lookup(a).ok
        BY <2>2 DEF PushFails
    <2> QED
        BY <2>1, <2>2
<1>2. Kernels'
    <2>1. Lookup(a).seq \in Seq(Uops) /\ KernelOf(a) \in Kernel
        BY LookupIsUops DEF Unevicted
    <2>2. \A k \in DOMAIN kmap' : k \in Kernel /\ kmap'[k].seq \in Seq(Uops)
        BY <1>1, <2>1 DEF Unevicted, Kernels
    <2> QED
        BY <1>1, <2>2 DEF Unevicted, Kernels, PushFails, Cached
<1>3. status' # "device" /\ evicted' = evicted
    BY DEF PushFails, Spend
<1>4. ASSUME ~evicted
      PROVE  Fits'
    <2>1. \A i \in 1..Len(insns) : Own(i)
        BY <1>4 DEF Unevicted, Fits
    <2>2. \A i \in 1..Len(insns') : Own(i)'
        BY <2>1 DEF Own, Cached, PushFails
    <2> QED
        BY <1>1, <1>4, <2>2, FitsKept DEF Inv, Unevicted, PushFails
<1> QED
    BY <1>2, <1>3, <1>4 DEF Unevicted

LEMMA FitPushUncached ==
    ASSUME Inv, Unevicted, NEW a \in Ask, PushUncached(a)
    PROVE  Unevicted'
<1>1. PICK k, n, x : k = KernelOf(a) /\ x = Lookup(a) /\ n = Len(x.seq)
    OBVIOUS
<1>2. x.seq \in Seq(Uops) /\ k \in Kernel /\ ~Cached(k) /\ n \in Nat /\ 0 < n /\ n <= Depth /\ Depth \in Nat
    <2>1. x.seq \in Seq(Uops) /\ k \in Kernel
        BY <1>1, LookupIsUops DEF Unevicted
    <2>2. n \in 1..Depth /\ ~Cached(k)
        BY <1>1 DEF PushUncached, Pushable
    <2> QED
        BY <2>1, <2>2, UopQueueAssumption
<1>3. /\ DOMAIN kmap' = DOMAIN kmap \cup {k} /\ kmap'[k] = x
      /\ \A j \in DOMAIN kmap : kmap'[j] = kmap[j]
    BY <1>1, Remembers DEF PushUncached
<1>4. Kernels'
    <2>1. Typed /\ Placed /\ n \in Nat \ {0}
        BY <1>2 DEF Inv
    <2>2. \A j \in Kernel : Cached(j)' => j = k \/ (Cached(j) /\ where'[j] = where[j])
        BY <1>1, <1>2, <2>1, PlaceStep DEF PushUncached
    <2>3. \A j \in Kernel : Cached(j)' => j \in DOMAIN kmap'
        BY <1>3, <2>2 DEF Unevicted, Kernels
    <2> QED
        BY <1>2, <1>3, <2>3 DEF Unevicted, Kernels, PushUncached
<1>5. status' # "device" /\ evicted' = (evicted \/ Evicted(n) # {})
    BY <1>1 DEF PushUncached, Spend
<1>6. ASSUME ~evicted, Evicted(n) = {}
      PROVE  Fits'
    <2>1. Typed /\ Placed /\ Fits
        BY <1>6 DEF Inv, Unevicted
    <2>2. PICK b : b = sram.end
        OBVIOUS
    <2>3. /\ Begin(n) = b /\ End(n) = b + n /\ b + n <= Depth
          /\ EvictFrom(n) = Len(cache) /\ EvictTo(n) = Len(cache)
          /\ Ring(k, n) = Append(cache, k)
        BY <1>2, <1>6, <2>1, <2>2, AtTheEnd
    <2>4. /\ cache \in Seq(Kernel) /\ Len(cache) \in Nat /\ b \in Nat
          /\ \A i \in 1..Len(cache) : cache[i] \in Kernel
          /\ \A i \in 1..Len(cache) : cache[i] # k
        BY <1>2, <2>1, <2>2, Distinct DEF Typed
    <2>5. /\ cache' = Append(cache, k) /\ cacheIdx' = Len(cache) + 1 /\ sram'.end = b + n
          /\ \A j \in Kernel : j # k => where'[j] = where[j]
          /\ where'[k].begin = b /\ where'[k].end = b + n
        BY <1>1, <1>2, <1>6, <2>3 DEF PushUncached
    <2>6. /\ Len(cache') = Len(cache) + 1 /\ cache'[Len(cache) + 1] = k
          /\ \A i \in 1..Len(cache) : cache'[i] = cache[i]
        BY <2>4, <2>5, Lengths
    <2>7. \A i \in 1..Len(cache) : cache[i] \in DOMAIN kmap /\ kmap[cache[i]].seq \in Seq(Uops) /\ AtHome(cache[i])
        BY <2>1 DEF Unevicted, Kernels, Fits
    <2>8. PICK l, m : l = Layout(cache) /\ m = Layout(cache)'
        OBVIOUS
    <2>9. l \in Seq(Uops) /\ Len(l) = b
        BY <2>1, <2>2, <2>8 DEF Fits
    <2>10. m = l \o x.seq
        BY <1>2, <1>3, <2>4, <2>5, <2>7, <2>8, LayoutGrows
    <2>11. /\ m \in Seq(Uops) /\ Len(m) = b + n
           /\ \A p \in 1..b + n : m[p] = IF p <= b THEN l[p] ELSE x.seq[p - b]
        <3>1. PICK y : y = x.seq
            OBVIOUS
        <3>2. y \in Seq(Uops) /\ Len(y) = n
            BY <1>1, <1>2, <3>1
        <3>3. /\ l \o y \in Seq(Uops) /\ Len(l \o y) = Len(l) + Len(y)
              /\ \A p \in 1..Len(l) + Len(y) : (l \o y)[p] = IF p <= Len(l) THEN l[p] ELSE y[p - Len(l)]
            BY <2>9, <3>2, ConcatProperties
        <3> QED
            BY <2>9, <2>10, <3>1, <3>2, <3>3
    <2>12. ASSUME NEW i \in 1..Len(cache')
           PROVE  cache'[i] \in DOMAIN kmap' /\ AtHome(cache[i])'
        <3>1. CASE i \in 1..Len(cache)
            <4>1. PICK j : j = cache[i]
                OBVIOUS
            <4>2. /\ cache'[i] = j /\ where'[j] = where[j] /\ kmap'[j] = kmap[j] /\ j \in DOMAIN kmap
                  /\ AtHome(j) /\ kmap[j].seq \in Seq(Uops)
                  /\ where[j].begin \in Nat /\ where[j].end \in Nat
                BY <1>3, <2>1, <2>4, <2>5, <2>6, <2>7, <3>1, <4>1, Distinct
            <4>3. where[j].end = where[j].begin + Len(kmap[j].seq) /\ where[j].end <= b
                BY <2>8, <2>9, <4>2 DEF AtHome
            <4>4. \A q \in 1..Len(kmap[j].seq) : m[where[j].begin + q] = kmap[j].seq[q]
                <5> TAKE q \in 1..Len(kmap[j].seq)
                <5>1. PICK w, e, y : w = where[j].begin /\ e = where[j].end /\ y = Len(kmap[j].seq)
                    OBVIOUS
                <5>2. w \in Nat /\ e \in Nat /\ y \in Nat /\ e = w + y /\ e <= b /\ q \in 1..y
                    BY <4>2, <4>3, <5>1
                <5>3. w + q \in 1..b + n /\ w + q <= b
                    BY <1>2, <2>4, <5>2
                <5>4. l[where[j].begin + q] = kmap[j].seq[q]
                    BY <2>8, <4>2 DEF AtHome
                <5> QED
                    BY <2>11, <5>1, <5>3, <5>4
            <4> QED
                BY <1>2, <1>3, <2>4, <2>8, <2>11, <4>2, <4>3, <4>4 DEF AtHome
        <3>2. CASE i = Len(cache) + 1
            <4>1. cache'[i] = k
                BY <2>6, <3>2
            <4>2. \A q \in 1..n : m[b + q] = x.seq[q]
                <5> TAKE q \in 1..n
                <5>1. PICK p : p = b + q
                    OBVIOUS
                <5>2. p \in 1..b + n /\ ~(p <= b) /\ p - b = q
                    BY <1>2, <2>4, <5>1
                <5>3. m[p] = x.seq[p - b]
                    BY <2>11, <5>2
                <5> QED
                    BY <5>1, <5>2, <5>3
            <4> QED
                BY <1>1, <1>3, <2>4, <1>2, <2>5, <2>8, <2>11, <4>1, <4>2 DEF AtHome
        <3> QED
            BY <2>4, <2>6, <3>1, <3>2
    <2>13. where'[cache'[1]].begin = 0
        <3>1. CASE cache = <<>>
            <4>1. Len(cache) = 0 /\ b = 0
                BY <2>9, <2>8, <3>1, LayoutEmpty
            <4> QED
                BY <2>5, <2>6, <4>1
        <3>2. CASE cache # <<>>
            <4>1. Len(cache) # 0
                BY <2>4, <3>2, EmptySeq
            <4>2. 1 \in 1..Len(cache)
                BY <2>4, <4>1
            <4> QED
                BY <2>1, <2>4, <2>5, <2>6, <3>2, <4>2 DEF Fits
        <3> QED
            BY <3>1, <3>2
    <2>14. LoadOffset(Len(cache)) = b
        <3>1. SubSeq(cache, 1, Len(cache)) = cache
            BY <2>4, SubSeqFull
        <3> QED
            BY <2>8, <2>9, <3>1 DEF LoadOffset
    <2>15. PICK ld, g : ld = LoadInsn(k, n) /\ g = OpInsn(a, x, Begin(n), End(n))
        OBVIOUS
    <2>16. /\ ld.op = "LOAD" /\ ld.kernel = k /\ ld.begin = b /\ ld.end = b + n /\ ld.offset = b
           /\ g.op = "GEMM" /\ g.kernel = k /\ g.begin = b /\ g.end = b + n
        BY <1>1, <2>3, <2>14, <2>15 DEF LoadInsn, OpInsn
    <2>17. insns' = insns \o <<ld, g>>
        BY <1>1, <2>15 DEF PushUncached
    <2>18. PICK S : insns \in Seq(S)
        BY <2>1 DEF Typed
    <2>19. /\ Len(insns) \in Nat /\ Len(insns') = Len(insns) + 2
           /\ insns'[Len(insns) + 1] = ld /\ insns'[Len(insns) + 2] = g
           /\ \A i \in 1..Len(insns) : insns'[i] = insns[i]
        BY <2>17, <2>18, AppendTwo
    <2>20. ASSUME NEW i \in 1..Len(insns')
           PROVE  Own(i)'
        <3>1. CASE i \in 1..Len(insns)
            <4>1. insns'[i] = insns[i] /\ Own(i) /\ where'[insns[i].kernel] = where[insns[i].kernel]
                BY <1>2, <2>1, <2>5, <2>19, <3>1 DEF Fits, Own
            <4> QED
                BY <4>1 DEF Own, Cached
        <3>2. CASE i = Len(insns) + 1 \/ i = Len(insns) + 2
            <4>1. b # b + n
                BY <1>2, <2>4
            <4> QED
                BY <1>2, <2>5, <2>16, <2>19, <3>2, <4>1 DEF Own, Cached
        <3> QED
            BY <2>19, <3>1, <3>2
    <2> QED
        BY <2>3, <2>5, <2>6, <2>8, <2>11, <2>12, <2>13, <2>20 DEF Fits
<1> QED
    BY <1>4, <1>5, <1>6 DEF Unevicted

LEMMA FitSynchronize ==
    ASSUME Inv, Unevicted, Synchronize
    PROVE  Unevicted'
<1>1. /\ status = "host" /\ evicted' = evicted
      /\ UNCHANGED <<kmap, cache, cacheIdx, sram, where, insns, uopMem>>
      /\ buffer' = Layout(cache) \o SubSeq(buffer, Len(Layout(cache)) + 1, Len(buffer))
    BY DEF Synchronize
<1>2. ASSUME ~evicted
      PROVE  Fits' /\ Layout(cache)' = Layout(cache)
    <2>1. \A i \in 1..Len(insns) : Own(i)
        BY <1>2 DEF Unevicted, Fits
    <2>2. \A i \in 1..Len(insns') : Own(i)'
        BY <1>1, <2>1 DEF Own, Cached
    <2> QED
        BY <1>1, <1>2, <2>2, FitsKept DEF Inv, Unevicted
<1>3. PICK T, l : buffer \in Seq(T) /\ l = Layout(cache)
    BY DEF Unevicted, Kernels
<1>4. PICK U : U = T \cup Uops
    OBVIOUS
<1>5. l \in Seq(U) /\ buffer \in Seq(U) /\ Len(l) \in Nat /\ Len(buffer) \in Nat
    <2>1. l \in Seq(Uops)
        BY <1>3, LayoutTyped DEF Unevicted
    <2> QED
        BY <1>3, <1>4, <2>1, SeqDef
<1>6. PICK r : r = SubSeq(buffer, Len(l) + 1, Len(buffer))
    OBVIOUS
<1>7. r \in Seq(U) /\ Len(r) \in Nat
    <2>1. \A i \in Len(l) + 1..Len(buffer) : buffer[i] \in U
        BY <1>5
    <2>2. r \in Seq(U)
        BY <1>5, <1>6, <2>1, SubSeqProperties
    <2> QED
        BY <2>2
<1>8. /\ buffer' \in Seq(U) /\ Len(buffer') = Len(l) + Len(r)
      /\ \A p \in 1..Len(l) + Len(r) : buffer'[p] = IF p <= Len(l) THEN l[p] ELSE r[p - Len(l)]
    <2>1. buffer' = l \o r
        BY <1>1, <1>3, <1>6
    <2> QED
        BY <1>5, <1>7, <2>1, ConcatProperties
<1>9. Kernels'
    <2>1. \E V : buffer' \in Seq(V)
        BY <1>8
    <2> QED
        BY <1>1, <2>1 DEF Unevicted, Kernels, Cached
<1>10. ASSUME ~evicted
       PROVE  Copied'
    <2>1. Layout(cache)' = l
        BY <1>2, <1>3, <1>10
    <2>2. Len(l) <= Len(buffer') /\ \A p \in 1..Len(l) : buffer'[p] = l[p]
        BY <1>5, <1>7, <1>8
    <2> QED
        BY <2>1, <2>2 DEF Copied
<1>11. Ahead'
    <2>1. ASSUME NEW n \in 1..Len(insns), insns[n].op = "GEMM"
          PROVE  \E i \in 1..n - 1 : insns[i].op = "LOAD" /\ insns[i].kernel = insns[n].kernel
        <3>1. n \in DOMAIN insns
            BY Lengths DEF Inv, Typed
        <3> QED
            BY <1>1, <2>1, <3>1 DEF Inv, LoadCoversOp, LoadsBefore
    <2> QED
        BY <1>1, <2>1 DEF Ahead
<1> QED
    BY <1>1, <1>2, <1>9, <1>10, <1>11 DEF Unevicted

\* Two kernels in the cache do not share a place.
LEMMA Apart ==
    ASSUME Inv, NEW k \in Kernel, NEW j \in Kernel, Cached(k), Cached(j), k # j
    PROVE  where[k].end <= where[j].begin \/ where[j].end <= where[k].begin
<1>1. PICK p, q \in 1..Len(cache) : cache[p] = k /\ cache[q] = j
    BY Distinct DEF Inv
<1>2. p < q \/ q < p
    BY <1>1, Distinct DEF Inv
<1> QED
    BY <1>1, <1>2 DEF Inv, Placed

LEMMA FitDeviceLoad ==
    ASSUME Inv, Unevicted, DeviceLoad
    PROVE  Unevicted'
<1>1. /\ status = "device" /\ insns # <<>> /\ Head(insns).op = "LOAD" /\ insns' = Tail(insns)
      /\ UNCHANGED <<kmap, cache, cacheIdx, sram, where, buffer, status, evicted>>
    BY DEF DeviceLoad
<1>2. PICK S : insns \in Seq(S)
    BY DEF Inv, Typed
<1>3. /\ Len(insns) \in Nat /\ Len(insns) > 0 /\ Len(insns') = Len(insns) - 1
      /\ Head(insns) = insns[1] /\ \A i \in 1..Len(insns) - 1 : insns'[i] = insns[i + 1]
    BY <1>1, <1>2, TailOf
<1>4. PICK ld : ld = insns[1]
    OBVIOUS
<1>5. uopMem' = [a \in 0..Depth - 1 |-> IF a \in ld.begin..(ld.end - 1)
                                        THEN Fetched(ld.offset + (a - ld.begin) + 1) ELSE uopMem[a]]
    BY <1>3, <1>4 DEF DeviceLoad, Unevicted, Kernels
<1>6. Kernels'
    BY <1>1, <1>5 DEF Unevicted, Kernels, Cached
<1>7. ASSUME ~evicted
      PROVE  Fits' /\ Copied' /\ Ahead'
    <2>1. Fits /\ Copied /\ Ahead
        BY <1>1, <1>7 DEF Unevicted
    <2>2. Fits' /\ Layout(cache)' = Layout(cache)
        <3>1. ASSUME NEW i \in 1..Len(insns')
              PROVE  Own(i)'
            <4>1. i + 1 \in 1..Len(insns) /\ insns'[i] = insns[i + 1]
                BY <1>3
            <4>2. Own(i + 1)
                BY <2>1, <4>1 DEF Fits
            <4> QED
                BY <1>1, <4>1, <4>2 DEF Own, Cached
        <3> QED
            BY <1>1, <2>1, <3>1, FitsKept DEF Inv
    <2>3. Copied'
        BY <1>1, <2>1, <2>2 DEF Copied
    <2>4. PICK k, b, e : k = ld.kernel /\ b = where[k].begin /\ e = where[k].end
        OBVIOUS
    <2>5. k \in Kernel /\ Cached(k) /\ ld.begin = b /\ ld.end = e /\ ld.offset = b
        <3>1. Own(1)
            BY <1>3, <2>1 DEF Fits
        <3> QED
            BY <1>1, <1>3, <1>4, <2>4, <3>1 DEF Own
    <2>6. PICK l, m : l = Layout(cache) /\ m = Len(l)
        OBVIOUS
    <2>7. m \in Nat /\ m <= Depth /\ m <= Len(buffer) /\ \A p \in 1..m : p \in DOMAIN buffer /\ buffer[p] = l[p]
        <3>1. l \in Seq(Uops) /\ m <= Depth
            BY <2>1, <2>6 DEF Fits
        <3>2. PICK T : buffer \in Seq(T)
            BY DEF Unevicted, Kernels
        <3> QED
            BY <2>1, <2>6, <3>1, <3>2 DEF Copied
    <2>8. \A j \in Kernel : Cached(j) =>
             /\ AtHome(j) /\ where[j].begin \in Nat /\ where[j].end \in Nat
             /\ where[j].begin < where[j].end /\ Len(kmap[j].seq) \in Nat
        <3> TAKE j \in Kernel
        <3> HAVE Cached(j)
        <3>1. PICK p \in 1..Len(cache) : cache[p] = j
            BY Distinct DEF Inv
        <3>2. AtHome(j) /\ j \in DOMAIN kmap
            BY <2>1, <3>1 DEF Fits
        <3>3. kmap[j].seq \in Seq(Uops)
            BY <3>2 DEF Unevicted, Kernels
        <3> QED
            BY <3>1, <3>2, <3>3, Distinct DEF Inv
    <2>9. InSram(k)'
        <3>1. PICK n : n = Len(kmap[k].seq)
            OBVIOUS
        <3>2. /\ b \in Nat /\ e \in Nat /\ n \in Nat /\ e = b + n /\ e <= m
              /\ \A j \in 1..n : l[b + j] = kmap[k].seq[j]
            BY <2>4, <2>5, <2>6, <2>8, <3>1 DEF AtHome
        <3>3. ASSUME NEW j \in 1..n
              PROVE  uopMem'[b + j - 1] = kmap[k].seq[j]
            <4>1. PICK a : a = b + j - 1
                OBVIOUS
            <4>2. /\ a \in 0..Depth - 1 /\ a \in b..e - 1 /\ b + (a - b) + 1 = b + j /\ b + j \in 1..m
                BY <2>7, <3>2, <4>1, UopQueueAssumption
            <4>3. uopMem'[a] = Fetched(b + (a - b) + 1)
                BY <1>5, <2>5, <4>2
            <4>4. Fetched(b + j) = l[b + j]
                BY <2>7, <4>2 DEF Fetched
            <4> QED
                BY <3>2, <4>1, <4>2, <4>3, <4>4
        <3> QED
            BY <1>1, <2>4, <3>1, <3>3 DEF InSram
    <2>10. ASSUME NEW j \in Kernel, Cached(j), j # k, InSram(j)
           PROVE  InSram(j)'
        <3>1. PICK n, c, d : n = Len(kmap[j].seq) /\ c = where[j].begin /\ d = where[j].end
            OBVIOUS
        <3>2. /\ c \in Nat /\ d \in Nat /\ n \in Nat /\ d = c + n /\ d <= m /\ b \in Nat /\ e \in Nat
              /\ d <= b \/ e <= c
            BY <2>4, <2>5, <2>6, <2>8, <2>10, <3>1, Apart DEF AtHome
        <3>3. ASSUME NEW i \in 1..n
              PROVE  uopMem'[c + i - 1] = kmap[j].seq[i]
            <4>1. PICK a : a = c + i - 1
                OBVIOUS
            <4>2. a \in 0..Depth - 1 /\ a \notin b..e - 1
                BY <2>7, <3>2, <4>1, UopQueueAssumption
            <4>3. uopMem'[a] = uopMem[a]
                BY <1>5, <2>5, <4>2
            <4>4. uopMem[c + i - 1] = kmap[j].seq[i]
                BY <2>10, <3>1, <3>3 DEF InSram
            <4> QED
                BY <4>1, <4>3, <4>4
        <3> QED
            BY <1>1, <3>1, <3>3 DEF InSram
    <2>11. Ahead'
        <3>1. ASSUME NEW n \in 1..Len(insns'), insns'[n].op = "GEMM"
              PROVE  \E j : /\ j = insns'[n].kernel
                            /\ \/ InSram(j)'
                               \/ \E i \in 1..n - 1 : insns'[i].op = "LOAD" /\ insns'[i].kernel = j
            <4>1. n + 1 \in 1..Len(insns) /\ insns'[n] = insns[n + 1] /\ n \in Nat
                BY <1>3
            <4>2. PICK j : j = insns[n + 1].kernel
                OBVIOUS
            <4>3. j \in Kernel /\ Cached(j)
                BY <2>1, <4>1, <4>2 DEF Fits, Own
            <4>4. \/ InSram(j)
                  \/ \E i \in 1..(n + 1) - 1 : insns[i].op = "LOAD" /\ insns[i].kernel = j
                BY <2>1, <3>1, <4>1, <4>2 DEF Ahead
            <4>5. CASE j = k
                BY <2>9, <4>1, <4>2, <4>5
            <4>6. CASE j # k /\ InSram(j)
                BY <2>10, <4>1, <4>2, <4>3, <4>6
            <4>7. CASE j # k /\ \E i \in 1..(n + 1) - 1 : insns[i].op = "LOAD" /\ insns[i].kernel = j
                <5>1. PICK i \in 1..n : insns[i].op = "LOAD" /\ insns[i].kernel = j
                    BY <4>1, <4>7
                <5>2. i # 1
                    BY <1>4, <2>4, <4>7, <5>1
                <5>3. i - 1 \in 1..n - 1 /\ i - 1 \in 1..Len(insns) - 1 /\ (i - 1) + 1 = i
                    BY <1>3, <4>1, <5>1, <5>2
                <5>4. insns'[i - 1] = insns[i]
                    BY <1>3, <5>3
                <5> QED
                    BY <4>1, <4>2, <5>1, <5>3, <5>4
            <4> QED
                BY <4>4, <4>5, <4>6, <4>7
        <3> QED
            BY <3>1 DEF Ahead, InSram
    <2> QED
        BY <2>2, <2>3, <2>11
<1> QED
    BY <1>1, <1>6, <1>7 DEF Unevicted

LEMMA FitDeviceOp ==
    ASSUME Inv, Unevicted, DeviceOp
    PROVE  Unevicted'
<1>1. /\ status = "device" /\ insns # <<>> /\ Head(insns).op = "GEMM" /\ insns' = Tail(insns)
      /\ UNCHANGED <<kmap, cache, cacheIdx, sram, where, buffer, uopMem, status, evicted>>
    BY DEF DeviceOp
<1>2. PICK S : insns \in Seq(S)
    BY DEF Inv, Typed
<1>3. /\ Len(insns) \in Nat /\ Len(insns) > 0 /\ Len(insns') = Len(insns) - 1
      /\ Head(insns) = insns[1] /\ \A i \in 1..Len(insns) - 1 : insns'[i] = insns[i + 1]
    BY <1>1, <1>2, TailOf
<1>4. Kernels'
    BY <1>1 DEF Unevicted, Kernels, Cached
<1>5. ASSUME ~evicted
      PROVE  Fits' /\ Copied' /\ Ahead'
    <2>1. Fits /\ Copied /\ Ahead
        BY <1>1, <1>5 DEF Unevicted
    <2>2. Fits' /\ Layout(cache)' = Layout(cache)
        <3>1. ASSUME NEW i \in 1..Len(insns')
              PROVE  Own(i)'
            <4>1. i + 1 \in 1..Len(insns) /\ insns'[i] = insns[i + 1]
                BY <1>3
            <4>2. Own(i + 1)
                BY <2>1, <4>1 DEF Fits
            <4> QED
                BY <1>1, <4>1, <4>2 DEF Own, Cached
        <3> QED
            BY <1>1, <2>1, <3>1, FitsKept DEF Inv
    <2>3. Copied'
        BY <1>1, <2>1, <2>2 DEF Copied
    <2>4. \A k : InSram(k) => InSram(k)'
        BY <1>1 DEF InSram
    <2>5. ASSUME NEW n \in 1..Len(insns'), insns'[n].op = "GEMM"
          PROVE  \E j : /\ j = insns'[n].kernel
                        /\ \/ InSram(j)'
                           \/ \E i \in 1..n - 1 : insns'[i].op = "LOAD" /\ insns'[i].kernel = j
        <3>1. n + 1 \in 1..Len(insns) /\ insns'[n] = insns[n + 1] /\ n \in Nat
            BY <1>3
        <3>2. PICK j : j = insns[n + 1].kernel
            OBVIOUS
        <3>3. \/ InSram(j)
              \/ \E i \in 1..(n + 1) - 1 : insns[i].op = "LOAD" /\ insns[i].kernel = j
            BY <2>1, <2>5, <3>1, <3>2 DEF Ahead
        <3>4. CASE InSram(j)
            BY <2>4, <3>1, <3>2, <3>4
        <3>5. CASE \E i \in 1..(n + 1) - 1 : insns[i].op = "LOAD" /\ insns[i].kernel = j
            <4>1. PICK i \in 1..n : insns[i].op = "LOAD" /\ insns[i].kernel = j
                BY <3>1, <3>5
            <4>2. i # 1
                BY <1>1, <1>3, <4>1
            <4>3. i - 1 \in 1..n - 1 /\ i - 1 \in 1..Len(insns) - 1 /\ (i - 1) + 1 = i
                BY <1>3, <3>1, <4>1, <4>2
            <4>4. insns'[i - 1] = insns[i]
                BY <1>3, <4>3
            <4> QED
                BY <3>1, <3>2, <4>1, <4>3, <4>4
        <3> QED
            BY <3>3, <3>4, <3>5
    <2>6. Ahead'
        BY <2>5 DEF Ahead, InSram
    <2> QED
        BY <2>2, <2>3, <2>6
<1> QED
    BY <1>1, <1>4, <1>5 DEF Unevicted

LEMMA FitReset ==
    ASSUME Inv, Unevicted, Reset
    PROVE  Unevicted'
<1>1. /\ insns = <<>> /\ insns' = <<>> /\ cache' = <<>> /\ cacheIdx' = 0 /\ sram'.end = 0
      /\ status' = "host" /\ UNCHANGED <<kmap, buffer, uopMem>>
    BY DEF Reset, Nowhere
<1>2. \A k \in Kernel : ~Cached(k)'
    <2>1. Inv'
        BY StepInv DEF Next
    <2>2. Len(cache') = 0
        BY <1>1
    <2>3. \A k \in Kernel : where'[k] = Nowhere
        BY <2>1, <2>2 DEF Inv, Placed
    <2> QED
        BY <2>3 DEF Cached, Nowhere
<1>3. Kernels'
    BY <1>1, <1>2 DEF Unevicted, Kernels
<1>4. Layout(cache)' = <<>>
    <2>1. [i \in DOMAIN cache' |-> kmap'[cache'[i]].seq] = <<>>
        BY <1>1
    <2>2. FlattenSeq(<<>>) = <<>>
        BY Flattened
    <2> QED
        BY <2>1, <2>2 DEF Layout
<1>5. Len(cache') = 0 /\ Len(insns') = 0 /\ Len(Layout(cache)') = 0 /\ <<>> \in Seq(Uops) /\ 0 <= Depth
    BY <1>1, <1>4, UopQueueAssumption
<1>6. (\A i \in 1..Len(cache') : FALSE) /\ (\A i \in 1..Len(insns') : FALSE)
    BY <1>5
<1>7. Fits'
    BY <1>1, <1>4, <1>5, <1>6 DEF Fits
<1> QED
    BY <1>1, <1>3, <1>7 DEF Unevicted

LEMMA StepUnevicted == Inv /\ Unevicted /\ [Next]_vars => Unevicted'
<1> SUFFICES ASSUME Inv, Unevicted, [Next]_vars
             PROVE  Unevicted'
    OBVIOUS
<1>1. ASSUME NEW a \in Ask, PushCached(a)
      PROVE  Unevicted'
    BY <1>1, FitPushCached
<1>2. ASSUME NEW a \in Ask, PushUncached(a)
      PROVE  Unevicted'
    BY <1>2, FitPushUncached
<1>3. ASSUME NEW a \in Ask, PushFails(a)
      PROVE  Unevicted'
    BY <1>3, FitPushFails
<1>4. CASE Synchronize
    BY <1>4, FitSynchronize
<1>5. CASE DeviceLoad
    BY <1>5, FitDeviceLoad
<1>6. CASE DeviceOp
    BY <1>6, FitDeviceOp
<1>7. CASE Reset
    BY <1>7, FitReset
<1>8. CASE UNCHANGED vars
    <2>1. Layout(cache)' = Layout(cache)
        BY <1>8 DEF vars, Layout
    <2>2. Kernels'
        BY <1>8 DEF vars, Unevicted, Kernels, Cached
    <2>3. ASSUME Fits
          PROVE  Fits'
        <3>1. \A i \in 1..Len(insns') : Own(i)'
            BY <1>8, <2>3 DEF vars, Fits, Own, Cached
        <3> QED
            BY <1>8, <2>3, <3>1, FitsKept DEF vars, Inv
    <2>4. Copied => Copied'
        BY <1>8, <2>1 DEF vars, Copied
    <2>5. Ahead => Ahead'
        BY <1>8 DEF vars, Ahead, InSram
    <2> QED
        BY <1>8, <2>2, <2>3, <2>4, <2>5 DEF vars, Unevicted
<1> QED
    BY <1>1, <1>2, <1>3, <1>4, <1>5, <1>6, <1>7, <1>8 DEF Next

\* A batch in which no kernel makes room for another runs every operation with
\* the micro-ops of its own kernel: the offsets that the pushes put in the loads
\* (runtime.cc, FlushUopLoad) are the places where ReadBarrier copies them.
THEOREM FittingBatchesReadTheirUops == Spec => []FittingBatchReadsItsUops
<1>1. Init => Inv /\ Unevicted
    BY InitInv, FitInit
<1>2. Inv /\ Unevicted /\ [Next]_vars => Inv' /\ Unevicted'
    BY StepInv, StepUnevicted
<1>3. Inv /\ Unevicted => FittingBatchReadsItsUops
    <2> SUFFICES ASSUME Inv, Unevicted, ~evicted, status = "device", insns # <<>>, Head(insns).op = "GEMM"
                 PROVE  [i \in 1..(Head(insns).end - Head(insns).begin) |-> uopMem[Head(insns).begin + i - 1]]
                          = kmap[Head(insns).kernel].seq
        BY DEF FittingBatchReadsItsUops, OpReadsItsUops
    <2>1. PICK S : insns \in Seq(S)
        BY DEF Inv, Typed
    <2>2. Head(insns) = insns[1] /\ 1 \in 1..Len(insns)
        BY <2>1, TailOf
    <2>3. PICK k, b, e : k = insns[1].kernel /\ b = insns[1].begin /\ e = insns[1].end
        OBVIOUS
    <2>4. Own(1) /\ k \in Kernel /\ Cached(k) /\ b = where[k].begin /\ e = where[k].end
        BY <2>2, <2>3 DEF Unevicted, Fits, Own
    <2>5. InSram(k)
        <3>1. \A i \in 1..1 - 1 : FALSE
            OBVIOUS
        <3> QED
            BY <2>2, <2>3, <3>1 DEF Unevicted, Ahead
    <2>6. AtHome(k) /\ kmap[k].seq \in Seq(Uops) /\ b \in Nat /\ e \in Nat
        <3>1. PICK p \in 1..Len(cache) : cache[p] = k
            BY <2>4, Distinct DEF Inv
        <3> QED
            BY <2>4, <3>1, Distinct DEF Inv, Unevicted, Fits, Kernels
    <2>7. PICK s : s = kmap[k].seq
        OBVIOUS
    <2>8. s \in Seq(Uops) /\ Len(s) \in Nat /\ e - b = Len(s) /\ \A j \in 1..Len(s) : uopMem[b + j - 1] = s[j]
        <3>1. Len(s) \in Nat /\ s \in Seq(Uops)
            BY <2>6, <2>7
        <3>2. \A j \in 1..Len(s) : uopMem[b + j - 1] = s[j]
            BY <2>4, <2>5, <2>7, Zenon DEF InSram
        <3>3. e = b + Len(s)
            BY <2>4, <2>6, <2>7 DEF AtHome
        <3> QED
            BY <2>6, <3>1, <3>2, <3>3
    <2>9. [i \in 1..e - b |-> uopMem[b + i - 1]] = s
        <3>1. s = [i \in 1..Len(s) |-> s[i]]
            BY <2>8
        <3> QED
            BY <2>8, <3>1
    <2> QED
        BY <2>2, <2>3, <2>7, <2>9
<1> QED
    BY <1>1, <1>2, <1>3, PTL DEF Spec

--------------------------------------------------------------------------------
(* What an operation sweeps is what its program's calls mean.              *)

Outermost == <<[loop |-> Once, body |-> <<>>]>>

\* The recursion in Meaning, over the positions up to n.
ReadsAt(g, calls, s) ==
    IF s = {} THEN Outermost ELSE LET x == Max(s) IN Interpret(g[s \ {x}], calls[x])
IsReading(g, calls, n) == g = [s \in SUBSET (1..n) |-> ReadsAt(g, calls, s)]

LEMMA ReadAt ==
    ASSUME NEW calls, NEW n \in Nat, NEW g, IsReading(g, calls, n), NEW s \in SUBSET (1..n)
    PROVE  g[s] = ReadsAt(g, calls, s)
<1>1. PICK h : h = [t \in SUBSET (1..n) |-> ReadsAt(g, calls, t)]
    OBVIOUS
<1>2. g = h
    BY <1>1 DEF IsReading
<1> QED
    BY <1>1, <1>2

LEMMA ReadingExists ==
    ASSUME NEW calls, NEW n \in Nat
    PROVE  \E g : IsReading(g, calls, n)
<1> DEFINE Missing == {m \in Nat : ~\E g : IsReading(g, calls, m)}
<1>1. CASE Missing = {}
    BY <1>1
<1>2. CASE Missing # {}
    <2>1. PICK m \in Missing : \A j \in Missing : m <= j
        BY <1>2, LeastNumber
    <2>2. m # 0
        <3>1. PICK g : g = [s \in SUBSET (1..0) |-> Outermost]
            OBVIOUS
        <3>2. \A s \in SUBSET (1..0) : s = {}
            OBVIOUS
        <3>3. IsReading(g, calls, 0)
            BY <3>1, <3>2 DEF IsReading, ReadsAt
        <3> QED
            BY <2>1, <3>3
    <2>3. PICK k \in Nat : m = k + 1
        BY <2>1, <2>2
    <2>4. PICK f : IsReading(f, calls, k)
        BY <2>1, <2>3
    <2>5. PICK g : g = [s \in SUBSET (1..k + 1) |->
                          IF k + 1 \in s THEN Interpret(f[s \ {k + 1}], calls[k + 1]) ELSE f[s]]
        OBVIOUS
    <2>6. ASSUME NEW s \in SUBSET (1..k + 1)
          PROVE  g[s] = ReadsAt(g, calls, s)
        <3>1. CASE k + 1 \in s
            <4>1. s # {} /\ Max(s) = k + 1
                BY <3>1, MaxOfPositions
            <4>2. s \ {k + 1} \in SUBSET (1..k + 1) /\ k + 1 \notin s \ {k + 1}
                OBVIOUS
            <4>3. g[s \ {k + 1}] = f[s \ {k + 1}]
                BY <2>5, <4>2
            <4>4. g[s] = Interpret(f[s \ {k + 1}], calls[k + 1])
                BY <2>5, <3>1
            <4> QED
                BY <4>1, <4>3, <4>4 DEF ReadsAt
        <3>2. CASE k + 1 \notin s
            <4>1. s \in SUBSET (1..k) /\ g[s] = f[s]
                BY <2>5, <3>2
            <4>2. f[s] = ReadsAt(f, calls, s)
                BY <2>4, <4>1, ReadAt
            <4>3. s # {} => /\ s \ {Max(s)} \in SUBSET (1..k + 1) /\ k + 1 \notin s \ {Max(s)}
                            /\ g[s \ {Max(s)}] = f[s \ {Max(s)}]
                BY <2>5, <3>2
            <4> QED
                BY <4>1, <4>2, <4>3 DEF ReadsAt
        <3> QED
            BY <3>1, <3>2
    <2>7. IsReading(g, calls, m)
        <3>1. g = [s \in SUBSET (1..k + 1) |-> g[s]]
            BY <2>5
        <3> QED
            BY <2>3, <2>6, <3>1 DEF IsReading
    <2> QED
        BY <2>1, <2>7
<1> QED
    BY <1>1, <1>2

Reader(calls) == CHOOSE g : IsReading(g, calls, Len(calls))

\* Meaning as a sequence of steps.
IsInterpreting(h, calls) ==
    /\ h[0] = Outermost /\ Meaning(calls) = h[Len(calls)][1].body
    /\ \A m \in 1..Len(calls) : h[m] = Interpret(h[m - 1], calls[m])

LEMMA MeaningSteps ==
    ASSUME NEW S, NEW calls \in Seq(S)
    PROVE  \E h : IsInterpreting(h, calls)
<1>1. PICK n, g : n = Len(calls) /\ g = Reader(calls)
    OBVIOUS
<1>2. n \in Nat /\ DOMAIN calls = 1..n /\ IsReading(g, calls, n)
    <2>1. Len(calls) \in Nat /\ DOMAIN calls = 1..Len(calls)
        OBVIOUS
    <2>2. IsReading(Reader(calls), calls, Len(calls))
        BY <2>1, ReadingExists DEF Reader
    <2> QED
        BY <1>1, <2>1, <2>2
<1>r. Meaning(calls) = g[1..n][1].body
    BY <1>1, <1>2 DEF Meaning, FoldLeft, MapThenFoldSet, Reader, IsReading, ReadsAt, Outermost
<1>3. PICK h : h = [m \in 0..n |-> g[1..m]]
    OBVIOUS
<1>4. h[0] = Outermost
    <2>1. PICK z : z = {}
        OBVIOUS
    <2>2. z \in SUBSET (1..n) /\ 1..0 = z
        BY <2>1
    <2>3. g[z] = Outermost
        BY <1>2, <2>1, <2>2, ReadAt DEF ReadsAt
    <2>4. h[0] = g[1..0]
        BY <1>2, <1>3
    <2> QED
        BY <2>2, <2>3, <2>4
<1>5. ASSUME NEW m \in 1..n
      PROVE  h[m] = Interpret(h[m - 1], calls[m])
    <2>1. PICK k \in Nat : m = k + 1 /\ k + 1 \in 1..n
        <3>1. m - 1 \in Nat /\ m = (m - 1) + 1
            BY <1>2
        <3> QED
            BY <3>1
    <2>2. PICK s : s = 1..k + 1
        OBVIOUS
    <2>3. s \in SUBSET (1..n) /\ s \in SUBSET (1..k + 1) /\ s # {} /\ k + 1 \in s
        <3>1. \A i \in 1..k + 1 : i \in 1..n
            BY <1>2, <2>1
        <3>2. k + 1 \in 1..k + 1
            OBVIOUS
        <3> QED
            BY <2>2, <3>1, <3>2
    <2>4. Max(s) = k + 1
        BY <2>3, MaxOfPositions
    <2>5. s \ {k + 1} = 1..k
        BY <2>2
    <2>6. g[s] = ReadsAt(g, calls, s)
        <3>1. n \in Nat /\ IsReading(g, calls, n) /\ s \in SUBSET (1..n)
            BY <1>2, <2>3
        <3> QED
            BY <3>1, ReadAt
    <2>7. g[s] = Interpret(g[1..k], calls[k + 1])
        BY <2>3, <2>4, <2>5, <2>6 DEF ReadsAt
    <2>8. h[m] = g[s] /\ h[m - 1] = g[1..k]
        <3>1. m \in 0..n /\ m - 1 \in 0..n /\ m - 1 = k
            BY <1>2, <2>1
        <3>2. h[m] = g[1..m] /\ h[m - 1] = g[1..m - 1]
            BY <1>3, <3>1
        <3> QED
            BY <2>1, <2>2, <3>1, <3>2
    <2> QED
        BY <2>1, <2>7, <2>8
<1>6. h[n] = g[1..n]
    BY <1>2, <1>3
<1> QED
    BY <1>1, <1>r, <1>4, <1>5, <1>6 DEF IsInterpreting

\* The micro-ops as the device moves them, and the loops around them.
Triple == [dst : Int, src : Int, wgt : Int]
IsLoop(c) == c.extent \in Nat /\ c.dst \in Int /\ c.src \in Int /\ c.wgt \in Int

LEMMA RepeatTyped ==
    ASSUME NEW u \in Seq(Triple), NEW c, IsLoop(c)
    PROVE  Repeat(u, c) \in Seq(Triple)
<1>1. PICK e : e = c.extent /\ e \in Nat
    BY DEF IsLoop
<1>2. PICK s : s = [i \in 1..e |-> [n \in DOMAIN u |-> Moved(u[n], c, i - 1)]]
    OBVIOUS
<1>3. Len(u) \in Nat /\ DOMAIN u = 1..Len(u) /\ \A n \in 1..Len(u) : u[n] \in Triple
    BY Lengths
<1>4. ASSUME NEW i \in 1..e
      PROVE  s[i] \in Seq(Triple)
    <2>1. ASSUME NEW n \in 1..Len(u)
          PROVE  Moved(u[n], c, i - 1) \in Triple
        <3>1. u[n].dst \in Int /\ u[n].src \in Int /\ u[n].wgt \in Int
            BY <1>3 DEF Triple
        <3>2. i - 1 \in Int /\ c.dst \in Int /\ c.src \in Int /\ c.wgt \in Int
            BY <1>1 DEF IsLoop
        <3>3. \A x, y, z \in Int : x + y * z \in Int
            OBVIOUS
        <3>4. /\ u[n].dst + (i - 1) * c.dst \in Int /\ u[n].src + (i - 1) * c.src \in Int
              /\ u[n].wgt + (i - 1) * c.wgt \in Int
            BY <3>1, <3>2, <3>3, Zenon
        <3> QED
            BY <3>4, Zenon DEF Moved, Triple
    <2>2. s[i] = [n \in 1..Len(u) |-> Moved(u[n], c, i - 1)]
        BY <1>2, <1>3
    <2> QED
        BY <1>3, <2>1, <2>2
<1>5. s \in Seq(Seq(Triple))
    <2>1. s \in [1..e -> Seq(Triple)]
        BY <1>2, <1>4
    <2> QED
        BY <1>1, <2>1, SeqDef
<1> QED
    BY <1>1, <1>2, <1>5, FlattenTyped DEF Repeat

LEMMA RepeatOnce ==
    ASSUME NEW u \in Seq(Triple)
    PROVE  Repeat(u, Once) = u
<1>1. Len(u) \in Nat /\ DOMAIN u = 1..Len(u) /\ \A n \in 1..Len(u) : u[n] \in Triple
    BY Lengths
<1>2. ASSUME NEW n \in 1..Len(u)
      PROVE  Moved(u[n], Once, 0) = u[n]
    <2>1. u[n].dst \in Int /\ u[n].src \in Int /\ u[n].wgt \in Int
          /\ u[n] = [dst |-> u[n].dst, src |-> u[n].src, wgt |-> u[n].wgt]
        BY <1>1 DEF Triple
    <2> QED
        BY <2>1 DEF Moved, Once
<1>3. [n \in DOMAIN u |-> Moved(u[n], Once, 0)] = u
    <2>1. u = [n \in 1..Len(u) |-> u[n]]
        BY <1>1
    <2> QED
        BY <1>1, <1>2, <2>1
<1>4. PICK s : s = [i \in 1..1 |-> [n \in DOMAIN u |-> Moved(u[n], Once, i - 1)]]
    OBVIOUS
<1>5. s = <<u>>
    <2>1. s = [i \in 1..1 |-> u]
        <3>1. ASSUME NEW i \in 1..1
              PROVE  s[i] = u
            <4>1. i = 1 /\ i - 1 = 0
                OBVIOUS
            <4> QED
                BY <1>3, <1>4, <4>1
        <3> QED
            BY <1>4, <3>1
    <2> QED
        BY <2>1
<1>6. FlattenSeq(<<u>>) = u
    <2>1. <<>> \in Seq(Seq(Triple)) /\ Append(<<>>, u) = <<u>>
        OBVIOUS
    <2> QED
        BY <2>1, FlattenAppend
<1>7. Repeat(u, Once) = FlattenSeq(s)
    BY <1>4 DEF Repeat, Once
<1> QED
    BY <1>5, <1>6, <1>7

\* Only the four fields of a loop count.
LEMMA RepeatAlike ==
    ASSUME NEW u, NEW c, NEW d, c.extent = d.extent, c.dst = d.dst, c.src = d.src, c.wgt = d.wgt
    PROVE  Repeat(u, c) = Repeat(u, d)
<1>1. \A x, i : Moved(x, c, i) = Moved(x, d, i)
    BY DEF Moved
<1> QED
    BY <1>1 DEF Repeat

\* The first p micro-ops of a nest; its frames on the stack, b of them open.
Body(calls, depth, p) == [i \in 1..p |-> Uop(calls[depth + i])]
Frames(calls, b, u) ==
    [j \in 1..b + 1 |-> [loop |-> IF j = 1 THEN Once ELSE calls[j - 1], body |-> IF j = b + 1 THEN u ELSE <<>>]]
LoopOf(c) == [extent |-> c.extent, dst |-> c.dst, src |-> c.src, wgt |-> c.wgt]

LEMMA BodyGrows ==
    ASSUME NEW calls, NEW depth \in Nat, NEW p \in Nat
    PROVE  /\ Body(calls, depth, 0) = <<>>
           /\ Body(calls, depth, p + 1) = Append(Body(calls, depth, p), Uop(calls[depth + (p + 1)]))
           /\ Body(calls, depth, p + 1) = Body(calls, depth, p) \o <<Uop(calls[depth + (p + 1)])>>
<1>1. PICK s, x : s = Body(calls, depth, p) /\ x = Uop(calls[depth + (p + 1)])
    OBVIOUS
<1>2. PICK T : T = {s[i] : i \in 1..p}
    OBVIOUS
<1>3. s \in Seq(T) /\ Len(s) = p /\ \A i \in 1..p : s[i] = Uop(calls[depth + i])
    <2>1. s = [i \in 1..p |-> Uop(calls[depth + i])]
        BY <1>1 DEF Body
    <2>2. s \in [1..p -> T] /\ \A i \in 1..p : s[i] = Uop(calls[depth + i])
        BY <1>2, <2>1
    <2>3. s \in Seq(T)
        BY <2>2, SeqDef
    <2> QED
        BY <2>2, <2>3
<1>4. /\ Append(s, x) \in Seq(T \cup {x}) /\ Len(Append(s, x)) = p + 1 /\ Append(s, x)[p + 1] = x
      /\ \A i \in 1..p : Append(s, x)[i] = s[i]
    BY <1>3, Lengths
<1>5. PICK r, V : r = Append(s, x) /\ V = T \cup {x}
    OBVIOUS
<1>6. r = [i \in 1..p + 1 |-> r[i]]
    <2>1. r \in Seq(V) /\ Len(r) = p + 1
        BY <1>4, <1>5
    <2> QED
        BY <2>1
<1>7. \A i \in 1..p + 1 : r[i] = Uop(calls[depth + i])
    BY <1>1, <1>3, <1>4, <1>5
<1>8. r = Body(calls, depth, p + 1)
    BY <1>6, <1>7 DEF Body
<1>9. s \o <<x>> = Append(s, x)
    <2>1. s \in Seq(T \cup {x}) /\ x \in T \cup {x}
        BY <1>3, SeqDef
    <2> QED
        BY <2>1, AppendIsConcat
<1>10. Body(calls, depth, 0) = <<>>
    BY DEF Body
<1> QED
    BY <1>1, <1>5, <1>8, <1>9, <1>10

\* What has been recorded after b loops and p micro-ops of a nest.
NoThird(calls, depth) == \A j \in 1..depth : calls[j].wgt = 0
Recs(x, calls, depth, b, p) ==
    /\ x = [seq |-> Body(calls, depth, p), loop |-> [j \in 1..b |-> LoopOf(calls[j])],
            mode |-> x.mode, reset |-> x.reset, alu |-> x.alu, ok |-> x.ok]
    /\ x.ok \in BOOLEAN
    /\ x.ok => b <= 2
    /\ x.mode = "alu" => NoThird(calls, depth)

LEMMA LoopsGrow ==
    ASSUME NEW calls, NEW b \in Nat
    PROVE  /\ Append([j \in 1..b |-> LoopOf(calls[j])], LoopOf(calls[b + 1])) = [j \in 1..b + 1 |-> LoopOf(calls[j])]
           /\ Len([j \in 1..b |-> LoopOf(calls[j])]) = b
<1>1. PICK s, x : s = [j \in 1..b |-> LoopOf(calls[j])] /\ x = LoopOf(calls[b + 1])
    OBVIOUS
<1>2. PICK T : T = {s[i] : i \in 1..b}
    OBVIOUS
<1>3. s \in Seq(T) /\ Len(s) = b /\ \A i \in 1..b : s[i] = LoopOf(calls[i])
    <2>1. s \in [1..b -> T] /\ \A i \in 1..b : s[i] = LoopOf(calls[i])
        BY <1>1, <1>2
    <2>2. s \in Seq(T)
        BY <2>1, SeqDef
    <2> QED
        BY <2>1, <2>2
<1>4. PICK r, V : r = Append(s, x) /\ V = T \cup {x}
    OBVIOUS
<1>5. r \in Seq(V) /\ Len(r) = b + 1 /\ r[b + 1] = x /\ \A i \in 1..b : r[i] = s[i]
    BY <1>3, <1>4, Lengths
<1>6. r = [i \in 1..b + 1 |-> r[i]]
    BY <1>5
<1>7. \A i \in 1..b + 1 : r[i] = LoopOf(calls[i])
    BY <1>1, <1>3, <1>5
<1>8. r = [i \in 1..b + 1 |-> LoopOf(calls[i])]
    BY <1>6, <1>7
<1> QED
    BY <1>1, <1>3, <1>4, <1>8

LEMMA RecsBegin ==
    ASSUME NEW x, NEW calls, NEW depth, NEW b \in Nat, Recs(x, calls, depth, b, 0),
           calls[b + 1].op = "begin"
    PROVE  Recs(RecordCall(x, calls[b + 1]), calls, depth, b + 1, 0)
<1>1. PICK c, y, l : c = calls[b + 1] /\ y = RecordCall(x, c) /\ l = [j \in 1..b |-> LoopOf(calls[j])]
    OBVIOUS
<1>2. y = PushLoopBegin(x, c)
    BY <1>1 DEF RecordCall
<1>3. PICK s, m, r, a, o : s = Body(calls, depth, 0) /\ m = x.mode /\ r = x.reset /\ a = x.alu /\ o = x.ok
    OBVIOUS
<1>4. x = [seq |-> s, loop |-> l, mode |-> m, reset |-> r, alu |-> a, ok |-> o]
    BY <1>1, <1>3 DEF Recs
<1>5. y = [seq |-> s, loop |-> Append(l, LoopOf(c)), mode |-> m, reset |-> r, alu |-> a,
           ok |-> o /\ s = <<>> /\ Len(l) < 2]
    BY <1>2, <1>4 DEF PushLoopBegin, LoopOf
<1>6. y.ok = (o /\ s = <<>> /\ Len(l) < 2) /\ y.seq = s /\ y.mode = m /\ y.reset = r /\ y.alu = a
      /\ y.loop = Append(l, LoopOf(c))
    BY <1>5
<1>7. y.loop = [j \in 1..b + 1 |-> LoopOf(calls[j])] /\ Len(l) = b
    BY <1>1, <1>6, LoopsGrow
<1>8. y.ok \in BOOLEAN /\ (y.ok => b + 1 <= 2)
    <2>1. y.ok => Len(l) < 2
        BY <1>6
    <2>2. y.ok \in BOOLEAN
        BY <1>6, Zenon
    <2>3. b < 2 => b + 1 <= 2
        OBVIOUS
    <2> QED
        BY <1>7, <2>1, <2>2, <2>3
<1>9. y.mode = "alu" => NoThird(calls, depth)
    BY <1>3, <1>6 DEF Recs
<1>10. y = [seq |-> s, loop |-> y.loop, mode |-> y.mode, reset |-> y.reset, alu |-> y.alu, ok |-> y.ok]
    BY <1>5
<1> QED
    BY <1>1, <1>3, <1>7, <1>8, <1>9, <1>10 DEF Recs

LEMMA RecsPush ==
    ASSUME NEW x, NEW calls, NEW depth \in Nat, NEW p \in Nat, Recs(x, calls, depth, depth, p),
           calls[depth + (p + 1)].op = "push",
           calls[depth + (p + 1)].mode = "alu" => NoThird(calls, depth)
    PROVE  Recs(RecordCall(x, calls[depth + (p + 1)]), calls, depth, depth, p + 1)
<1>1. PICK c, y, l : c = calls[depth + (p + 1)] /\ y = RecordCall(x, c) /\ l = [j \in 1..depth |-> LoopOf(calls[j])]
    OBVIOUS
<1>2. y = Push(x, c)
    BY <1>1 DEF RecordCall
<1>3. PICK s, m, r, a, o : s = Body(calls, depth, p) /\ m = x.mode /\ r = x.reset /\ a = x.alu /\ o = x.ok
    OBVIOUS
<1>4. x = [seq |-> s, loop |-> l, mode |-> m, reset |-> r, alu |-> a, ok |-> o]
    BY <1>1, <1>3 DEF Recs
<1>5. y = [seq |-> Append(s, Uop(c)), loop |-> l, mode |-> c.mode, reset |-> c.reset,
           alu |-> IF c.mode = "alu" THEN c.alu ELSE a,
           ok |-> o /\ Agrees(m, c.mode) /\ Agrees(r, c.reset) /\ (c.mode = "alu" => Agrees(a, c.alu))]
    BY <1>2, <1>4 DEF Push
<1>6. /\ y.ok = (o /\ Agrees(m, c.mode) /\ Agrees(r, c.reset) /\ (c.mode = "alu" => Agrees(a, c.alu)))
      /\ y.seq = Append(s, Uop(c)) /\ y.mode = c.mode /\ y.loop = l
    BY <1>5
<1>7. y.seq = Body(calls, depth, p + 1)
    BY <1>1, <1>3, <1>6, BodyGrows
<1>8. y.ok \in BOOLEAN /\ (y.ok => o)
    BY <1>6, Zenon
<1>9. y.ok => depth <= 2
    BY <1>3, <1>8 DEF Recs
<1>10. y = [seq |-> y.seq, loop |-> y.loop, mode |-> y.mode, reset |-> y.reset, alu |-> y.alu, ok |-> y.ok]
    BY <1>5
<1> QED
    BY <1>1, <1>6, <1>7, <1>8, <1>9, <1>10 DEF Recs

\* How many loops and micro-ops the first m calls of a nest of n record.
Begun(m, depth) == IF m <= depth THEN m ELSE depth
Pushed(m, depth, n) == IF m <= depth THEN 0 ELSE IF m <= n - depth THEN m - depth ELSE n - depth - depth

\* The m-th call of a nest.
LEMMA NestCall ==
    ASSUME NEW S, NEW calls \in Seq(S), NEW depth \in Nat, Nest(calls, depth), NEW m \in 1..Len(calls)
    PROVE  LET n == Len(calls) IN
           \/ /\ m <= depth /\ calls[m].op = "begin" /\ IsLoop(calls[m])
              /\ Begun(m - 1, depth) + 1 = m /\ Begun(m, depth) = m
              /\ Pushed(m - 1, depth, n) = 0 /\ Pushed(m, depth, n) = 0
           \/ /\ depth < m /\ m <= n - depth /\ calls[m].op = "push" /\ Uop(calls[m]) \in Triple
              /\ (calls[m].mode = "alu" => NoThird(calls, depth))
              /\ Begun(m - 1, depth) = depth /\ Begun(m, depth) = depth
              /\ Pushed(m, depth, n) = Pushed(m - 1, depth, n) + 1
              /\ Pushed(m - 1, depth, n) \in Nat
              /\ depth + (Pushed(m - 1, depth, n) + 1) = m
           \/ /\ n - depth < m /\ calls[m].op = "end"
              /\ Begun(m - 1, depth) = depth /\ Begun(m, depth) = depth
              /\ Pushed(m, depth, n) = Pushed(m - 1, depth, n)
<1>1. PICK n : n = Len(calls) /\ n \in Nat /\ DOMAIN calls = 1..n
    OBVIOUS
<1>2. depth + depth <= n /\ m \in 1..n /\ m \in Nat /\ n \in Nat
    <2>1. 2 * depth <= n
        BY <1>1 DEF Nest
    <2> QED
        BY <1>1, <2>1
<1>3. CASE m <= depth
    <2>1. calls[m].op = "begin" /\ IsLoop(calls[m])
        BY <1>1, <1>2, <1>3 DEF Nest, IsLoop
    <2>2. /\ Begun(m - 1, depth) + 1 = m /\ Begun(m, depth) = m
          /\ Pushed(m - 1, depth, n) = 0 /\ Pushed(m, depth, n) = 0
        BY <1>1, <1>2, <1>3 DEF Begun, Pushed
    <2> QED
        BY <1>1, <1>3, <2>1, <2>2
<1>4. CASE depth < m /\ m <= n - depth
    <2>1. m \in DOMAIN calls \ (1..depth \cup Len(calls) - depth + 1..Len(calls))
        BY <1>1, <1>2, <1>4
    <2>2. /\ calls[m].op = "push" /\ calls[m].dst \in Int /\ calls[m].src \in Int /\ calls[m].wgt \in Int
          /\ calls[m].mode = "alu" => NoThird(calls, depth)
        BY <2>1 DEF Nest, NoThird
    <2>3. Uop(calls[m]) \in Triple
        BY <2>2 DEF Uop, Triple
    <2>4. /\ Begun(m - 1, depth) = depth /\ Begun(m, depth) = depth
          /\ Pushed(m, depth, n) = m - depth
        BY <1>1, <1>2, <1>4 DEF Begun, Pushed
    <2>5. Pushed(m - 1, depth, n) = m - 1 - depth
        BY <1>2, <1>4 DEF Pushed
    <2>6. /\ Pushed(m, depth, n) = Pushed(m - 1, depth, n) + 1 /\ Pushed(m - 1, depth, n) \in Nat
          /\ depth + (Pushed(m - 1, depth, n) + 1) = m
        BY <1>2, <1>4, <2>4, <2>5
    <2> QED
        BY <1>1, <1>4, <2>2, <2>3, <2>4, <2>6
<1>5. CASE n - depth < m
    <2>1. calls[m].op = "end"
        BY <1>1, <1>2, <1>5 DEF Nest
    <2>2. /\ Begun(m - 1, depth) = depth /\ Begun(m, depth) = depth
        BY <1>1, <1>2, <1>5 DEF Begun
    <2>3. Pushed(m, depth, n) = n - depth - depth
        BY <1>2, <1>5 DEF Pushed
    <2>4. Pushed(m - 1, depth, n) = n - depth - depth
        BY <1>2, <1>5 DEF Pushed
    <2> QED
        BY <1>1, <1>5, <2>1, <2>2, <2>3, <2>4
<1> QED
    BY <1>1, <1>2, <1>3, <1>4, <1>5

LEMMA RecordsNest ==
    ASSUME NEW S, NEW calls \in Seq(S), NEW depth \in Nat, Nest(calls, depth)
    PROVE  Recs(Record(calls), calls, depth, depth, Len(calls) - 2 * depth)
<1>1. PICK n : n = Len(calls) /\ n \in Nat
    OBVIOUS
<1>2. PICK h : IsRecording(h, calls)
    BY RecordSteps
<1> DEFINE Good(m) == Recs(h[m], calls, depth, Begun(m, depth), Pushed(m, depth, n))
           Fails == {m \in Nat : m <= n /\ ~Good(m)}
<1>3. CASE Fails = {}
    <2>1. 2 * depth <= n /\ 2 * depth = depth + depth
        BY <1>1 DEF Nest
    <2>2. Good(n)
        BY <1>1, <1>3
    <2>3. Begun(n, depth) = depth /\ Pushed(n, depth, n) = n - depth - depth /\ n - depth - depth = n - 2 * depth
        BY <1>1, <2>1 DEF Begun, Pushed
    <2> QED
        BY <1>1, <1>2, <2>2, <2>3 DEF IsRecording
<1>4. CASE Fails # {}
    <2>1. PICK m \in Fails : \A j \in Fails : m <= j
        BY <1>4, LeastNumber
    <2>2. m # 0
        <3>1. Begun(0, depth) = 0 /\ Pushed(0, depth, n) = 0
            BY DEF Begun, Pushed
        <3>2. Body(calls, depth, 0) = <<>> /\ [j \in 1..0 |-> LoopOf(calls[j])] = <<>>
            BY DEF Body
        <3>3. Recs(NewKernel, calls, depth, 0, 0)
            <4>1. PICK x : x = NewKernel
                OBVIOUS
            <4>2. x = [seq |-> <<>>, loop |-> <<>>, mode |-> "unset", reset |-> "unset", alu |-> "unset", ok |-> TRUE]
                BY <4>1 DEF NewKernel, Unset
            <4>3. /\ x.mode = "unset" /\ x.reset = "unset" /\ x.alu = "unset" /\ x.ok = TRUE
                BY <4>2
            <4>4. x = [seq |-> <<>>, loop |-> <<>>, mode |-> x.mode, reset |-> x.reset, alu |-> x.alu, ok |-> x.ok]
                BY <4>2, <4>3, Zenon
            <4>5. x.mode # "alu"
                BY <4>3
            <4>6. x.ok \in BOOLEAN
                BY <4>3, Zenon
            <4>7. x = [seq |-> Body(calls, depth, 0), loop |-> [j \in 1..0 |-> LoopOf(calls[j])],
                       mode |-> x.mode, reset |-> x.reset, alu |-> x.alu, ok |-> x.ok]
                BY <3>2, <4>4, Zenon
            <4>8. 0 <= 2
                OBVIOUS
            <4> QED
                BY <4>1, <4>5, <4>6, <4>7, <4>8, Zenon DEF Recs
        <3> QED
            BY <1>2, <2>1, <3>1, <3>3 DEF IsRecording
    <2>3. m \in 1..n /\ m - 1 \in Nat /\ m - 1 <= n /\ ~(m <= m - 1)
        BY <1>1, <2>1, <2>2
    <2>4. Good(m - 1)
        BY <2>1, <2>3
    <2>5. h[m] = RecordCall(h[m - 1], calls[m])
        BY <1>1, <1>2, <2>3 DEF IsRecording
    <2>6. ~Good(m)
        BY <2>1
    <2>7. PICK b, p, x : b = Begun(m - 1, depth) /\ p = Pushed(m - 1, depth, n) /\ x = h[m - 1]
        OBVIOUS
    <2>8. Recs(x, calls, depth, b, p)
        BY <2>4, <2>7
    <2>9. CASE m <= depth /\ calls[m].op = "begin" /\ b + 1 = m /\ Begun(m, depth) = m /\ p = 0 /\ Pushed(m, depth, n) = 0
        <3>1. b \in Nat
            BY <2>3, <2>7, <2>9 DEF Begun
        <3> QED
            BY <2>5, <2>6, <2>7, <2>8, <2>9, <3>1, RecsBegin
    <2>10. CASE /\ calls[m].op = "push" /\ (calls[m].mode = "alu" => NoThird(calls, depth))
                /\ b = depth /\ Begun(m, depth) = depth /\ p \in Nat
                /\ Pushed(m, depth, n) = p + 1 /\ depth + (p + 1) = m
        BY <2>5, <2>6, <2>7, <2>8, <2>10, RecsPush
    <2>11. CASE calls[m].op = "end" /\ b = depth /\ Begun(m, depth) = depth /\ Pushed(m, depth, n) = p
        <3>1. h[m] = x
            BY <2>5, <2>7, <2>11 DEF RecordCall, PushLoopEnd
        <3> QED
            BY <2>6, <2>8, <2>11, <3>1
    <2> QED
        BY <1>1, <2>3, <2>7, <2>9, <2>10, <2>11, NestCall
<1> QED
    BY <1>3, <1>4

\* What a stack of open loops becomes.
LEMMA FramesShape ==
    ASSUME NEW calls, NEW b \in Nat, NEW u
    PROVE  LET f == Frames(calls, b, u) IN
           /\ \E T : f \in Seq(T)
           /\ Len(f) = b + 1 /\ DOMAIN f = 1..b + 1
           /\ \A j \in 1..b + 1 : f[j] = [loop |-> IF j = 1 THEN Once ELSE calls[j - 1],
                                          body |-> IF j = b + 1 THEN u ELSE <<>>]
<1>1. PICK f : f = Frames(calls, b, u)
    OBVIOUS
<1>2. PICK T : T = {f[j] : j \in 1..b + 1}
    OBVIOUS
<1>3. f = [j \in 1..b + 1 |-> [loop |-> IF j = 1 THEN Once ELSE calls[j - 1],
                               body |-> IF j = b + 1 THEN u ELSE <<>>]]
    BY <1>1 DEF Frames
<1>4. /\ f \in [1..b + 1 -> T]
      /\ \A j \in 1..b + 1 : f[j] = [loop |-> IF j = 1 THEN Once ELSE calls[j - 1],
                                     body |-> IF j = b + 1 THEN u ELSE <<>>]
    BY <1>2, <1>3
<1>5. f \in Seq(T)
    <2>1. b + 1 \in Nat
        OBVIOUS
    <2> QED
        BY <1>4, <2>1, SeqDef
<1>6. Len(f) = b + 1 /\ DOMAIN f = 1..b + 1
    BY <1>4, <1>5
<1> QED
    BY <1>1, <1>4, <1>5, <1>6

LEMMA FramesOpen ==
    ASSUME NEW calls, NEW b \in Nat
    PROVE  Open(Frames(calls, b, <<>>), calls[b + 1]) = Frames(calls, b + 1, <<>>)
<1>1. PICK f, x, r : /\ f = Frames(calls, b, <<>>) /\ x = [loop |-> calls[b + 1], body |-> <<>>]
                     /\ r = Append(f, x)
    OBVIOUS
<1>2. PICK T : f \in Seq(T)
    BY <1>1, FramesShape
<1>3. /\ Len(f) = b + 1
      /\ \A j \in 1..b + 1 : f[j] = [loop |-> IF j = 1 THEN Once ELSE calls[j - 1], body |-> <<>>]
    <2>1. Len(f) = b + 1
        BY <1>1, FramesShape
    <2>2. f = [j \in 1..b + 1 |-> [loop |-> IF j = 1 THEN Once ELSE calls[j - 1],
                                  body |-> IF j = b + 1 THEN <<>> ELSE <<>>]]
        BY <1>1 DEF Frames
    <2>3. \A j \in 1..b + 1 : f[j] = [loop |-> IF j = 1 THEN Once ELSE calls[j - 1],
                                      body |-> IF j = b + 1 THEN <<>> ELSE <<>>]
        BY <2>2
    <2>4. \A j \in 1..b + 1 : (IF j = b + 1 THEN <<>> ELSE <<>>) = <<>>
        OBVIOUS
    <2> QED
        BY <2>1, <2>3, <2>4
<1>4. PICK V : V = T \cup {x}
    OBVIOUS
<1>5. /\ r \in Seq(V) /\ Len(r) = (b + 1) + 1 /\ r[(b + 1) + 1] = x
      /\ \A j \in 1..b + 1 : r[j] = f[j]
    BY <1>1, <1>2, <1>3, <1>4, Lengths
<1>6. r = [j \in 1..(b + 1) + 1 |-> r[j]]
    BY <1>5
<1>7. ASSUME NEW j \in 1..(b + 1) + 1
      PROVE  r[j] = [loop |-> IF j = 1 THEN Once ELSE calls[j - 1],
                     body |-> IF j = (b + 1) + 1 THEN <<>> ELSE <<>>]
    <2>1. CASE j \in 1..b + 1
        BY <1>3, <1>5, <2>1
    <2>2. CASE j = (b + 1) + 1
        <3>1. j # 1 /\ j - 1 = b + 1
            BY <2>2
        <3> QED
            BY <1>1, <1>5, <2>2, <3>1
    <2> QED
        BY <2>1, <2>2
<1>8. r = Frames(calls, b + 1, <<>>)
    BY <1>6, <1>7 DEF Frames
<1> QED
    BY <1>1, <1>8 DEF Open

LEMMA FramesEmit ==
    ASSUME NEW calls, NEW b \in Nat, NEW u, NEW d
    PROVE  Emit(Frames(calls, b, u), d) = Frames(calls, b, u \o d)
<1>1. PICK f, n, v, x : /\ f = Frames(calls, b, u) /\ n = b + 1 /\ v = u \o d
                        /\ x = [f[n] EXCEPT !.body = v]
    OBVIOUS
<1>2. /\ n \in Nat /\ n \in 1..n /\ Len(f) = n /\ f = [j \in 1..n |-> f[j]]
      /\ \A j \in 1..n : f[j] = [loop |-> IF j = 1 THEN Once ELSE calls[j - 1],
                                 body |-> IF j = n THEN u ELSE <<>>]
    <2>1. b + 1 \in Nat /\ b + 1 \in 1..b + 1
        OBVIOUS
    <2>2. f = [j \in 1..n |-> [loop |-> IF j = 1 THEN Once ELSE calls[j - 1],
                               body |-> IF j = n THEN u ELSE <<>>]]
        BY <1>1 DEF Frames
    <2>3. Len(f) = b + 1
        BY <1>1, FramesShape
    <2> QED
        BY <1>1, <2>1, <2>2, <2>3
<1>3. Emit(f, d) = [f EXCEPT ![n] = x]
    <2>1. f[n].body = u
        BY <1>2
    <2>2. Emit(f, d) = [f EXCEPT ![n] = [f[n] EXCEPT !.body = f[n].body \o d]]
        BY <1>2 DEF Emit
    <2> QED
        BY <1>1, <2>1, <2>2
<1>4. x = [loop |-> IF n = 1 THEN Once ELSE calls[n - 1], body |-> v]
    <2>1. PICK l : l = IF n = 1 THEN Once ELSE calls[n - 1]
        OBVIOUS
    <2>2. f[n] = [loop |-> l, body |-> u]
        BY <1>2, <2>1
    <2>3. [[loop |-> l, body |-> u] EXCEPT !.body = v] = [loop |-> l, body |-> v]
        OBVIOUS
    <2>4. x = [loop |-> l, body |-> v]
        BY <1>1, <2>2, <2>3, Zenon
    <2> QED
        BY <2>1, <2>4, Zenon
<1>5. PICK r : r = [f EXCEPT ![n] = x]
    OBVIOUS
<1>6. r = [j \in 1..n |-> r[j]] /\ \A j \in 1..n : r[j] = IF j = n THEN x ELSE f[j]
    BY <1>2, <1>5
<1>7. ASSUME NEW j \in 1..n
      PROVE  r[j] = [loop |-> IF j = 1 THEN Once ELSE calls[j - 1], body |-> IF j = n THEN v ELSE <<>>]
    BY <1>2, <1>4, <1>6
<1>8. r = [j \in 1..n |-> [loop |-> IF j = 1 THEN Once ELSE calls[j - 1], body |-> IF j = n THEN v ELSE <<>>]]
    BY <1>6, <1>7
<1> QED
    BY <1>1, <1>3, <1>5, <1>8 DEF Frames

\* An end repeats what the innermost loop has around it in the next one.
LEMMA FramesClose ==
    ASSUME NEW calls, NEW b \in Nat, NEW u, NEW T, Repeat(u, calls[b + 1]) \in Seq(T)
    PROVE  Close(Frames(calls, b + 1, u)) = Frames(calls, b, Repeat(u, calls[b + 1]))
<1>1. PICK f, r, n, d : /\ f = Frames(calls, b + 1, u) /\ n = b + 1 /\ d = Repeat(u, calls[b + 1])
                        /\ r = SubSeq(f, 1, n)
    OBVIOUS
<1>2. PICK V : f \in Seq(V)
    BY <1>1, FramesShape
<1>3. /\ n \in Nat /\ Len(f) = n + 1
      /\ \A j \in 1..n + 1 : f[j] = [loop |-> IF j = 1 THEN Once ELSE calls[j - 1],
                                     body |-> IF j = n + 1 THEN u ELSE <<>>]
    BY <1>1, FramesShape
<1>4. f[n + 1].loop = calls[b + 1] /\ f[n + 1].body = u
    <2>1. n + 1 \in 1..n + 1 /\ n + 1 # 1 /\ (n + 1) - 1 = b + 1
        BY <1>1, <1>3
    <2>2. f[n + 1] = [loop |-> calls[b + 1], body |-> u]
        BY <1>3, <2>1
    <2> QED
        BY <2>2
<1>5. r = Frames(calls, b, <<>>)
    <2>1. \A i \in 1..n : f[i] \in V
        BY <1>2, <1>3
    <2>2. r \in Seq(V) /\ Len(r) = n /\ \A i \in 1..n : r[i] = f[i]
        <3>1. /\ r \in Seq(V) /\ Len(r) = IF 1 <= n THEN n - 1 + 1 ELSE 0
              /\ \A i \in 1..n - 1 + 1 : r[i] = f[1 + i - 1]
            BY <1>1, <1>2, <1>3, <2>1, SubSeqProperties
        <3>2. 1 <= n /\ n - 1 + 1 = n /\ \A i \in 1..n : 1 + i - 1 = i
            BY <1>1, <1>3
        <3> QED
            BY <3>1, <3>2
    <2>3. r = [j \in 1..n |-> r[j]]
        BY <2>2
    <2>4. ASSUME NEW j \in 1..n
          PROVE  r[j] = [loop |-> IF j = 1 THEN Once ELSE calls[j - 1], body |-> IF j = n THEN <<>> ELSE <<>>]
        <3>1. j \in 1..n + 1 /\ j # n + 1
            BY <1>3
        <3> QED
            BY <1>3, <2>2, <3>1
    <2> QED
        BY <1>1, <2>3, <2>4 DEF Frames
<1>6. Close(f) = Emit(r, d)
    <2>1. Len(f) - 1 = n /\ Last(f) = f[n + 1]
        BY <1>3 DEF Last
    <2> QED
        BY <1>1, <1>4, <2>1 DEF Close, Front
<1>7. <<>> \o d = d
    BY <1>1, ConcatEmptySeq
<1>8. Emit(Frames(calls, b, <<>>), d) = Frames(calls, b, <<>> \o d)
    BY FramesEmit
<1> QED
    BY <1>1, <1>5, <1>6, <1>7, <1>8

LEMMA ReadsNest ==
    ASSUME NEW S, NEW calls \in Seq(S), NEW depth \in Nat, Nest(calls, depth),
           NEW h, IsInterpreting(h, calls)
    PROVE  \A m \in 0..Len(calls) - depth :
              h[m] = Frames(calls, Begun(m, depth), Body(calls, depth, Pushed(m, depth, Len(calls))))
<1>1. PICK n : n = Len(calls) /\ n \in Nat
    OBVIOUS
<1> DEFINE Good(m) == h[m] = Frames(calls, Begun(m, depth), Body(calls, depth, Pushed(m, depth, n)))
           Fails == {m \in Nat : m <= n - depth /\ ~Good(m)}
<1>3. CASE Fails = {}
    <2>1. \A m \in 0..n - depth : m \in Nat /\ m <= n - depth
        BY <1>1
    <2>2. \A m \in 0..n - depth : Good(m)
        BY <1>3, <2>1
    <2> QED
        BY <1>1, <2>2
<1>4. CASE Fails # {}
    <2>1. PICK m \in Fails : \A j \in Fails : m <= j
        BY <1>4, LeastNumber
    <2>2. m # 0
        <3>1. Begun(0, depth) = 0 /\ Pushed(0, depth, n) = 0
            BY DEF Begun, Pushed
        <3>2. Body(calls, depth, 0) = <<>>
            BY DEF Body
        <3>3. Frames(calls, 0, <<>>) = Outermost
            <4>1. Frames(calls, 0, <<>>) = [j \in 1..1 |-> [loop |-> Once, body |-> <<>>]]
                <5>1. 0 + 1 = 1 /\ \A j \in 1..1 : j = 1
                    OBVIOUS
                <5> QED
                    BY <5>1 DEF Frames
            <4>2. [j \in 1..1 |-> [loop |-> Once, body |-> <<>>]] = <<[loop |-> Once, body |-> <<>>]>>
                OBVIOUS
            <4> QED
                BY <4>1, <4>2 DEF Outermost
        <3>4. h[0] = Outermost
            BY DEF IsInterpreting
        <3> QED
            BY <2>1, <3>1, <3>2, <3>3, <3>4
    <2>3. m \in 1..n /\ m <= n - depth /\ m - 1 \in Nat /\ m - 1 <= n - depth /\ ~(m <= m - 1)
        BY <1>1, <2>1, <2>2
    <2>4. Good(m - 1)
        BY <2>1, <2>3
    <2>5. h[m] = Interpret(h[m - 1], calls[m])
        BY <1>1, <2>3 DEF IsInterpreting
    <2>6. ~Good(m)
        BY <2>1
    <2>7. PICK b, p, x, c : b = Begun(m - 1, depth) /\ p = Pushed(m - 1, depth, n) /\ x = h[m - 1] /\ c = calls[m]
        OBVIOUS
    <2>8. x = Frames(calls, b, Body(calls, depth, p)) /\ h[m] = Interpret(x, c)
        BY <2>4, <2>5, <2>7
    <2>9. CASE m <= depth /\ c.op = "begin" /\ b + 1 = m /\ Begun(m, depth) = m /\ p = 0 /\ Pushed(m, depth, n) = 0
        <3>1. b \in Nat
            BY <2>3, <2>7, <2>9 DEF Begun
        <3>2. Body(calls, depth, 0) = <<>>
            BY DEF Body
        <3>3. h[m] = Open(x, c)
            BY <2>8, <2>9 DEF Interpret
        <3>4. h[m] = Frames(calls, b + 1, <<>>)
            BY <2>7, <2>8, <2>9, <3>1, <3>2, <3>3, FramesOpen
        <3> QED
            BY <2>6, <2>9, <3>2, <3>4
    <2>10. CASE /\ c.op = "push" /\ b = depth /\ Begun(m, depth) = depth /\ p \in Nat
                /\ Pushed(m, depth, n) = p + 1 /\ depth + (p + 1) = m
        <3>1. h[m] = Emit(x, <<Uop(c)>>)
            BY <2>8, <2>10 DEF Interpret
        <3>2. h[m] = Frames(calls, depth, Body(calls, depth, p) \o <<Uop(c)>>)
            BY <2>8, <2>10, <3>1, FramesEmit
        <3>3. Body(calls, depth, p + 1) = Body(calls, depth, p) \o <<Uop(c)>>
            <4>1. Body(calls, depth, p + 1) = Body(calls, depth, p) \o <<Uop(calls[depth + (p + 1)])>>
                BY <2>10, BodyGrows
            <4>2. calls[depth + (p + 1)] = c
                BY <2>7, <2>10, Zenon
            <4> QED
                BY <4>1, <4>2
        <3> QED
            BY <2>6, <2>10, <3>2, <3>3
    <2>11. ~(n - depth < m)
        BY <1>1, <2>3
    <2> QED
        BY <1>1, <2>3, <2>7, <2>9, <2>10, <2>11, NestCall
<1> QED
    BY <1>3, <1>4

LEMMA BodyTyped ==
    ASSUME NEW S, NEW calls \in Seq(S), NEW depth \in Nat, Nest(calls, depth)
    PROVE  /\ Body(calls, depth, Len(calls) - 2 * depth) \in Seq(Triple)
           /\ \A j \in 1..depth : IsLoop(calls[j])
<1>1. PICK n, q : n = Len(calls) /\ n \in Nat /\ q = n - 2 * depth
    OBVIOUS
<1>2. q \in Nat /\ q = n - depth - depth
    BY <1>1 DEF Nest
<1>3. ASSUME NEW i \in 1..q
      PROVE  Uop(calls[depth + i]) \in Triple
    <2>1. depth + i \in 1..n /\ ~(depth + i <= depth) /\ ~(n - depth < depth + i)
        BY <1>1, <1>2
    <2> QED
        BY <1>1, <2>1, NestCall
<1>4. Body(calls, depth, q) \in [1..q -> Triple]
    BY <1>3 DEF Body
<1>5. Body(calls, depth, q) \in Seq(Triple)
    BY <1>2, <1>4, SeqDef
<1>6. \A j \in 1..depth : IsLoop(calls[j])
    BY DEF Nest, IsLoop
<1> QED
    BY <1>1, <1>5, <1>6

\* What a nest of at most two loops means.
NestMeaning(calls, depth, u) ==
    CASE depth = 0 -> u
      [] depth = 1 -> Repeat(u, calls[1])
      [] depth = 2 -> Repeat(Repeat(u, calls[2]), calls[1])

LEMMA MeaningOfNest ==
    ASSUME NEW S, NEW calls \in Seq(S), NEW depth \in Nat, Nest(calls, depth), depth <= 2
    PROVE  Meaning(calls) = NestMeaning(calls, depth, Body(calls, depth, Len(calls) - 2 * depth))
<1>1. PICK n, u : n = Len(calls) /\ n \in Nat /\ u = Body(calls, depth, n - 2 * depth)
    OBVIOUS
<1>2. PICK h : IsInterpreting(h, calls)
    BY MeaningSteps
<1>3. 2 * depth <= n /\ 2 * depth = depth + depth
    BY <1>1 DEF Nest
<1>4. u \in Seq(Triple) /\ \A j \in 1..depth : IsLoop(calls[j])
    BY <1>1, BodyTyped
<1>5. h[n - depth] = Frames(calls, depth, u)
    <2>1. n - depth \in 0..n - depth
        BY <1>1, <1>3
    <2>2. Begun(n - depth, depth) = depth
        BY <1>1, <1>3 DEF Begun
    <2>3. Pushed(n - depth, depth, n) = n - depth - depth
        BY <1>1, <1>3 DEF Pushed
    <2>4. n - depth - depth = n - 2 * depth
        BY <1>1
    <2> QED
        BY <1>1, <1>2, <2>1, <2>2, <2>3, <2>4, ReadsNest
<1>6. Meaning(calls) = h[n][1].body
    BY <1>1, <1>2 DEF IsInterpreting
<1>7. ASSUME NEW v
      PROVE  Frames(calls, 0, v)[1].body = v
    <2>1. PICK f : f = Frames(calls, 0, v)
        OBVIOUS
    <2>2. f = [j \in 1..0 + 1 |-> [loop |-> IF j = 1 THEN Once ELSE calls[j - 1],
                                   body |-> IF j = 0 + 1 THEN v ELSE <<>>]]
        BY <2>1 DEF Frames
    <2>3. 1 \in 1..0 + 1 /\ 1 = 0 + 1
        OBVIOUS
    <2>4. f[1] = [loop |-> Once, body |-> v]
        BY <2>2, <2>3
    <2> QED
        BY <2>1, <2>4
<1>8. ASSUME NEW m \in 1..n, n - depth < m
      PROVE  h[m] = Close(h[m - 1])
    <2>1. calls[m].op = "end"
        <3>1. m \in n - depth + 1..n
            BY <1>1, <1>8
        <3> QED
            BY <1>1, <3>1 DEF Nest
    <2>2. h[m] = Interpret(h[m - 1], calls[m])
        BY <1>1, <1>2 DEF IsInterpreting
    <2> QED
        BY <2>1, <2>2 DEF Interpret
<1>9. CASE depth = 0
    <2>1. h[n] = Frames(calls, 0, u)
        BY <1>1, <1>5, <1>9
    <2>2. Meaning(calls) = u
        BY <1>6, <1>7, <2>1
    <2> QED
        BY <1>1, <1>9, <2>2 DEF NestMeaning
<1>10. CASE depth = 1
    <2>1. n \in 1..n /\ n - 1 < n
        BY <1>1, <1>3, <1>10
    <2>2. h[n] = Close(h[n - 1])
        BY <1>8, <1>10, <2>1
    <2>3. h[n - 1] = Frames(calls, 0 + 1, u)
        BY <1>5, <1>10
    <2>4. Repeat(u, calls[0 + 1]) \in Seq(Triple) /\ calls[0 + 1] = calls[1]
        <3>1. IsLoop(calls[0 + 1])
            BY <1>4, <1>10
        <3> QED
            BY <1>4, <3>1, RepeatTyped
    <2>5. h[n] = Frames(calls, 0, Repeat(u, calls[0 + 1]))
        BY <2>2, <2>3, <2>4, FramesClose
    <2>6. Meaning(calls) = Repeat(u, calls[1])
        BY <1>6, <1>7, <2>4, <2>5
    <2> QED
        BY <1>1, <1>10, <2>6 DEF NestMeaning
<1>11. CASE depth = 2
    <2>1. n - 1 \in 1..n /\ n \in 1..n /\ n - 2 < n - 1 /\ n - 2 < n /\ (n - 1) - 1 = n - 2
        BY <1>1, <1>3, <1>11
    <2>2. h[n - 1] = Close(h[n - 2]) /\ h[n] = Close(h[n - 1])
        BY <1>8, <1>11, <2>1
    <2>3. h[n - 2] = Frames(calls, 1 + 1, u)
        BY <1>5, <1>11
    <2>4. PICK v : v = Repeat(u, calls[2])
        OBVIOUS
    <2>5. IsLoop(calls[1]) /\ IsLoop(calls[2])
        BY <1>4, <1>11
    <2>6. v \in Seq(Triple) /\ Repeat(v, calls[1]) \in Seq(Triple)
        BY <1>4, <2>4, <2>5, RepeatTyped
    <2>7. h[n - 1] = Frames(calls, 0 + 1, v)
        <3>1. 1 + 1 = 2 /\ 0 + 1 = 1 /\ Repeat(u, calls[1 + 1]) = v
            BY <2>4
        <3>2. Repeat(u, calls[1 + 1]) \in Seq(Triple)
            BY <2>6, <3>1
        <3>3. Close(Frames(calls, 1 + 1, u)) = Frames(calls, 1, Repeat(u, calls[1 + 1]))
            BY <3>2, FramesClose
        <3> QED
            BY <2>2, <2>3, <3>1, <3>3
    <2>8. h[n] = Frames(calls, 0, Repeat(v, calls[1]))
        <3>1. Repeat(v, calls[0 + 1]) = Repeat(v, calls[1])
            OBVIOUS
        <3>2. Repeat(v, calls[0 + 1]) \in Seq(Triple)
            BY <2>6, <3>1
        <3>3. Close(Frames(calls, 0 + 1, v)) = Frames(calls, 0, Repeat(v, calls[0 + 1]))
            BY <3>2, FramesClose
        <3> QED
            BY <2>2, <2>7, <3>1, <3>3
    <2>9. Meaning(calls) = Repeat(v, calls[1])
        BY <1>6, <1>7, <2>8
    <2> QED
        BY <1>1, <1>11, <2>4, <2>9 DEF NestMeaning
<1> QED
    BY <1>9, <1>10, <1>11

\* The loops of an operation, as PushGEMMOp and PushALUUop take them.
LoopsFor(k) == IF k.mode = "alu" THEN AluLoops(k) ELSE GemmLoops(k)

LEMMA SweepOfNest ==
    ASSUME NEW S, NEW calls \in Seq(S), NEW depth \in Nat, Nest(calls, depth), depth <= 2
    PROVE  Sweep(Record(calls).seq, LoopsFor(Record(calls)))
             = NestMeaning(calls, depth, Body(calls, depth, Len(calls) - 2 * depth))
<1>1. PICK k, u, l : /\ k = Record(calls) /\ u = Body(calls, depth, Len(calls) - 2 * depth)
                     /\ l = [j \in 1..depth |-> LoopOf(calls[j])]
    OBVIOUS
<1>2. /\ Recs(k, calls, depth, depth, Len(calls) - 2 * depth)
      /\ k = [seq |-> u, loop |-> l, mode |-> k.mode, reset |-> k.reset, alu |-> k.alu, ok |-> k.ok]
      /\ k.mode = "alu" => NoThird(calls, depth)
    BY <1>1, RecordsNest DEF Recs
<1>3. k.seq = u /\ k.loop = l
    BY <1>2
<1>4. Len(l) = depth /\ \A j \in 1..depth : l[j] = LoopOf(calls[j])
    BY <1>1, LoopsGrow
<1>5. u \in Seq(Triple) /\ \A j \in 1..depth : IsLoop(calls[j])
    BY <1>1, BodyTyped
<1>6. \A j \in {1, 2} : LoopAt(k, j) = IF j <= depth THEN LoopOf(calls[j]) ELSE Once
    BY <1>3, <1>4 DEF LoopAt
<1>7. ASSUME NEW v, NEW j \in 1..depth
      PROVE  Repeat(v, LoopOf(calls[j])) = Repeat(v, calls[j])
    BY RepeatAlike DEF LoopOf
\* Without a third factor AluLoops leaves the loops as they are.
<1>8. ASSUME k.mode = "alu"
      PROVE  AluLoops(k) = IF depth = 1 THEN <<Once, LoopOf(calls[1])>> ELSE <<LoopAt(k, 1), LoopAt(k, 2)>>
    <2>1. PICK nest : nest = IF depth = 1 THEN <<Once, LoopOf(calls[1])>> ELSE <<LoopAt(k, 1), LoopAt(k, 2)>>
        OBVIOUS
    <2>2. depth = 1 => l[1] = LoopOf(calls[1])
        BY <1>4
    <2>3. AluLoops(k) = [i \in 1..2 |-> [nest[i] EXCEPT !.wgt = 0]]
        BY <1>3, <1>4, <2>1, <2>2 DEF AluLoops, GemmLoops
    <2>4. \A j \in 1..depth : LoopOf(calls[j]) = [LoopOf(calls[j]) EXCEPT !.wgt = 0]
        BY <1>2, <1>8 DEF NoThird, LoopOf
    <2>5. Once = [Once EXCEPT !.wgt = 0]
        BY DEF Once
    <2>6. \A i \in 1..2 : nest[i] = Once \/ \E j \in 1..depth : nest[i] = LoopOf(calls[j])
        BY <1>6, <2>1
    <2>7. \A i \in 1..2 : [nest[i] EXCEPT !.wgt = 0] = nest[i]
        BY <2>4, <2>5, <2>6, Zenon
    <2>8. [i \in 1..2 |-> [nest[i] EXCEPT !.wgt = 0]] = [i \in 1..2 |-> nest[i]]
        BY <2>7
    <2>9. [i \in 1..2 |-> nest[i]] = nest
        BY <2>1
    <2> QED
        BY <2>1, <2>3, <2>8, <2>9
<1>9. Repeat(u, Once) = u
    BY <1>5, RepeatOnce
<1>10. ASSUME NEW a, NEW b
       PROVE  Sweep(u, <<a, b>>) = Repeat(Repeat(u, b), a)
    BY DEF Sweep
<1>11. PICK loops : loops = LoopsFor(k)
    OBVIOUS
<1>12. CASE depth = 0
    <2>1. LoopAt(k, 1) = Once /\ LoopAt(k, 2) = Once
        BY <1>6, <1>12
    <2>2. loops = <<Once, Once>>
        BY <1>8, <1>11, <1>12, <2>1 DEF LoopsFor, GemmLoops
    <2> QED
        BY <1>1, <1>3, <1>9, <1>10, <1>11, <1>12, <2>2 DEF NestMeaning
<1>13. CASE depth = 1
    <2>1. LoopAt(k, 1) = LoopOf(calls[1]) /\ LoopAt(k, 2) = Once /\ IsLoop(calls[1])
        BY <1>5, <1>6, <1>13
    <2>2. loops = <<Once, LoopOf(calls[1])>> \/ loops = <<LoopOf(calls[1]), Once>>
        BY <1>8, <1>11, <1>13, <2>1 DEF LoopsFor, GemmLoops
    <2>3. PICK v : v = Repeat(u, calls[1])
        OBVIOUS
    <2>4. Repeat(u, LoopOf(calls[1])) = v
        BY <1>7, <1>13, <2>3
    <2>5. v \in Seq(Triple)
        BY <1>5, <2>1, <2>3, RepeatTyped
    <2>6. Repeat(v, Once) = v
        BY <2>5, RepeatOnce
    <2>7. Sweep(u, loops) = v
        BY <1>9, <1>10, <2>2, <2>4, <2>6
    <2> QED
        BY <1>1, <1>3, <1>11, <1>13, <2>3, <2>7 DEF NestMeaning
<1>14. CASE depth = 2
    <2>1. LoopAt(k, 1) = LoopOf(calls[1]) /\ LoopAt(k, 2) = LoopOf(calls[2])
        BY <1>6, <1>14
    <2>2. loops = <<LoopOf(calls[1]), LoopOf(calls[2])>>
        BY <1>8, <1>11, <1>14, <2>1 DEF LoopsFor, GemmLoops
    <2>3. Sweep(u, loops) = Repeat(Repeat(u, calls[2]), calls[1])
        BY <1>7, <1>10, <1>14, <2>2
    <2> QED
        BY <1>1, <1>3, <1>11, <1>14, <2>3 DEF NestMeaning
<1> QED
    BY <1>12, <1>13, <1>14

\* The operator under the property: a kernel recorded without a failure and
\* swept over its loops is the nest that was recorded.
LEMMA SweepIsMeaning ==
    ASSUME NEW S, NEW calls \in Seq(S), Nested(calls), Record(calls).ok
    PROVE  Sweep(Record(calls).seq, LoopsFor(Record(calls))) = Meaning(calls)
<1>1. PICK depth \in 0..Len(calls) : Nest(calls, depth)
    BY DEF Nested
<1>2. depth \in Nat
    BY <1>1
<1>3. depth <= 2
    BY <1>1, <1>2, RecordsNest DEF Recs
<1> QED
    BY <1>1, <1>2, <1>3, SweepOfNest, MeaningOfNest

\* What the map and the batch hold: the kernel of a key is what the callback of
\* the one place and signature with that key records; an operation carries the
\* loops of its kernel.
KernelsRecorded ==
    /\ \A a \in Ask : KernelOf(a) \in DOMAIN kmap => kmap[KernelOf(a)] = Record(Calls[a])
    /\ \A k \in Kernel : Cached(k) => kmap[k].ok
OpOf(g) ==
    /\ g.asked \in Ask /\ g.kernel = KernelOf(g.asked) /\ g.kernel \in DOMAIN kmap
    /\ kmap[g.kernel].ok /\ g.loops = LoopsFor(kmap[g.kernel])
OpsAsked == \A i \in 1..Len(insns) : insns[i].op = "GEMM" => OpOf(insns[i])

LEMMA KeysDiffer ==
    ASSUME SignaturesCount, NEW a \in Ask, NEW b \in Ask, KernelOf(a) = KernelOf(b)
    PROVE  a = b
<1>1. a.site = b.site /\ Key(a.sig) = Key(b.sig)
    BY DEF KernelOf
<1>2. PICK s, t : s = a.sig /\ t = b.sig
    OBVIOUS
<1>3. s \in Seq(Nat) /\ t \in Seq(Nat) /\ Len(s) <= 1 /\ Len(t) <= 1 /\ Len(s) \in Nat /\ Len(t) \in Nat
    BY <1>2 DEF SignaturesCount
<1>4. \A q \in {s, t} : \/ q = <<>> /\ Key(q) = 0
                        \/ q = <<q[1]>> /\ q # <<>> /\ q[1] \in Nat /\ Key(q) = q[1] + 1
    <2> TAKE q \in {s, t}
    <2>1. q \in Seq(Nat) /\ Len(q) \in Nat /\ Len(q) <= 1
        BY <1>3
    <2>2. CASE q = <<>>
        BY <2>2 DEF Key
    <2>3. CASE q # <<>>
        <3>1. Len(q) = 1
            <4>1. PICK v : v = Len(q)
                OBVIOUS
            <4>2. v \in Nat \ {0} /\ v <= 1
                BY <2>1, <2>3, <4>1, EmptySeq, Zenon
            <4>3. v = 1
                BY <4>2
            <4> QED
                BY <4>1, <4>3
        <3>2. q[1] \in Nat /\ q = <<q[1]>>
            BY <2>1, <3>1
        <3> QED
            BY <2>3, <3>2 DEF Key
    <2> QED
        BY <2>2, <2>3
<1>5. Key(s) = Key(t)
    BY <1>1, <1>2
<1>6. s = t
    <2>1. CASE s = <<>> /\ Key(s) = 0
        <3>1. ~(t[1] \in Nat /\ Key(t) = t[1] + 1)
            BY <1>5, <2>1
        <3> QED
            BY <1>4, <2>1, <3>1
    <2>2. CASE s = <<s[1]>> /\ s[1] \in Nat /\ Key(s) = s[1] + 1
        <3>1. Key(t) # 0
            BY <1>5, <2>2
        <3>2. t = <<t[1]>> /\ t[1] \in Nat /\ Key(t) = t[1] + 1
            BY <1>4, <3>1
        <3>3. s[1] = t[1]
            <4>1. PICK m, n : m = s[1] /\ n = t[1]
                OBVIOUS
            <4>2. m \in Nat /\ n \in Nat /\ m + 1 = n + 1
                BY <1>5, <2>2, <3>2, <4>1, Zenon
            <4>3. m = n
                BY <4>2
            <4> QED
                BY <4>1, <4>3
        <3> QED
            BY <2>2, <3>2, <3>3, Zenon
    <2> QED
        BY <1>4, <2>1, <2>2
<1> QED
    BY <1>1, <1>2, <1>6, Zenon DEF SignaturesCount

\* A kernel that joins the map is the one its place and signature record.
LEMMA RememberKeeps ==
    ASSUME SignaturesCount, KernelsRecorded, NEW a \in Ask, Remember(a)
    PROVE  /\ \A b \in Ask : KernelOf(b) \in DOMAIN kmap' => kmap'[KernelOf(b)] = Record(Calls[b])
           /\ \A k \in DOMAIN kmap : k \in DOMAIN kmap' /\ kmap'[k] = kmap[k]
           /\ KernelOf(a) \in DOMAIN kmap' /\ kmap'[KernelOf(a)] = Lookup(a)
<1>1. /\ DOMAIN kmap' = DOMAIN kmap \cup {KernelOf(a)} /\ kmap'[KernelOf(a)] = Lookup(a)
      /\ \A k \in DOMAIN kmap : kmap'[k] = kmap[k]
    BY Remembers
<1>2. ASSUME NEW b \in Ask, KernelOf(b) \in DOMAIN kmap'
      PROVE  kmap'[KernelOf(b)] = Record(Calls[b])
    <2>1. CASE KernelOf(b) \in DOMAIN kmap
        BY <1>1, <2>1 DEF KernelsRecorded
    <2>2. CASE KernelOf(b) \notin DOMAIN kmap
        <3>1. KernelOf(b) = KernelOf(a)
            BY <1>1, <1>2, <2>2
        <3>2. b = a
            BY <3>1, KeysDiffer
        <3> QED
            BY <1>1, <2>2, <3>2 DEF Lookup
    <2> QED
        BY <2>1, <2>2
<1> QED
    BY <1>1, <1>2

LEMMA AskedPushCached ==
    ASSUME Inv, Kernels, KernelsRecorded, OpsAsked, NEW a \in Ask, PushCached(a)
    PROVE  KernelsRecorded' /\ OpsAsked'
<1>1. PICK k, g : k = KernelOf(a) /\ g = OpInsn(a, kmap[k], where[k].begin, where[k].end)
    OBVIOUS
<1>2. Cached(k) /\ insns' = Append(insns, g) /\ UNCHANGED <<kmap, where>> /\ k \in Kernel
    BY <1>1 DEF PushCached, Kernel
<1>3. KernelsRecorded'
    BY <1>2 DEF KernelsRecorded, Cached
<1>4. OpOf(g)'
    <2>1. g.asked = a /\ g.kernel = k /\ g.loops = LoopsFor(kmap[k])
        BY <1>1 DEF OpInsn, LoopsFor
    <2>2. k \in DOMAIN kmap /\ kmap[k].ok
        BY <1>2 DEF Kernels, KernelsRecorded
    <2> QED
        BY <1>1, <1>2, <2>1, <2>2 DEF OpOf
<1>5. PICK S : insns \in Seq(S)
    BY DEF Inv, Typed
<1>6. /\ Len(insns') = Len(insns) + 1 /\ Len(insns) \in Nat /\ insns'[Len(insns) + 1] = g
      /\ \A i \in 1..Len(insns) : insns'[i] = insns[i]
    BY <1>2, <1>5, Lengths
<1>7. ASSUME NEW i \in 1..Len(insns'), insns'[i].op = "GEMM"
      PROVE  OpOf(insns[i])'
    <2>1. CASE i \in 1..Len(insns)
        <3>1. OpOf(insns[i])
            BY <1>6, <1>7, <2>1 DEF OpsAsked
        <3> QED
            BY <1>2, <1>6, <2>1, <3>1 DEF OpOf
    <2>2. CASE i = Len(insns) + 1
        BY <1>4, <1>6, <2>2 DEF OpOf
    <2> QED
        BY <1>6, <2>1, <2>2
<1> QED
    BY <1>3, <1>7 DEF OpsAsked

LEMMA AskedPushUncached ==
    ASSUME SignaturesCount, Inv, Kernels, KernelsRecorded, OpsAsked, NEW a \in Ask, PushUncached(a)
    PROVE  KernelsRecorded' /\ OpsAsked'
<1>1. PICK k, n, x : k = KernelOf(a) /\ x = Lookup(a) /\ n = Len(x.seq)
    OBVIOUS
<1>2. PICK l, g : l = LoadInsn(k, n) /\ g = OpInsn(a, x, Begin(n), End(n))
    OBVIOUS
<1>3. /\ x.ok /\ Remember(a) /\ insns' = insns \o <<l, g>> /\ k \in Kernel
      /\ where' = [j \in Kernel |-> IF j = k THEN [begin |-> Begin(n), end |-> End(n)]
                                    ELSE IF j \in Evicted(n) THEN Nowhere ELSE where[j]]
    BY <1>1, <1>2 DEF PushUncached, Pushable, Kernel
<1>4. /\ \A b \in Ask : KernelOf(b) \in DOMAIN kmap' => kmap'[KernelOf(b)] = Record(Calls[b])
      /\ \A j \in DOMAIN kmap : j \in DOMAIN kmap' /\ kmap'[j] = kmap[j]
      /\ k \in DOMAIN kmap' /\ kmap'[k] = x
    BY <1>1, <1>3, RememberKeeps
<1>5. KernelsRecorded'
    <2>1. ASSUME NEW j \in Kernel, Cached(j)'
          PROVE  kmap'[j].ok
        <3>1. CASE j = k
            BY <1>3, <1>4, <3>1
        <3>2. CASE j # k
            <4>1. where'[j] = where[j]
                BY <1>3, <2>1, <3>2 DEF Cached, Nowhere
            <4>2. Cached(j)
                BY <2>1, <4>1 DEF Cached
            <4> QED
                BY <1>4, <4>2 DEF Kernels, KernelsRecorded
        <3> QED
            BY <3>1, <3>2
    <2> QED
        BY <1>4, <2>1 DEF KernelsRecorded
<1>6. OpOf(g)'
    <2>1. g.asked = a /\ g.kernel = k /\ g.loops = LoopsFor(x)
        BY <1>1, <1>2 DEF OpInsn, LoopsFor
    <2> QED
        BY <1>1, <1>3, <1>4, <2>1 DEF OpOf
<1>7. PICK S : insns \in Seq(S)
    BY DEF Inv, Typed
<1>8. PICK s : s = Append(insns, l)
    OBVIOUS
<1>9. s \in Seq(S \cup {l}) /\ Len(s) = Len(insns) + 1 /\ Len(insns) \in Nat /\ s[Len(insns) + 1] = l
      /\ \A i \in 1..Len(insns) : s[i] = insns[i]
    BY <1>7, <1>8, Lengths
<1>10. insns' = Append(s, g)
    BY <1>3, <1>7, <1>8, AppendTwo
<1>11. Len(insns') = Len(s) + 1 /\ insns'[Len(s) + 1] = g /\ \A i \in 1..Len(s) : insns'[i] = s[i]
    BY <1>9, <1>10, Lengths
<1>12. l.op # "GEMM"
    BY <1>2 DEF LoadInsn
<1>13. ASSUME NEW i \in 1..Len(insns'), insns'[i].op = "GEMM"
       PROVE  OpOf(insns[i])'
    <2>1. CASE i \in 1..Len(insns)
        <3>1. insns'[i] = insns[i]
            BY <1>9, <1>11, <2>1
        <3>2. OpOf(insns[i])
            BY <1>13, <2>1, <3>1 DEF OpsAsked
        <3> QED
            BY <1>4, <3>1, <3>2 DEF OpOf
    <2>2. CASE i = Len(insns) + 1
        <3>1. insns'[i] = l
            BY <1>9, <1>11, <2>2
        <3> QED
            BY <1>12, <1>13, <3>1
    <2>3. CASE i = Len(s) + 1
        BY <1>6, <1>11, <2>3 DEF OpOf
    <2> QED
        BY <1>9, <1>11, <2>1, <2>2, <2>3
<1> QED
    BY <1>5, <1>13 DEF OpsAsked

\* An operation stays what it was when no kernel of the map changes.
LEMMA AskedKept ==
    ASSUME Inv, OpsAsked, \A k \in DOMAIN kmap : k \in DOMAIN kmap' /\ kmap'[k] = kmap[k],
           \/ insns' = insns
           \/ insns # <<>> /\ insns' = Tail(insns)
    PROVE  OpsAsked'
<1>1. PICK S : insns \in Seq(S)
    BY DEF Inv, Typed
<1>2. ASSUME NEW i \in 1..Len(insns')
      PROVE  \E j \in 1..Len(insns) : insns'[i] = insns[j]
    <2>1. CASE insns' = insns
        BY <1>2, <2>1
    <2>2. CASE insns # <<>> /\ insns' = Tail(insns)
        <3>1. /\ Len(insns') = Len(insns) - 1 /\ Len(insns) \in Nat
              /\ \A j \in 1..Len(insns) - 1 : insns'[j] = insns[j + 1]
            BY <1>1, <2>2, TailOf
        <3>2. i + 1 \in 1..Len(insns) /\ insns'[i] = insns[i + 1]
            BY <1>2, <3>1
        <3> QED
            BY <3>2
    <2> QED
        BY <2>1, <2>2
<1>3. ASSUME NEW i \in 1..Len(insns'), insns'[i].op = "GEMM"
      PROVE  OpOf(insns[i])'
    <2>1. PICK j \in 1..Len(insns) : insns'[i] = insns[j]
        BY <1>2
    <2>2. OpOf(insns[j])
        BY <1>3, <2>1 DEF OpsAsked
    <2> QED
        BY <2>1, <2>2 DEF OpOf
<1> QED
    BY <1>3 DEF OpsAsked

LEMMA StepAsked ==
    ASSUME SignaturesCount, Inv, Kernels, KernelsRecorded, OpsAsked, [Next]_vars
    PROVE  KernelsRecorded' /\ OpsAsked'
<1>1. ASSUME NEW a \in Ask, PushCached(a)
      PROVE  KernelsRecorded' /\ OpsAsked'
    BY <1>1, AskedPushCached
<1>2. ASSUME NEW a \in Ask, PushUncached(a)
      PROVE  KernelsRecorded' /\ OpsAsked'
    BY <1>2, AskedPushUncached
<1>3. ASSUME NEW a \in Ask, PushFails(a)
      PROVE  KernelsRecorded' /\ OpsAsked'
    <2>1. insns' = insns /\ where' = where
        BY <1>3 DEF PushFails
    <2>2. CASE Remember(a)
        <3>1. KernelsRecorded'
            BY <2>1, <2>2, RememberKeeps DEF KernelsRecorded, Cached, Kernels
        <3> QED
            BY <2>1, <2>2, <3>1, RememberKeeps, AskedKept
    <2>3. CASE UNCHANGED kmap
        <3>1. KernelsRecorded'
            BY <2>1, <2>3 DEF KernelsRecorded, Cached
        <3> QED
            BY <2>1, <2>3, <3>1, AskedKept
    <2> QED
        BY <1>3, <2>2, <2>3 DEF PushFails
<1>4. CASE Synchronize \/ UNCHANGED vars
    <2>1. insns' = insns /\ where' = where /\ kmap' = kmap
        BY <1>4 DEF Synchronize, vars
    <2>2. KernelsRecorded'
        BY <2>1 DEF KernelsRecorded, Cached
    <2> QED
        BY <2>1, <2>2, AskedKept
<1>5. CASE DeviceLoad \/ DeviceOp
    <2>1. insns # <<>> /\ insns' = Tail(insns) /\ where' = where /\ kmap' = kmap
        BY <1>5 DEF DeviceLoad, DeviceOp
    <2>2. KernelsRecorded'
        BY <2>1 DEF KernelsRecorded, Cached
    <2> QED
        BY <2>1, <2>2, AskedKept
<1>6. CASE Reset
    <2>1. insns' = insns /\ kmap' = kmap /\ where' = Unmarked
        BY <1>6 DEF Reset
    <2>2. \A k \in Kernel : Cached(k)' => Cached(k)
        BY <2>1 DEF Unmarked, Cached, Nowhere
    <2>3. KernelsRecorded'
        BY <2>1, <2>2 DEF KernelsRecorded
    <2> QED
        BY <2>1, <2>3, AskedKept
<1> QED
    BY <1>1, <1>2, <1>3, <1>4, <1>5, <1>6 DEF Next

\* An operation sweeps what its program recorded for this place and signature,
\* when its callbacks record nests as the compiler writes them: though a kernel
\* is recorded once, kept flat under a key, evicted and loaded again, and its
\* loops and micro-ops reach the device by different ways (UopKernel::Push,
\* UopKernelMap::Get, PushGEMMOp and PushALUUop).
THEOREM ProgramsAreSwept == ProgramsNest /\ SignaturesCount => (Spec => []SweepsWhatWasRecorded)
<1> SUFFICES ASSUME ProgramsNest, SignaturesCount
             PROVE  Spec => []SweepsWhatWasRecorded
    OBVIOUS
<1> DEFINE All == Inv /\ Unevicted /\ KernelsRecorded /\ OpsAsked
<1>1. Init => All
    <2> SUFFICES ASSUME Init PROVE KernelsRecorded /\ OpsAsked
        BY InitInv, FitInit
    <2>1. DOMAIN kmap = {} /\ Len(insns) = 0 /\ \A k \in Kernel : where[k] = Nowhere
        BY DEF Init
    <2>2. \A i \in 1..Len(insns) : FALSE
        BY <2>1
    <2> QED
        BY <2>1, <2>2 DEF KernelsRecorded, OpsAsked, Cached, Nowhere
<1>2. All /\ [Next]_vars => All'
    BY StepInv, StepUnevicted, StepAsked DEF Unevicted
<1>3. All => SweepsWhatWasRecorded
    <2> SUFFICES ASSUME Inv, KernelsRecorded, OpsAsked, NEW n \in DOMAIN insns, insns[n].op = "GEMM"
                 PROVE  Sweep(kmap[insns[n].kernel].seq, insns[n].loops) = Meaning(Calls[insns[n].asked])
        BY DEF SweepsWhatWasRecorded
    <2>1. n \in 1..Len(insns)
        BY Lengths DEF Inv, Typed
    <2>2. PICK g, a, k : g = insns[n] /\ a = g.asked /\ k = kmap[g.kernel]
        OBVIOUS
    <2>3. a \in Ask /\ k = Record(Calls[a]) /\ k.ok /\ g.loops = LoopsFor(k)
        BY <2>1, <2>2 DEF OpsAsked, OpOf, KernelsRecorded
    <2>4. PICK calls : calls = Calls[a]
        OBVIOUS
    <2>5. calls \in Seq(Range(calls)) /\ Nested(calls)
        BY <2>3, <2>4, CallsAssumption DEF ProgramsNest
    <2>6. Sweep(k.seq, LoopsFor(k)) = Meaning(calls)
        BY <2>3, <2>4, <2>5, SweepIsMeaning
    <2> QED
        BY <2>2, <2>3, <2>4, <2>6
<1> QED
    BY <1>1, <1>2, <1>3, PTL DEF Spec
================================================================================
