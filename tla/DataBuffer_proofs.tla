--------------------------- MODULE DataBuffer_proofs ---------------------------
(***************************************************************************)
(* Device buffers, for any number of threads, handles, runs and pages and  *)
(* pages of any size: what alloc_stat knows can be used, nothing leaks,    *)
(* and the device reaches the bytes the host has allocated.                *)
(*                                                                         *)
(* The two locks do not cover a call, so the invariant says in whose hands *)
(* everything is at each step of it: an object belongs to the one thread   *)
(* that has its handle, held or in a register, and a live run to the one   *)
(* object, or to the one thread still to make it an object.                *)
(***************************************************************************)
EXTENDS DataBuffer, WellFoundedInduction, TLAPS, SequenceTheorems

LEMMA DivMod ==
    ASSUME NEW n \in Nat, NEW p \in Nat \ {0}
    PROVE  /\ n \div p \in Nat /\ n % p \in 0..p - 1
           /\ n = p * (n \div p) + (n % p)
OBVIOUS

LEMMA NextMultiple ==
    ASSUME NEW p \in Nat \ {0}, NEW a \in Nat, NEW b \in Nat, a < b
    PROVE  p * a + p <= p * b
OBVIOUS

LEMMA DivUnique ==
    ASSUME NEW n \in Nat, NEW p \in Nat \ {0}, NEW q \in Nat, NEW r \in 0..p - 1, n = p * q + r
    PROVE  n \div p = q /\ n % p = r
<1>1. n \div p \in Nat /\ n % p \in 0..p - 1 /\ n = p * (n \div p) + (n % p)
    BY DivMod
<1>2. ~(n \div p < q)
    BY <1>1, NextMultiple
<1>3. ~(q < n \div p)
    BY <1>1, NextMultiple
<1> QED
    BY <1>1, <1>2, <1>3

\* A set of natural numbers has a least element: the way to an induction.
LEMMA LeastNumber ==
    ASSUME NEW S \in SUBSET Nat, S # {}
    PROVE  \E m \in S : \A j \in S : m <= j
<1> DEFINE R == {p \in Nat \X Nat : p[1] < p[2]}
<1>1. IsWellFoundedOn(R, Nat)
    BY NatLessThanWellFounded DEF OpToRel
<1>2. PICK m \in S : \A j \in S : <<j, m>> \notin R
    BY <1>1, WFMin
<1>3. \A j \in S : ~(j < m)
    BY <1>2
<1> QED
    BY <1>3

--------------------------------------------------------------------------------
(* Arithmetic of pages. *)

\* The pages of an allocation have room for its bytes.
LEMMA EnoughPages ==
    ASSUME NEW bytes \in Nat
    PROVE  /\ NumPages(bytes) \in Nat
           /\ \A off \in 0..bytes - 1 : off \div PageSize < NumPages(bytes)
<1> USE VirtualMemoryAssumption
<1> DEFINE n == bytes + PageSize - 1
<1>1. n \in Nat /\ NumPages(bytes) = n \div PageSize
    BY DEF NumPages
<1> HIDE DEF n
<1>2. /\ n \div PageSize \in Nat
      /\ n < PageSize * (n \div PageSize) + PageSize
    BY <1>1, DivMod
<1>3. ASSUME NEW off \in 0..bytes - 1
      PROVE  off \div PageSize < n \div PageSize
    <2>1. off \div PageSize \in Nat /\ PageSize * (off \div PageSize) <= off
        BY DivMod
    <2>2. off + PageSize <= n
        BY DEF n
    <2>3. CASE off \div PageSize >= n \div PageSize
        <3>1. PageSize * (n \div PageSize) <= PageSize * (off \div PageSize)
            BY <2>1, <2>3, <1>2, NextMultiple
        <3> QED
            BY <3>1, <2>1, <2>2, <1>1, <1>2
    <2> QED
        BY <2>1, <2>3, <1>2
<1> QED
    BY <1>1, <1>2, <1>3

--------------------------------------------------------------------------------
(* The free map.                                                           *)

\* The smallest of the runs that fit, and of those the one freed first, exists.
LEMMA BestFitFits ==
    ASSUME MemTypeOK, NEW bytes, Fits(bytes) # {}
    PROVE  BestFit(bytes) \in Fits(bytes)
<1> DEFINE F == Fits(bytes)
           pages(i) == runs[free[i]].pages
           best(i) == \A j \in F : pages(i) < pages(j) \/ (pages(i) = pages(j) /\ i <= j)
<1>1. F \subseteq Nat /\ \A i \in F : pages(i) \in Nat
    <2>1. ASSUME NEW i \in F
          PROVE  i \in Nat /\ pages(i) \in Nat
        <3>1. i \in 1..Len(free) /\ Len(free) \in Nat
            BY LenProperties DEF Fits, MemTypeOK
        <3>2. free[i] \in DOMAIN runs
            BY <3>1, ElementOfSeq DEF MemTypeOK
        <3>3. runs[free[i]] \in [begin : Nat, pages : Nat]
            BY <3>2, ElementOfSeq, LenProperties DEF MemTypeOK
        <3> QED
            BY <3>1, <3>3
    <2> QED
        BY <2>1
<1> HIDE DEF F
<1>2. PICK p \in {pages(i) : i \in F} : \A k \in {pages(i) : i \in F} : p <= k
    <2>1. {pages(i) : i \in F} \in SUBSET Nat /\ {pages(i) : i \in F} # {}
        BY <1>1 DEF F
    <2> QED
        BY <2>1, LeastNumber
<1>3. PICK m \in {i \in F : pages(i) = p} : \A j \in {i \in F : pages(i) = p} : m <= j
    <2>1. {i \in F : pages(i) = p} \in SUBSET Nat /\ {i \in F : pages(i) = p} # {}
        BY <1>1, <1>2
    <2> QED
        BY <2>1, LeastNumber
<1>4. m \in F /\ best(m)
    BY <1>1, <1>2, <1>3
<1>5. \E i \in F : best(i)
    BY <1>4
<1>6. (CHOOSE i \in F : best(i)) \in F
    BY <1>5
<1> QED
    BY <1>6 DEF BestFit, F

LEMMA RemoveAtProperties ==
    ASSUME NEW S, NEW s \in Seq(S), NEW i \in 1..Len(s)
    PROVE  /\ RemoveAt(s, i) \in Seq(S)
           /\ Len(RemoveAt(s, i)) = Len(s) - 1
           /\ \A j \in 1..Len(s) - 1 : RemoveAt(s, i)[j] = IF j < i THEN s[j] ELSE s[j + 1]
<1> DEFINE a == SubSeq(s, 1, i - 1)
           b == SubSeq(s, i + 1, Len(s))
<1>1. Len(s) \in Nat /\ \A j \in 1..Len(s) : s[j] \in S
    BY ElementOfSeq, LenProperties
<1>2. /\ a \in Seq(S) /\ Len(a) = i - 1
      /\ \A j \in 1..i - 1 : a[j] = s[j]
    <2>1. 1 \in Int /\ i - 1 \in Int /\ \A j \in 1..i - 1 : s[j] \in S
        BY <1>1
    <2> QED
        BY <2>1, SubSeqProperties, <1>1
<1>3. /\ b \in Seq(S) /\ Len(b) = Len(s) - i
      /\ \A j \in 1..Len(s) - i : b[j] = s[i + j]
    <2>1. i + 1 \in Int /\ Len(s) \in Int /\ \A j \in i + 1..Len(s) : s[j] \in S
        BY <1>1
    <2> QED
        BY <2>1, SubSeqProperties, <1>1
<1>4. RemoveAt(s, i) = a \o b
    BY DEF RemoveAt
<1> HIDE DEF a, b
<1>5. /\ a \o b \in Seq(S)
      /\ Len(a \o b) = Len(a) + Len(b)
      /\ \A j \in 1..Len(a) + Len(b) : (a \o b)[j] = IF j <= Len(a) THEN a[j] ELSE b[j - Len(a)]
    BY <1>2, <1>3, ConcatProperties
<1>6. ASSUME NEW j \in 1..Len(s) - 1
      PROVE  (a \o b)[j] = IF j < i THEN s[j] ELSE s[j + 1]
    <2>1. CASE j < i
        BY <2>1, <1>1, <1>2, <1>3, <1>5
    <2>2. CASE ~(j < i)
        <3> DEFINE k == j - (i - 1)
        <3>1. k \in 1..Len(s) - i /\ i + k = j + 1
            BY <2>2, <1>1
        <3>2. (a \o b)[j] = b[k]
            BY <2>2, <1>1, <1>2, <1>3, <1>5
        <3> HIDE DEF k
        <3>3. b[k] = s[i + k]
            BY <3>1, <1>3
        <3> QED
            BY <3>1, <3>2, <3>3, <2>2
    <2> QED
        BY <2>1, <2>2
<1> QED
    BY <1>1, <1>2, <1>3, <1>4, <1>5, <1>6
--------------------------------------------------------------------------------
(* What every Alloc and Free keep.                                         *)

\* Every run has its own pages in the table; every allocation enough of them.
Tabled ==
    \A r \in DOMAIN runs :
        /\ runs[r].begin + runs[r].pages <= Len(ptable)
        /\ \A i \in 1..runs[r].pages : ptable[runs[r].begin + i] = r
Roomy == \A a \in live : NumPages(a.bytes) <= runs[a.run].pages

MemInv == MemTypeOK /\ NotShared /\ Tabled /\ Roomy

LiveRuns == {a.run : a \in live}

LEMMA MemInitInv == MemInit => MemInv
<1> SUFFICES ASSUME MemInit PROVE MemInv
    OBVIOUS
<1>1. \A S : <<>> \in Seq(S) /\ Len(<<>>) = 0 /\ DOMAIN <<>> = {}
    BY EmptySeq
<1> QED
    BY <1>1 DEF MemInit, MemInv, MemTypeOK, NotShared, Tabled, Roomy, Range

LEMMA MemTypes ==
    ASSUME MemTypeOK
    PROVE  /\ DOMAIN runs = 1..Len(runs) /\ Len(runs) \in Nat
           /\ \A r \in DOMAIN runs : runs[r] \in [begin : Nat, pages : Nat]
           /\ DOMAIN ptable = 1..Len(ptable) /\ Len(ptable) \in Nat
           /\ \A i \in DOMAIN ptable : ptable[i] \in DOMAIN runs
           /\ DOMAIN free = 1..Len(free) /\ Len(free) \in Nat
           /\ \A i \in DOMAIN free : free[i] \in DOMAIN runs
BY ElementOfSeq, LenProperties DEF MemTypeOK

\* The run Alloc returns was in nobody's hands.
LEMMA AllocFreeKeeps ==
    ASSUME MemInv, NEW bytes \in Nat, NEW r, Alloc(bytes, r), AllocFree(bytes, r)
    PROVE  MemInv' /\ r \in DOMAIN runs /\ r \notin LiveRuns
<1> USE DEF MemInv
<1> DEFINE b == BestFit(bytes)
<1>1. /\ b \in 1..Len(free) /\ r = free[b] /\ r \in DOMAIN runs
      /\ NumPages(bytes) <= runs[r].pages
    <2>1. b \in Fits(bytes) /\ r = free[b]
        BY BestFitFits DEF AllocFree
    <2> QED
        BY <2>1, MemTypes, EnoughPages DEF Fits
<1>2. r \notin LiveRuns
    BY <1>1, MemTypes DEF NotShared, LiveRuns, Range
<1>3. /\ free' = RemoveAt(free, b) /\ UNCHANGED <<runs, ptable>>
      /\ live' = live \cup {[run |-> r, bytes |-> bytes]}
    BY DEF Alloc, AllocFree
<1> HIDE DEF b
<1>4. /\ free' \in Seq(DOMAIN runs) /\ Len(free') = Len(free) - 1
      /\ \A j \in 1..Len(free) - 1 : free'[j] = IF j < b THEN free[j] ELSE free[j + 1]
    BY <1>1, <1>3, RemoveAtProperties DEF MemTypeOK
<1>5. DOMAIN free' = 1..Len(free) - 1
    BY <1>4, LenProperties
<1>6. MemTypeOK'
    <2>1. runs' = runs /\ ptable' = ptable
        BY <1>3
    <2>2. live' \subseteq [run : DOMAIN runs, bytes : Nat]
        <3>1. [run |-> r, bytes |-> bytes] \in [run : DOMAIN runs, bytes : Nat]
            BY <1>1
        <3> QED
            BY <3>1, <1>3, Zenon DEF MemTypeOK
    <2> QED
        BY <2>1, <2>2, <1>4, Zenon DEF MemTypeOK
<1>7. NotShared'
    <2>1. \A j \in DOMAIN free' : \E i \in DOMAIN free : i # b /\ free'[j] = free[i]
        <3>1. ASSUME NEW j \in DOMAIN free'
              PROVE  \E i \in DOMAIN free : i # b /\ free'[j] = free[i]
            <4>1. j \in 1..Len(free) - 1 /\ Len(free) \in Nat /\ b \in 1..Len(free)
                BY <1>1, <1>5, MemTypes
            <4>2. CASE j < b
                <5>1. j \in 1..Len(free) /\ j # b /\ free'[j] = free[j]
                    BY <4>1, <4>2, <1>4
                <5> QED
                    BY <5>1, MemTypes
            <4>3. CASE ~(j < b)
                <5>1. j + 1 \in 1..Len(free) /\ j + 1 # b /\ free'[j] = free[j + 1]
                    BY <4>1, <4>3, <1>4
                <5> QED
                    BY <5>1, MemTypes
            <4> QED
                BY <4>2, <4>3
        <3> QED
            BY <3>1
    <2>2. \A a \in live' : a.run \notin Range(free')
        BY <2>1, <1>1, <1>3, MemTypes DEF NotShared, Range
    <2>3. ASSUME NEW i \in DOMAIN free', NEW j \in DOMAIN free', free'[i] = free'[j]
          PROVE  i = j
        <3> DEFINE at(k) == IF k < b THEN k ELSE k + 1
        <3>1. /\ i \in 1..Len(free) - 1 /\ j \in 1..Len(free) - 1
              /\ Len(free) \in Nat /\ b \in Nat
            BY <1>1, <1>5, MemTypes
        <3>2. \A k \in 1..Len(free) - 1 : at(k) \in 1..Len(free) /\ free'[k] = free[at(k)]
            BY <3>1, <1>4
        <3>3. at(i) = at(j)
            BY <2>3, <3>1, <3>2, MemTypes DEF NotShared
        <3> QED
            BY <3>1, <3>3
    <2>4. \A x, y \in live' : x.run = y.run => x = y
        BY <1>2, <1>3 DEF NotShared, LiveRuns
    <2> QED
        BY <2>2, <2>3, <2>4 DEF NotShared
<1>8. Tabled'
    BY <1>3 DEF Tabled
<1>9. Roomy'
    BY <1>1, <1>3 DEF Roomy, NumPages
<1> QED
    BY <1>1, <1>2, <1>6, <1>7, <1>8, <1>9

LEMMA AllocNewKeeps ==
    ASSUME MemInv, NEW bytes \in Nat, NEW r, Alloc(bytes, r), AllocNew(bytes, r)
    PROVE  /\ MemInv' /\ r \in DOMAIN runs' /\ r \notin LiveRuns
           /\ DOMAIN runs \subseteq DOMAIN runs' /\ \A q \in DOMAIN runs : runs'[q] = runs[q]
<1> USE DEF MemInv
<1> DEFINE n == NumPages(bytes)
           new == [begin |-> Len(ptable), pages |-> n]
           added == [i \in 1..n |-> r]
<1>1. /\ r = Len(runs) + 1 /\ runs' = Append(runs, new) /\ ptable' = ptable \o added
      /\ free' = free /\ live' = live \cup {[run |-> r, bytes |-> bytes]}
    BY DEF Alloc, AllocNew
<1>2. n \in Nat /\ new \in [begin : Nat, pages : Nat]
    BY EnoughPages, MemTypes
<1> HIDE DEF new, n
<1>3. /\ runs' \in Seq([begin : Nat, pages : Nat]) /\ DOMAIN runs' = 1..r
      /\ \A q \in DOMAIN runs : runs'[q] = runs[q]
      /\ runs'[r] = new /\ DOMAIN runs = 1..r - 1 /\ r \in Nat \ {0}
    BY <1>1, <1>2, AppendProperties, LenProperties, MemTypes DEF MemTypeOK
<1>4. /\ ptable \in Seq(DOMAIN runs') /\ added \in Seq(DOMAIN runs') /\ Len(added) = n
    BY <1>2, <1>3, SeqMonotonic DEF MemTypeOK
<1>5. /\ ptable' \in Seq(DOMAIN runs') /\ Len(ptable') = Len(ptable) + n
      /\ \A i \in 1..Len(ptable) : ptable'[i] = ptable[i]
      /\ \A i \in 1..n : ptable'[Len(ptable) + i] = r
    <2> HIDE DEF added
    <2>1. /\ ptable' \in Seq(DOMAIN runs') /\ Len(ptable') = Len(ptable) + n
          /\ \A i \in 1..Len(ptable) + n :
                ptable'[i] = IF i <= Len(ptable) THEN ptable[i] ELSE added[i - Len(ptable)]
        BY <1>1, <1>4, ConcatProperties
    <2>2. \A i \in 1..n : added[i] = r
        BY DEF added
    <2>3. ASSUME NEW i \in 1..n
          PROVE  ptable'[Len(ptable) + i] = r
        BY <2>1, <2>2, <1>2, MemTypes
    <2> QED
        BY <2>1, <2>3, <1>2, MemTypes
<1>6. r \notin LiveRuns /\ \A i \in DOMAIN free : free[i] # r
    BY <1>3, MemTypes DEF LiveRuns, MemTypeOK
<1>7. MemTypeOK'
    <2>1. free' \in Seq(DOMAIN runs')
        BY <1>1, <1>3, SeqMonotonic DEF MemTypeOK
    <2>2. live' \subseteq [run : DOMAIN runs', bytes : Nat]
        BY <1>1, <1>3 DEF MemTypeOK
    <2> QED
        BY <2>1, <2>2, <1>3, <1>5 DEF MemTypeOK
<1>8. NotShared'
    <2>1. \A a \in live' : a.run \notin Range(free')
        BY <1>1, <1>6 DEF NotShared, Range
    <2>2. \A x, y \in live' : x.run = y.run => x = y
        BY <1>1, <1>6 DEF NotShared, LiveRuns
    <2> QED
        BY <2>1, <2>2, <1>1 DEF NotShared
<1>9. Tabled'
    <2>1. ASSUME NEW q \in DOMAIN runs
          PROVE  /\ runs'[q].begin + runs'[q].pages <= Len(ptable')
                 /\ \A i \in 1..runs'[q].pages : ptable'[runs'[q].begin + i] = q
        <3>1. /\ runs'[q] = runs[q] /\ runs[q].begin \in Nat /\ runs[q].pages \in Nat
              /\ runs[q].begin + runs[q].pages <= Len(ptable) /\ Len(ptable) \in Nat
            BY <1>3, MemTypes DEF Tabled
        <3>2. ASSUME NEW i \in 1..runs[q].pages
              PROVE  ptable'[runs[q].begin + i] = q
            <4>1. runs[q].begin + i \in 1..Len(ptable)
                BY <3>1
            <4> QED
                BY <4>1, <1>5 DEF Tabled
        <3> QED
            BY <3>1, <3>2, <1>2, <1>5
    <2>2. /\ runs'[r].begin + runs'[r].pages <= Len(ptable')
          /\ \A i \in 1..runs'[r].pages : ptable'[runs'[r].begin + i] = r
        BY <1>2, <1>3, <1>5, MemTypes DEF new
    <2> QED
        BY <2>1, <2>2, <1>3 DEF Tabled
<1>10. Roomy'
    <2>1. ASSUME NEW a \in live
          PROVE  NumPages(a.bytes) <= runs'[a.run].pages
        BY <1>3 DEF Roomy, MemTypeOK
    <2>2. n <= runs'[r].pages
        BY <1>2, <1>3 DEF new
    <2> DEFINE x == [run |-> r, bytes |-> bytes]
    <2>3. x.run = r /\ NumPages(x.bytes) = n
        BY DEF n
    <2> HIDE DEF x
    <2>4. \A a \in live' : a \in live \/ a = x
        BY <1>1 DEF x
    <2>5. \A a \in live' : NumPages(a.bytes) <= runs'[a.run].pages
        BY <2>1, <2>2, <2>3, <2>4
    <2> QED
        BY <2>5 DEF Roomy, NumPages
<1> QED
    BY <1>3, <1>6, <1>7, <1>8, <1>9, <1>10

\* Free of a run somebody holds.
LEMMA FreeKeeps ==
    ASSUME MemInv, NEW r \in LiveRuns, Free(r)
    PROVE  MemInv' /\ LiveRuns' = LiveRuns \ {r}
<1> USE DEF MemInv
<1>1. /\ free' = Append(free, r) /\ live' = {a \in live : a.run # r}
      /\ UNCHANGED <<runs, ptable>>
    BY DEF Free
<1>2. r \in DOMAIN runs
    BY DEF LiveRuns, MemTypeOK
<1>3. /\ free' \in Seq(DOMAIN runs) /\ DOMAIN free' = 1..Len(free) + 1
      /\ \A i \in DOMAIN free : free'[i] = free[i]
      /\ free'[Len(free) + 1] = r
    <2>1. free \in Seq(DOMAIN runs)
        BY DEF MemTypeOK
    <2>2. /\ free' \in Seq(DOMAIN runs) /\ Len(free') = Len(free) + 1
          /\ \A i \in 1..Len(free) : free'[i] = free[i]
          /\ free'[Len(free) + 1] = r
        BY <2>1, <1>1, <1>2, AppendProperties
    <2> QED
        BY <2>2, MemTypes, LenProperties
<1>4. MemTypeOK'
    <2>1. runs' = runs /\ ptable' = ptable
        BY <1>1
    <2>2. live' \subseteq [run : DOMAIN runs, bytes : Nat]
        BY <1>1 DEF MemTypeOK
    <2> QED
        BY <2>1, <2>2, <1>3, Zenon DEF MemTypeOK
<1>5. \A i \in DOMAIN free : free[i] # r
    BY DEF NotShared, LiveRuns, Range
<1>6. NotShared'
    <2>1. \A i \in DOMAIN free' : i = Len(free) + 1 \/ i \in DOMAIN free
        BY <1>3, MemTypes
    <2>2. \A a \in live' : \A i \in DOMAIN free' : free'[i] # a.run
        BY <2>1, <1>1, <1>3 DEF NotShared, Range
    <2>3. \A a \in live' : a.run \notin Range(free')
        BY <2>2 DEF Range
    <2>4. ASSUME NEW i \in DOMAIN free', NEW j \in DOMAIN free', free'[i] = free'[j]
          PROVE  i = j
        BY <2>1, <2>4, <1>3, <1>5 DEF NotShared
    <2> QED
        BY <2>3, <2>4, <1>1 DEF NotShared
<1>7. Tabled' /\ Roomy'
    BY <1>1 DEF Tabled, Roomy, NumPages
<1>8. LiveRuns' = LiveRuns \ {r}
    BY <1>1 DEF LiveRuns
<1> QED
    BY <1>4, <1>6, <1>7, <1>8

--------------------------------------------------------------------------------
\* A physical address leads back to the run and the byte it was made from.
LEMMA AddressesLeadBack == MemInv => RoundTrip
<1> SUFFICES ASSUME MemInv, NEW a \in live, NEW off \in 0..a.bytes - 1
             PROVE  /\ Mapped(GetPhyAddr(a.run, off))
                    /\ GetAddr(GetPhyAddr(a.run, off)) = [run |-> a.run, off |-> off]
    BY DEF RoundTrip
<1> USE VirtualMemoryAssumption DEF MemInv
<1> DEFINE r == a.run
           phy == GetPhyAddr(r, off)
           page == off \div PageSize
           rest == off % PageSize
<1>1. /\ r \in DOMAIN runs /\ a.bytes \in Nat /\ off \in Nat
      /\ runs[r].begin \in Nat /\ runs[r].pages \in Nat
    BY MemTypes DEF MemTypeOK
<1>2. page \in Nat /\ rest \in 0..PageSize - 1 /\ off = PageSize * page + rest
    BY <1>1, DivMod
<1>3. page < runs[r].pages
    <2>1. NumPages(a.bytes) \in Nat /\ page < NumPages(a.bytes)
        BY <1>1, EnoughPages
    <2>2. NumPages(a.bytes) <= runs[r].pages
        BY DEF Roomy
    <2> HIDE DEF page, r
    <2> QED
        BY <2>1, <2>2, <1>1, <1>2
<1>4. phy \in Nat /\ phy = PageSize * (runs[r].begin + 1 + page) + rest
    BY <1>1, <1>2 DEF GetPhyAddr
<1> HIDE DEF phy, page, rest, r
<1>5. phy \div PageSize = runs[r].begin + 1 + page /\ phy % PageSize = rest
    <2> DEFINE q == runs[r].begin + 1 + page
    <2>1. q \in Nat /\ phy = PageSize * q + rest
        BY <1>1, <1>2, <1>4
    <2> HIDE DEF q
    <2>2. phy \div PageSize = q /\ phy % PageSize = rest
        BY <2>1, <1>2, <1>4, DivUnique
    <2> QED
        BY <2>2 DEF q
<1>6. Location(phy) = runs[r].begin + page
    BY <1>1, <1>2, <1>5 DEF Location
<1>7. Mapped(phy)
    <2>1. runs[r].begin + page < Len(ptable)
        BY <1>1, <1>2, <1>3, MemTypes DEF Tabled
    <2>2. phy >= PageSize
        BY <1>1, <1>2, <1>4, NextMultiple
    <2> QED
        BY <2>1, <2>2, <1>6 DEF Mapped
<1>8. ptable[Location(phy) + 1] = r
    <2>1. page + 1 \in 1..runs[r].pages /\ Location(phy) + 1 = runs[r].begin + (page + 1)
        BY <1>1, <1>2, <1>3, <1>6
    <2> QED
        BY <2>1, <1>1 DEF Tabled
<1>9. GetAddr(phy).off = off
    BY <1>1, <1>2, <1>5, <1>6, <1>8 DEF GetAddr
<1>10. GetAddr(phy) = [run |-> r, off |-> off]
    BY <1>8, <1>9 DEF GetAddr
<1> QED
    BY <1>7, <1>10 DEF phy, r

--------------------------------------------------------------------------------
(* The buffers over it.                                                    *)

Step == {"idle", "new", "address", "publish", "forget", "free", "delete"}

BufTypeOK ==
    /\ objects = [h \in DOMAIN objects |-> objects[h]]
    /\ \A h \in DOMAIN objects : objects[h] \in [run : Nat, phy : Nat]
    /\ DOMAIN objects \subseteq Handle
    /\ held \in [Thread -> SUBSET Handle]
    /\ pc \in [Thread -> Step]
    /\ reg \in [Thread -> [handle : Handle \cup {"none"}, run : Nat]]

\* The step of a call that has the handle of an object in its register.
HasHandle(t) == pc[t] \in {"address", "publish", "forget", "free", "delete"}
Owns(t, h) == h \in held[t] \/ (HasHandle(t) /\ h = reg[t].handle)

\* An object belongs to one thread, which has its handle in one place.
Owned ==
    /\ \A t \in Thread : \A h : Owns(t, h) => h \in DOMAIN objects
    /\ \A t, u \in Thread : \A h : Owns(t, h) /\ Owns(u, h) => t = u
    /\ \A t \in Thread : HasHandle(t) => reg[t].handle \notin held[t]
    /\ \A h \in DOMAIN objects : \E t \in Thread : Owns(t, h)

\* alloc_stat knows the handles that are held, and the one about to be deleted.
Known ==
    /\ allocated \subseteq DOMAIN objects
    /\ \A t \in Thread :
        /\ held[t] \subseteq allocated
        /\ pc[t] = "forget" => reg[t].handle \in allocated
        /\ pc[t] \in {"address", "publish", "free", "delete"} => reg[t].handle \notin allocated

\* The object whose run is already back in the free map.
Hollow(h) == \E t \in Thread : pc[t] = "delete" /\ reg[t].handle = h

\* A live run belongs to one object or to one thread that will make the object.
RunOwned ==
    /\ \A h \in DOMAIN objects : ~Hollow(h) => objects[h].run \in LiveRuns
    /\ \A g, h \in DOMAIN objects :
          ~Hollow(g) /\ ~Hollow(h) /\ objects[g].run = objects[h].run => g = h
    /\ \A t \in Thread : pc[t] = "new" => reg[t].run \in LiveRuns
    /\ \A t \in Thread, h \in DOMAIN objects :
          pc[t] = "new" /\ ~Hollow(h) => objects[h].run # reg[t].run
    /\ \A t, u \in Thread : pc[t] = "new" /\ pc[u] = "new" /\ reg[t].run = reg[u].run => t = u
    /\ \A q \in LiveRuns :
          \/ \E h \in DOMAIN objects : ~Hollow(h) /\ objects[h].run = q
          \/ \E t \in Thread : pc[t] = "new" /\ reg[t].run = q

Addressed ==
    /\ \A t \in Thread :
        /\ pc[t] \in {"address", "publish"} => objects[reg[t].handle].run = reg[t].run
        /\ pc[t] = "publish" =>
              objects[reg[t].handle].phy = GetPhyAddr(objects[reg[t].handle].run, 0)
    /\ \A h \in allocated : objects[h].phy = GetPhyAddr(objects[h].run, 0)

IInv == MemInv /\ BufTypeOK /\ Owned /\ Known /\ RunOwned /\ Addressed

--------------------------------------------------------------------------------
\* Alloc gives out a run nobody has, and moves no other.
LEMMA AllocGives ==
    ASSUME MemInv, NEW bytes \in Nat, NEW r, Alloc(bytes, r)
    PROVE  /\ MemInv' /\ r \in Nat /\ r \notin LiveRuns /\ LiveRuns' = LiveRuns \cup {r}
           /\ \A q \in LiveRuns : GetPhyAddr(q, 0)' = GetPhyAddr(q, 0)
<1>1. LiveRuns \subseteq DOMAIN runs
    BY DEF MemInv, MemTypeOK, LiveRuns
<1>2. LiveRuns' = LiveRuns \cup {r}
    <2>1. live' = live \cup {[run |-> r, bytes |-> bytes]}
        BY DEF Alloc
    <2>2. [run |-> r, bytes |-> bytes].run = r
        OBVIOUS
    <2>3. \A q : q \in LiveRuns' <=> (q \in LiveRuns \/ q = r)
        BY <2>1, <2>2, Zenon DEF LiveRuns
    <2> QED
        BY <2>3
<1>3. CASE AllocFree(bytes, r)
    <2>1. MemInv' /\ r \in DOMAIN runs /\ r \notin LiveRuns /\ runs' = runs
        BY <1>3, AllocFreeKeeps DEF AllocFree
    <2>2. r \in Nat
        BY <2>1, MemTypes DEF MemInv
    <2> QED
        BY <2>1, <2>2, <1>2 DEF GetPhyAddr
<1>4. CASE AllocNew(bytes, r)
    <2>1. MemInv' /\ r \notin LiveRuns /\ \A q \in DOMAIN runs : runs'[q] = runs[q]
        BY <1>4, AllocNewKeeps
    <2>2. r \in Nat
        BY <1>4, MemTypes DEF AllocNew, MemInv
    <2> QED
        BY <2>1, <2>2, <1>1, <1>2 DEF GetPhyAddr
<1> QED
    BY <1>3, <1>4 DEF Alloc

LEMMA AddressesAreNumbers ==
    ASSUME MemInv, NEW q \in LiveRuns
    PROVE  GetPhyAddr(q, 0) \in Nat
<1>1. q \in DOMAIN runs
    BY DEF MemInv, MemTypeOK, LiveRuns
<1>2. runs[q].begin \in Nat
    BY <1>1, MemTypes DEF MemInv
<1> QED
    BY <1>2, VirtualMemoryAssumption DEF GetPhyAddr

\* What alloc_stat or a call before its VTAMemFree refers to has its run.
LEMMA NotHollow ==
    ASSUME IInv
    PROVE  /\ \A h \in allocated : ~Hollow(h) /\ objects[h].run \in LiveRuns
           /\ \A t \in Thread : pc[t] \in {"address", "publish", "forget", "free"} =>
                 /\ reg[t].handle \in DOMAIN objects /\ ~Hollow(reg[t].handle)
                 /\ objects[reg[t].handle].run \in LiveRuns
BY DEF IInv, Owned, Owns, HasHandle, Known, Hollow, RunOwned

LEMMA InitInv == Init => IInv
<1> SUFFICES ASSUME Init PROVE IInv
    OBVIOUS
<1>1. MemInv /\ LiveRuns = {}
    BY MemInitInv DEF Init, MemInit, LiveRuns
<1>2. DOMAIN objects = {} /\ objects = [h \in DOMAIN objects |-> objects[h]]
    BY DEF Init
<1>3. BufTypeOK
    BY <1>2 DEF Init, BufTypeOK, Step, NoReg
<1> QED
    BY <1>1, <1>2, <1>3 DEF Init, IInv, Owned, Known, RunOwned, Addressed, Owns, HasHandle, Hollow

--------------------------------------------------------------------------------
(* One lemma per step of a call.                                           *)

LEMMA MemAllocKeeps ==
    ASSUME IInv, NEW t \in Thread, MemAlloc(t)
    PROVE  IInv'
<1> USE DEF IInv
<1>1. PICK bytes \in Bytes, r \in 1..MaxRuns : Alloc(bytes, r) /\ reg' = [reg EXCEPT ![t].run = r]
    BY DEF MemAlloc
<1>2. /\ MemInv' /\ r \in Nat /\ r \notin LiveRuns /\ LiveRuns' = LiveRuns \cup {r}
      /\ \A q \in LiveRuns : GetPhyAddr(q, 0)' = GetPhyAddr(q, 0)
    BY <1>1, AllocGives, VirtualMemoryAssumption
<1>3. /\ pc[t] = "idle" /\ UNCHANGED <<objects, allocated, held>>
      /\ \A u \in Thread : pc'[u] = IF u = t THEN "new" ELSE pc[u]
      /\ \A u \in Thread : reg'[u].handle = reg[u].handle
      /\ \A u \in Thread : reg'[u].run = IF u = t THEN r ELSE reg[u].run
    BY <1>1 DEF MemAlloc, Goto, BufTypeOK
<1>4. BufTypeOK'
    BY <1>1, <1>2 DEF MemAlloc, Goto, BufTypeOK, Step
<1>5. \A u \in Thread : \A h : Owns(u, h)' = Owns(u, h)
    BY <1>3 DEF Owns, HasHandle
<1>6. Owned'
    BY <1>3, <1>5 DEF Owned, HasHandle
<1>7. Known'
    BY <1>3 DEF Known
<1>8. \A h : Hollow(h)' = Hollow(h)
    BY <1>3 DEF Hollow
<1>9. RunOwned'
    BY <1>2, <1>3, <1>8 DEF RunOwned
<1>10. Addressed'
    BY <1>2, <1>3, NotHollow DEF Addressed
<1> QED
    BY <1>2, <1>4, <1>6, <1>7, <1>9, <1>10

LEMMA NewObjectKeeps ==
    ASSUME IInv, NEW t \in Thread, NewObject(t)
    PROVE  IInv'
<1> USE DEF IInv
<1>1. PICK h \in Handle \ DOMAIN objects :
          /\ objects' = [g \in DOMAIN objects \cup {h} |->
                            IF g = h THEN [run |-> reg[t].run, phy |-> 0] ELSE objects[g]]
          /\ reg' = [reg EXCEPT ![t].handle = h]
    BY DEF NewObject
<1>2. /\ DOMAIN objects' = DOMAIN objects \cup {h}
      /\ objects'[h].run = reg[t].run
      /\ \A g \in DOMAIN objects : objects'[g] = objects[g]
    BY <1>1
<1>3. /\ pc[t] = "new" /\ UNCHANGED <<memVars, allocated, held>>
      /\ \A u \in Thread : pc'[u] = IF u = t THEN "address" ELSE pc[u]
      /\ \A u \in Thread : reg'[u].handle = IF u = t THEN h ELSE reg[u].handle
      /\ \A u \in Thread : reg'[u].run = reg[u].run
    BY <1>1 DEF NewObject, Goto, BufTypeOK
<1>4. MemInv' /\ LiveRuns' = LiveRuns
    BY <1>3 DEF memVars, MemInv, MemTypeOK, NotShared, Tabled, Roomy, LiveRuns, NumPages
<1>5. BufTypeOK'
    BY <1>1 DEF NewObject, Goto, BufTypeOK, Step
<1>6. \A u \in Thread : \A g : Owns(u, g)' <=> (Owns(u, g) \/ (u = t /\ g = h))
    BY <1>3 DEF Owns, HasHandle
<1>7. Owned'
    BY <1>1, <1>2, <1>3, <1>6 DEF Owned, HasHandle, Owns
<1>8. Known'
    BY <1>1, <1>2, <1>3 DEF Known
<1>9. \A g : Hollow(g)' = Hollow(g)
    BY <1>3 DEF Hollow
<1>10. ~Hollow(h)
    BY <1>1 DEF Owned, Hollow, Owns, HasHandle
<1>11. RunOwned'
    BY <1>1, <1>2, <1>3, <1>4, <1>9, <1>10 DEF RunOwned
<1>12. Addressed'
    BY <1>1, <1>2, <1>3 DEF Addressed, Known, Owned, Owns, HasHandle, GetPhyAddr, memVars
<1> QED
    BY <1>4, <1>5, <1>7, <1>8, <1>11, <1>12

LEMMA SetAddressKeeps ==
    ASSUME IInv, NEW t \in Thread, SetAddress(t)
    PROVE  IInv'
<1> USE DEF IInv
<1> DEFINE h == reg[t].handle
<1>1. /\ pc[t] = "address" /\ UNCHANGED <<memVars, allocated, held, reg>>
      /\ \A u \in Thread : pc'[u] = IF u = t THEN "publish" ELSE pc[u]
      /\ objects' = [objects EXCEPT ![h].phy = GetPhyAddr(reg[t].run, 0)]
    BY DEF SetAddress, Goto, BufTypeOK
<1>2. h \in DOMAIN objects /\ h \notin allocated /\ objects[h].run = reg[t].run
    BY <1>1, NotHollow DEF Known, Addressed
<1>3. GetPhyAddr(reg[t].run, 0) \in Nat
    BY <1>1, <1>2, NotHollow, AddressesAreNumbers
<1>4. objects[h] \in [run : Nat, phy : Nat]
    BY <1>2 DEF BufTypeOK
<1>5. /\ DOMAIN objects' = DOMAIN objects
      /\ \A g \in DOMAIN objects : objects'[g].run = objects[g].run
      /\ \A g \in DOMAIN objects : g # h => objects'[g] = objects[g]
      /\ objects'[h].phy = GetPhyAddr(reg[t].run, 0)
    BY <1>1, <1>2, <1>4 DEF BufTypeOK
<1>6. MemInv' /\ LiveRuns' = LiveRuns /\ \A q : GetPhyAddr(q, 0)' = GetPhyAddr(q, 0)
    BY <1>1 DEF memVars, MemInv, MemTypeOK, NotShared, Tabled, Roomy, LiveRuns, NumPages, GetPhyAddr
<1>7. BufTypeOK'
    <2>1. objects'[h] \in [run : Nat, phy : Nat]
        BY <1>1, <1>2, <1>3, <1>4
    <2>2. objects' = [g \in DOMAIN objects' |-> objects'[g]]
        BY <1>1
    <2>3. \A g \in DOMAIN objects' : objects'[g] \in [run : Nat, phy : Nat]
        BY <2>1, <1>5 DEF BufTypeOK
    <2>4. pc' \in [Thread -> Step]
        BY DEF SetAddress, Goto, BufTypeOK, Step
    <2> HIDE DEF h
    <2> QED
        BY <2>2, <2>3, <2>4, <1>1, <1>5 DEF BufTypeOK
<1> HIDE DEF h
<1>8. \A u \in Thread : \A g : Owns(u, g)' = Owns(u, g)
    BY <1>1 DEF Owns, HasHandle
<1>9. Owned'
    BY <1>1, <1>5, <1>8 DEF Owned, HasHandle
<1>10. Known'
    BY <1>1, <1>2, <1>5 DEF Known, h
<1>11. \A g : Hollow(g)' = Hollow(g)
    BY <1>1 DEF Hollow
<1>12. RunOwned'
    BY <1>1, <1>5, <1>6, <1>11 DEF RunOwned
<1>13. Addressed'
    BY <1>1, <1>2, <1>5, <1>6 DEF Addressed, Owned, Owns, HasHandle, Known, h
<1> QED
    BY <1>6, <1>7, <1>9, <1>10, <1>12, <1>13

LEMMA AddAllocKeeps ==
    ASSUME IInv, NEW t \in Thread, AddAlloc(t)
    PROVE  IInv'
<1> USE DEF IInv
<1> DEFINE h == reg[t].handle
<1>1. /\ pc[t] = "publish" /\ UNCHANGED <<memVars, objects, reg>>
      /\ \A u \in Thread : pc'[u] = IF u = t THEN "idle" ELSE pc[u]
      /\ allocated' = allocated \cup {h}
      /\ \A u \in Thread : held'[u] = IF u = t THEN held[u] \cup {h} ELSE held[u]
    BY DEF AddAlloc, Goto, BufTypeOK
<1>2. h \in DOMAIN objects
    BY <1>1 DEF Owned, Owns, HasHandle
<1>3. MemInv' /\ LiveRuns' = LiveRuns /\ \A q : GetPhyAddr(q, 0)' = GetPhyAddr(q, 0)
    BY <1>1 DEF memVars, MemInv, MemTypeOK, NotShared, Tabled, Roomy, LiveRuns, NumPages, GetPhyAddr
<1>4. BufTypeOK'
    BY <1>2 DEF AddAlloc, Goto, BufTypeOK, Step
<1>5. \A u \in Thread : \A g : Owns(u, g)' = Owns(u, g)
    BY <1>1 DEF Owns, HasHandle
<1>6. Owned'
    <2>1. ASSUME NEW u \in Thread, HasHandle(u)'
          PROVE  u # t /\ reg'[u].handle \notin held'[u]
        BY <2>1, <1>1 DEF Owned, HasHandle
    <2> QED
        BY <2>1, <1>1, <1>5 DEF Owned
<1>7. Known'
    <2>1. ASSUME NEW u \in Thread
          PROVE  /\ held'[u] \subseteq allocated'
                 /\ pc'[u] = "forget" => reg'[u].handle \in allocated'
        BY <1>1 DEF Known
    <2>2. ASSUME NEW u \in Thread, pc'[u] \in {"address", "publish", "free", "delete"}
          PROVE  reg'[u].handle \notin allocated'
        <3>1. u # t /\ pc'[u] = pc[u]
            BY <2>2, <1>1
        <3>2. reg[u].handle # h
            BY <2>2, <3>1, <1>1 DEF Owned, Owns, HasHandle
        <3> QED
            BY <2>2, <3>1, <3>2, <1>1 DEF Known
    <2> QED
        BY <2>1, <2>2, <1>1, <1>2 DEF Known
<1>8. \A g : Hollow(g)' = Hollow(g)
    BY <1>1 DEF Hollow
<1>9. RunOwned'
    BY <1>1, <1>3, <1>8 DEF RunOwned
<1>10. Addressed'
    BY <1>1, <1>3 DEF Addressed
<1> QED
    BY <1>3, <1>4, <1>6, <1>7, <1>9, <1>10

LEMMA FromHandleKeeps ==
    ASSUME IInv, NEW t \in Thread, FromHandle(t)
    PROVE  IInv'
<1> USE DEF IInv
<1>1. PICK h \in held[t] \cap allocated : /\ reg' = [reg EXCEPT ![t].handle = h]
                                          /\ held' = [held EXCEPT ![t] = @ \ {h}]
    BY DEF FromHandle
<1>2. /\ pc[t] = "idle" /\ UNCHANGED <<memVars, objects, allocated>>
      /\ \A u \in Thread : pc'[u] = IF u = t THEN "forget" ELSE pc[u]
      /\ \A u \in Thread : held'[u] = IF u = t THEN held[u] \ {h} ELSE held[u]
      /\ \A u \in Thread : reg'[u].handle = IF u = t THEN h ELSE reg[u].handle
      /\ \A u \in Thread : reg'[u].run = reg[u].run
    <2>1. /\ pc[t] = "idle" /\ UNCHANGED <<memVars, objects, allocated>>
          /\ pc' = [pc EXCEPT ![t] = "forget"]
        BY DEF FromHandle, Goto
    <2>2. /\ pc \in [Thread -> Step] /\ held \in [Thread -> SUBSET Handle]
          /\ reg \in [Thread -> [handle : Handle \cup {"none"}, run : Nat]]
        BY DEF BufTypeOK
    <2>3. \A u \in Thread : pc'[u] = IF u = t THEN "forget" ELSE pc[u]
        BY <2>1, <2>2
    <2>4. \A u \in Thread : held'[u] = IF u = t THEN held[u] \ {h} ELSE held[u]
        <3>1. held' = [held EXCEPT ![t] = held[t] \ {h}] /\ DOMAIN held = Thread
            BY <1>1, <2>2
        <3> QED
            BY <3>1, Zenon
    <2>5. \A u \in Thread : /\ reg'[u].handle = IF u = t THEN h ELSE reg[u].handle
                            /\ reg'[u].run = reg[u].run
        BY <1>1, <2>2
    <2> QED
        BY <2>1, <2>3, <2>4, <2>5
<1>3. MemInv' /\ LiveRuns' = LiveRuns /\ \A q : GetPhyAddr(q, 0)' = GetPhyAddr(q, 0)
    BY <1>2 DEF memVars, MemInv, MemTypeOK, NotShared, Tabled, Roomy, LiveRuns, NumPages, GetPhyAddr
<1>4. BufTypeOK'
    BY <1>1 DEF FromHandle, Goto, BufTypeOK, Step
<1>5. \A u \in Thread : \A g : Owns(u, g)' = Owns(u, g)
    BY <1>1, <1>2 DEF Owns, HasHandle
<1>6. Owned'
    <2>1. ASSUME NEW u \in Thread, HasHandle(u)'
          PROVE  reg'[u].handle \notin held'[u]
        <3>1. CASE u = t
            BY <3>1, <1>2
        <3>2. CASE u # t
            <4>1. pc'[u] = pc[u] /\ reg'[u].handle = reg[u].handle /\ held'[u] = held[u]
                BY <3>2, <1>2
            <4> QED
                BY <2>1, <4>1 DEF Owned, HasHandle
        <3> QED
            BY <3>1, <3>2
    <2> QED
        BY <2>1, <1>2, <1>5 DEF Owned
<1>7. Known'
    BY <1>1, <1>2 DEF Known
<1>8. \A g : Hollow(g)' = Hollow(g)
    BY <1>2 DEF Hollow
<1>9. RunOwned'
    BY <1>2, <1>3, <1>8 DEF RunOwned
<1>10. Addressed'
    BY <1>2, <1>3 DEF Addressed
<1> QED
    BY <1>3, <1>4, <1>6, <1>7, <1>9, <1>10

LEMMA DelAllocKeeps ==
    ASSUME IInv, NEW t \in Thread, DelAlloc(t)
    PROVE  IInv'
<1> USE DEF IInv
<1> DEFINE h == reg[t].handle
<1>1. /\ pc[t] = "forget" /\ UNCHANGED <<memVars, objects, held, reg>>
      /\ \A u \in Thread : pc'[u] = IF u = t THEN "free" ELSE pc[u]
      /\ allocated' = allocated \ {h}
    BY DEF DelAlloc, Goto, BufTypeOK
<1>2. MemInv' /\ LiveRuns' = LiveRuns /\ \A q : GetPhyAddr(q, 0)' = GetPhyAddr(q, 0)
    BY <1>1 DEF memVars, MemInv, MemTypeOK, NotShared, Tabled, Roomy, LiveRuns, NumPages, GetPhyAddr
<1>3. BufTypeOK'
    BY DEF DelAlloc, Goto, BufTypeOK, Step
<1>4. \A u \in Thread : \A g : Owns(u, g)' = Owns(u, g)
    BY <1>1 DEF Owns, HasHandle
<1>5. Owned'
    BY <1>1, <1>4 DEF Owned, HasHandle
<1>6. Known'
    BY <1>1 DEF Known, Owned, Owns, HasHandle
<1>7. \A g : Hollow(g)' = Hollow(g)
    BY <1>1 DEF Hollow
<1>8. RunOwned'
    BY <1>1, <1>2, <1>7 DEF RunOwned
<1>9. Addressed'
    BY <1>1, <1>2 DEF Addressed
<1> QED
    BY <1>2, <1>3, <1>5, <1>6, <1>8, <1>9

LEMMA MemFreeKeeps ==
    ASSUME IInv, NEW t \in Thread, MemFree(t)
    PROVE  IInv'
<1> USE DEF IInv
<1> DEFINE h == reg[t].handle
           q == objects[h].run
<1>1. /\ pc[t] = "free" /\ UNCHANGED <<objects, allocated, held, reg>> /\ Free(q)
      /\ \A u \in Thread : pc'[u] = IF u = t THEN "delete" ELSE pc[u]
    BY DEF MemFree, Goto, BufTypeOK
<1>2. h \in DOMAIN objects /\ ~Hollow(h) /\ h \notin allocated
    BY <1>1 DEF Owned, Owns, HasHandle, Hollow, Known
<1>3. q \in LiveRuns
    BY <1>2 DEF RunOwned
<1> HIDE DEF q
<1>4. MemInv' /\ LiveRuns' = LiveRuns \ {q}
    BY <1>1, <1>3, FreeKeeps
<1>5. \A p : GetPhyAddr(p, 0)' = GetPhyAddr(p, 0)
    BY <1>1 DEF Free, GetPhyAddr
<1>6. BufTypeOK'
    BY DEF MemFree, Goto, BufTypeOK, Step
<1>7. \A u \in Thread : \A g : Owns(u, g)' = Owns(u, g)
    BY <1>1 DEF Owns, HasHandle
<1>8. Owned'
    BY <1>1, <1>7 DEF Owned, HasHandle
<1>9. Known'
    BY <1>1 DEF Known
<1>10. \A g : Hollow(g)' <=> (Hollow(g) \/ g = h)
    BY <1>1 DEF Hollow
<1>11. RunOwned'
    BY <1>1, <1>2, <1>4, <1>10 DEF RunOwned, q
<1>12. Addressed'
    BY <1>1, <1>5 DEF Addressed
<1> QED
    BY <1>4, <1>6, <1>8, <1>9, <1>11, <1>12

LEMMA DeleteKeeps ==
    ASSUME IInv, NEW t \in Thread, Delete(t)
    PROVE  IInv'
<1> USE DEF IInv
<1> DEFINE h == reg[t].handle
<1>1. /\ pc[t] = "delete" /\ UNCHANGED <<memVars, allocated, held, reg>>
      /\ \A u \in Thread : pc'[u] = IF u = t THEN "idle" ELSE pc[u]
      /\ objects' = [g \in DOMAIN objects \ {h} |-> objects[g]]
    BY DEF Delete, Goto, BufTypeOK
<1>2. /\ DOMAIN objects' = DOMAIN objects \ {h}
      /\ \A g \in DOMAIN objects' : objects'[g] = objects[g]
    BY <1>1
<1>3. MemInv' /\ LiveRuns' = LiveRuns /\ \A q : GetPhyAddr(q, 0)' = GetPhyAddr(q, 0)
    BY <1>1 DEF memVars, MemInv, MemTypeOK, NotShared, Tabled, Roomy, LiveRuns, NumPages, GetPhyAddr
<1>4. BufTypeOK'
    BY <1>1 DEF Delete, Goto, BufTypeOK, Step
<1>5. \A u \in Thread : \A g : Owns(u, g)' <=> (Owns(u, g) /\ g # h)
    BY <1>1 DEF Owned, Owns, HasHandle
<1>6. Owned'
    BY <1>1, <1>2, <1>5 DEF Owned, HasHandle
<1>7. Known'
    BY <1>1, <1>2 DEF Known
<1>8. \A g : g # h => (Hollow(g)' <=> Hollow(g))
    BY <1>1 DEF Hollow
<1>9. Hollow(h)
    BY <1>1 DEF Hollow
<1>10. RunOwned'
    BY <1>1, <1>2, <1>3, <1>8, <1>9 DEF RunOwned
<1>11. Addressed'
    BY <1>1, <1>2, <1>3 DEF Addressed, Known, Owned, Owns, HasHandle
<1> QED
    BY <1>3, <1>4, <1>6, <1>7, <1>10, <1>11

LEMMA StutterKeeps == IInv /\ UNCHANGED bufVars => IInv'
BY DEF bufVars, memVars, IInv, MemInv, MemTypeOK, NotShared, Tabled, Roomy, NumPages, BufTypeOK,
       Owned, Owns, HasHandle, Known, Hollow, RunOwned, LiveRuns, Addressed, GetPhyAddr

LEMMA Invariance == Spec => []IInv
<1>1. IInv /\ [Next]_bufVars => IInv'
    <2> SUFFICES ASSUME IInv, Next PROVE IInv'
        BY StutterKeeps
    <2> QED
        BY MemAllocKeeps, NewObjectKeeps, SetAddressKeeps, AddAllocKeeps, FromHandleKeeps,
           DelAllocKeeps, MemFreeKeeps, DeleteKeeps DEF Next
<1> QED
    BY <1>1, InitInv, PTL DEF Spec

--------------------------------------------------------------------------------
(* The properties.                                                         *)

\* What alloc_stat knows is an object with a run of its own, at its address.
THEOREM BuffersAreUsable == Spec => []KnownIsUsable
<1>1. ASSUME IInv, NEW h \in allocated
      PROVE  /\ h \in DOMAIN objects
             /\ \E a \in live : a.run = objects[h].run
             /\ objects[h].phy = GetPhyAddr(objects[h].run, 0)
             /\ \A g \in allocated : g # h => objects[g].run # objects[h].run
    BY <1>1, NotHollow DEF IInv, Known, RunOwned, Addressed, LiveRuns
<1>2. IInv => KnownIsUsable
    BY <1>1 DEF KnownIsUsable
<1> QED
    BY <1>2, Invariance, PTL

\* With no call under way, objects and runs are what the threads hold.
THEOREM NothingLeaks == Spec => []NoLeak
<1>1. ASSUME IInv, \A t \in Thread : pc[t] = "idle"
      PROVE  /\ DOMAIN objects = UNION {held[t] : t \in Thread} /\ allocated = DOMAIN objects
             /\ LiveRuns = {objects[h].run : h \in DOMAIN objects}
    <2>1. \A h : ~Hollow(h)
        BY <1>1 DEF Hollow
    <2>2. \A t \in Thread : \A h : Owns(t, h) <=> h \in held[t]
        BY <1>1 DEF Owns, HasHandle
    <2>3. DOMAIN objects = UNION {held[t] : t \in Thread}
        <3>1. \A h : h \in DOMAIN objects <=> \E t \in Thread : h \in held[t]
            BY <2>2, <1>1 DEF IInv, Owned
        <3> QED
            BY <3>1
    <2>4. allocated = DOMAIN objects
        BY <2>3, <1>1 DEF IInv, Known
    <2>5. LiveRuns = {objects[h].run : h \in DOMAIN objects}
        <3>1. \A q : q \in LiveRuns <=> \E h \in DOMAIN objects : q = objects[h].run
            BY <2>1, <1>1 DEF IInv, RunOwned
        <3> QED
            BY <3>1
    <2> QED
        BY <2>3, <2>4, <2>5
<1>2. IInv => NoLeak
    BY <1>1 DEF NoLeak, LiveRuns
<1> QED
    BY <1>2, Invariance, PTL

\* The device reaches, by its physical address, every byte of an allocation.
THEOREM AddressesReachTheirBytes == Spec => []RoundTrip
<1>1. IInv => RoundTrip
    BY AddressesLeadBack DEF IInv
<1> QED
    BY <1>1, Invariance, PTL

\* A run is never in two hands, nor handed out while it is free.
THEOREM RunsAreNotShared == Spec => []NotShared
<1>1. IInv => NotShared
    BY DEF IInv, MemInv
<1> QED
    BY <1>1, Invariance, PTL
================================================================================
