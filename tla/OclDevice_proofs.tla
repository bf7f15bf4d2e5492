---------------------------- MODULE OclDevice_proofs ---------------------------
(***************************************************************************)
(* The chunk allocator of the OpenCL device, for a memory, an alignment    *)
(* and sizes of any number of bytes, when setup is called once, as         *)
(* oclfpga_driver.cc does: the chunks tile the memory through every split  *)
(* and join, what is handed out is a chunk of its own, and the contents of *)
(* a range are its holder's.                                               *)
(***************************************************************************)
EXTENDS OclDevice, TLAPS, SequenceTheorems

LEMMA DivMod ==
    ASSUME NEW n \in Nat, NEW p \in Nat \ {0}
    PROVE  /\ n \div p \in Nat /\ n % p \in 0..p - 1
           /\ n = p * (n \div p) + (n % p)
OBVIOUS

LEMMA NextMultiple ==
    ASSUME NEW p \in Nat \ {0}, NEW a \in Nat, NEW b \in Nat, a < b
    PROVE  p * a + p <= p * b
OBVIOUS

LEMMA DivUnique ==
    ASSUME NEW n \in Nat, NEW p \in Nat \ {0}, NEW q \in Nat, NEW r \in 0..p - 1, n = p * q + r
    PROVE  n \div p = q /\ n % p = r
<1>1. n \div p \in Nat /\ n % p \in 0..p - 1 /\ n = p * (n \div p) + (n % p)
    BY DivMod
<1>2. ~(n \div p < q)
    BY <1>1, NextMultiple
<1>3. ~(q < n \div p)
    BY <1>1, NextMultiple
<1> QED
    BY <1>1, <1>2, <1>3

\* Multiples are closed under addition.
LEMMA MultiplesAdd ==
    ASSUME NEW p \in Nat \ {0}, NEW a \in Nat, NEW b \in Nat, a % p = 0, b % p = 0
    PROVE  (a + b) % p = 0
<1> DEFINE i == a \div p
           j == b \div p
<1>1. i \in Nat /\ j \in Nat /\ a = p * i /\ b = p * j
    BY DivMod
<1> HIDE DEF i, j
<1>2. p * (i + j) = p * i + p * j
    BY <1>1
<1>3. i + j \in Nat /\ a + b \in Nat /\ 0 \in 0..p - 1 /\ a + b = p * (i + j) + 0
    BY <1>1, <1>2
<1> QED
    BY <1>3, DivUnique

\* Rounding up to a multiple.
LEMMA RoundedUp ==
    ASSUME NEW p \in Nat \ {0}, NEW n \in Nat
    PROVE  LET r == ((n + p - 1) \div p) * p IN
           r \in Nat /\ n <= r /\ r % p = 0
<1> DEFINE m == n + p - 1
           q == m \div p
<1>1. m \in Nat /\ n = m - p + 1
    OBVIOUS
<1>2. q \in Nat /\ m % p \in 0..p - 1 /\ m = p * q + (m % p)
    BY <1>1, DivMod
<1> HIDE DEF m, q
<1>3. q * p = p * q /\ p * q \in Nat
    BY <1>2
<1>4. n <= q * p
    BY <1>1, <1>2, <1>3
<1>5. (q * p) % p = 0
    <2>1. q * p = p * q + 0 /\ 0 \in 0..p - 1 /\ q * p \in Nat
        BY <1>2, <1>3
    <2> QED
        BY <2>1, <1>2, DivUnique
<1> QED
    BY <1>3, <1>4, <1>5 DEF q, m

Chunk == [offset : Nat, size : Nat \ {0}, occupied : BOOLEAN]
n == Len(chunks)

Typed ==
    /\ chunks \in Seq(Chunk) /\ iter \in 0..n
    /\ live \subseteq [offset : Nat, size : Nat \ {0}, tag : Tag \cup {"none"}]
    /\ content = [p \in 0..MemSize - 1 |-> content[p]]

\* Nothing is in use outside a device that is open and set up.
Used ==
    /\ setups \in {0, 1} /\ (setups = 0 => chunks = <<>>)
    /\ phase = "closed" => setups = 0
    /\ phase # "open" => live = {} /\ iter = 0

\* Chunks come in the order of their offsets.  (Tiled says the same of
\* neighbours.)
Ordered == \A i, j \in 1..n : i < j => End(chunks[i]) <= chunks[j].offset

\* While free() joins, the chunk at its iterator is free, and the only free
\* neighbours are those it will still look at.
Joining ==
    /\ iter > 0 => ~chunks[iter].occupied
    /\ \A i \in 1..n - 1 :
          chunks[i].occupied \/ chunks[i + 1].occupied \/ (iter > 0 /\ i \in {iter, iter + 1})

AllAligned == \A i \in 1..n : chunks[i].offset % Alignment = 0

Inv == Typed /\ Used /\ Tiled /\ Ordered /\ Joining /\ AllAligned /\ Held /\ ContentKept

--------------------------------------------------------------------------------
LEMMA FunctionIsSeq ==
    ASSUME NEW S, NEW k \in Nat, NEW f \in [1..k -> S]
    PROVE  f \in Seq(S) /\ Len(f) = k
<1>1. f \in Seq(S)
    BY SeqDef
<1>2. Len(f) \in Nat /\ DOMAIN f = 1..Len(f)
    BY <1>1, LenProperties
<1>3. 1..Len(f) = 1..k
    BY <1>2
<1> QED
    BY <1>1, <1>2, <1>3

LEMMA Chunks ==
    ASSUME Typed
    PROVE  /\ n \in Nat /\ DOMAIN chunks = 1..n
           /\ \A i \in 1..n : chunks[i] \in Chunk
BY LenProperties, ElementOfSeq DEF Typed, n

LEMMA AlignedUp ==
    ASSUME NEW size \in Nat \ {0}
    PROVE  Aligned(size) \in Nat \ {0} /\ size <= Aligned(size) /\ Aligned(size) % Alignment = 0
BY RoundedUp, OclAssumption DEF Aligned

\* An occupied chunk's bytes are all in the memory, and no other chunk's.
LEMMA Apart ==
    ASSUME Inv, NEW i \in 1..n
    PROVE  /\ End(chunks[i]) <= MemSize
           /\ \A j \in 1..n : i # j => \/ End(chunks[i]) <= chunks[j].offset
                                       \/ End(chunks[j]) <= chunks[i].offset
<1>1. n \in Nat /\ \A j \in 1..n : chunks[j] \in Chunk
    BY Chunks DEF Inv
<1>2. chunks # <<>>
    <2>1. n # 0
        BY <1>1
    <2> QED
        BY <2>1, EmptySeq DEF n
<1>3. End(chunks[n]) = MemSize
    BY <1>2 DEF Inv, Tiled, n
<1>4. End(chunks[i]) <= End(chunks[n])
    BY <1>1 DEF Inv, Ordered, End, Chunk
<1> QED
    BY <1>1, <1>3, <1>4 DEF Inv, Ordered

\* The range a caller holds lies in the memory, in a chunk; and two do not meet.
LEMMA Ranges ==
    ASSUME Inv, NEW b \in live
    PROVE  /\ b.offset \in Nat /\ b.size \in Nat \ {0} /\ b.offset + b.size <= MemSize
           /\ \E i \in 1..n : /\ chunks[i].offset = b.offset /\ chunks[i].occupied
                              /\ chunks[i].size = Aligned(b.size)
                              /\ b.offset + b.size <= End(chunks[i])
<1>1. b.offset \in Nat /\ b.size \in Nat \ {0}
    BY DEF Inv, Typed
<1>2. PICK i \in 1..n : /\ chunks[i].offset = b.offset /\ chunks[i].occupied
                        /\ chunks[i].size = Aligned(b.size)
    BY Chunks DEF Inv, Held
<1>3. Aligned(b.size) \in Nat /\ b.size <= Aligned(b.size)
    BY <1>1, AlignedUp
<1>4. b.offset + b.size <= End(chunks[i])
    BY <1>1, <1>2, <1>3 DEF End
<1>5. End(chunks[i]) \in Nat /\ End(chunks[i]) <= MemSize
    BY <1>1, <1>2, <1>3, Apart DEF End
<1> QED
    BY <1>1, <1>2, <1>4, <1>5, OclAssumption

LEMMA RangesApart ==
    ASSUME Inv, NEW b \in live, NEW c \in live, b # c
    PROVE  b.offset + b.size <= c.offset \/ c.offset + c.size <= b.offset
<1>1. PICK i \in 1..n : chunks[i].offset = b.offset /\ b.offset + b.size <= End(chunks[i])
    BY Ranges
<1>2. PICK j \in 1..n : chunks[j].offset = c.offset /\ c.offset + c.size <= End(chunks[j])
    BY Ranges
<1>3. i # j
    BY <1>1, <1>2 DEF Inv, Held
<1>4. /\ b.offset \in Nat /\ b.size \in Nat /\ c.offset \in Nat /\ c.size \in Nat
      /\ End(chunks[i]) \in Nat /\ End(chunks[j]) \in Nat
    <2>1. b.offset \in Nat /\ b.size \in Nat /\ c.offset \in Nat /\ c.size \in Nat
        BY Ranges
    <2>2. chunks[i] \in Chunk /\ chunks[j] \in Chunk
        BY Chunks DEF Inv
    <2> QED
        BY <2>1, <2>2 DEF Chunk, End
<1> QED
    BY <1>1, <1>2, <1>3, <1>4, Apart

--------------------------------------------------------------------------------
LEMMA InitInv == Init => Inv
<1> SUFFICES ASSUME Init PROVE Inv
    OBVIOUS
<1>1. \A S : <<>> \in Seq(S) /\ Len(<<>>) = 0 /\ DOMAIN <<>> = {}
    BY EmptySeq
<1> QED
    BY <1>1 DEF Init, Inv, Typed, Used, Tiled, Ordered, Joining, AllAligned, Held, ContentKept, n

\* What leaves the memory alone.
LEMMA MemoryUntouched ==
    ASSUME Inv, UNCHANGED memory, Used', phase' = "open" => phase = "open" \/ chunks = <<>>
    PROVE  Inv'
<1>1. chunks' = chunks /\ iter' = iter /\ live' = live /\ content' = content /\ n' = n
    BY DEF memory, n
<1>2. Typed' /\ Tiled' /\ Ordered' /\ Joining' /\ AllAligned'
    BY <1>1 DEF Inv, Typed, Tiled, Ordered, Joining, AllAligned, End
<1>3. ContentKept'
    BY <1>1 DEF Inv, ContentKept
<1>4. chunks = <<>> => DOMAIN chunks = {}
    OBVIOUS
<1>5. Held'
    BY <1>1, <1>4 DEF Inv, Held, Aligned
<1> QED
    BY <1>2, <1>3, <1>5 DEF Inv

LEMMA SetupKeeps ==
    ASSUME Inv, MaxSetups = 1, NEW made \in 0..4, Setup(made)
    PROVE  Inv'
<1>1. /\ phase = "open" /\ phase' = "open" /\ iter = 0 /\ setups = 0 /\ setups' = 1
      /\ UNCHANGED <<iter, live, content>> /\ chunks = <<>>
    BY DEF Setup, Inv, Used
<1>2. CASE made # 4
    <2>1. UNCHANGED memory
        BY <1>1, <1>2 DEF Setup, memory
    <2> QED
        BY <2>1, <1>1, MemoryUntouched DEF Used, Inv
<1>3. CASE made = 4
    <2> DEFINE c == [offset |-> 0, size |-> MemSize, occupied |-> FALSE]
    <2>1. chunks' = Append(<<>>, c) /\ c \in Chunk
        BY <1>1, <1>3, OclAssumption DEF Setup, Chunk
    <2>2. c.offset = 0 /\ End(c) = MemSize /\ ~c.occupied
        BY OclAssumption DEF End
    <2> HIDE DEF c
    <2>3. chunks' = <<c>> /\ chunks' \in Seq(Chunk) /\ n' = 1 /\ chunks'[1] = c
        BY <2>1 DEF n
    <2>4. live = {}
        <3>1. DOMAIN chunks = {}
            BY <1>1
        <3> QED
            BY <3>1 DEF Inv, Held
    <2>5. Typed' /\ Used'
        BY <2>3, <1>1 DEF Typed, Used, Inv
    <2>6. Tiled'
        BY <2>2, <2>3 DEF Tiled, n, End
    <2>7. Ordered' /\ Joining'
        BY <2>3, <1>1 DEF Ordered, Joining
    <2>8. 0 % Alignment = 0
        BY OclAssumption
    <2>9. AllAligned'
        BY <2>2, <2>3, <2>8 DEF AllAligned
    <2>10. Held'
        <3>1. DOMAIN chunks' = {1}
            BY <2>3
        <3> QED
            BY <3>1, <2>2, <2>3, <2>4, <1>1 DEF Held
    <2>11. ContentKept'
        BY <2>4, <1>1 DEF ContentKept
    <2> QED
        BY <2>5, <2>6, <2>7, <2>9, <2>10, <2>11 DEF Inv
<1> QED
    BY <1>2, <1>3

LEMMA WriteKeeps ==
    ASSUME Inv, NEW b \in live, NEW t \in Tag, Write(b, t)
    PROVE  Inv'
<1> DEFINE w == [b EXCEPT !.tag = t]
<1>1. /\ live' = (live \ {b}) \cup {w} /\ UNCHANGED <<phase, handle, objects, setups, chunks, iter>>
      /\ content' = [p \in DOMAIN content |-> IF p \in b.offset..b.offset + b.size - 1 THEN t ELSE content[p]]
    BY DEF Write
<1>2. b \in [offset : Nat, size : Nat \ {0}, tag : Tag \cup {"none"}]
    BY DEF Inv, Typed
<1>3. /\ w \in [offset : Nat, size : Nat \ {0}, tag : Tag \cup {"none"}]
      /\ w.offset = b.offset /\ w.size = b.size /\ w.tag = t
    BY <1>2
<1> HIDE DEF w
<1>4. DOMAIN content = 0..MemSize - 1
    BY DEF Inv, Typed
<1>5. Typed'
    BY <1>1, <1>3, <1>4 DEF Inv, Typed, n
<1>6. Used' /\ Tiled' /\ Ordered' /\ Joining' /\ AllAligned'
    BY <1>1 DEF Write, Inv, Used, Tiled, Ordered, Joining, AllAligned, n, End
<1>7. \A c \in live : c # b => c.offset # b.offset
    BY DEF Inv, Held
<1>8. Held'
    BY <1>1, <1>3, <1>7 DEF Inv, Held, Aligned
<1>9. ContentKept'
    <2>1. ASSUME NEW c \in live, c # b, NEW p \in c.offset..c.offset + c.size - 1
          PROVE  content'[p] = c.tag
        <3>1. p \in DOMAIN content /\ p \notin b.offset..b.offset + b.size - 1
            <4>1. /\ b.offset \in Nat /\ b.size \in Nat /\ c.offset \in Nat /\ c.size \in Nat
                  /\ c.offset + c.size <= MemSize
                BY Ranges
            <4>2. b.offset + b.size <= c.offset \/ c.offset + c.size <= b.offset
                BY <2>1, RangesApart
            <4> QED
                BY <4>1, <4>2, <1>4, OclAssumption
        <3>2. content[p] = c.tag
            BY DEF Inv, ContentKept
        <3> QED
            BY <3>1, <3>2, <1>1
    <2>2. ASSUME NEW p \in b.offset..b.offset + b.size - 1
          PROVE  content'[p] = t
        <3>1. p \in DOMAIN content
            BY <1>4, Ranges, OclAssumption
        <3> QED
            BY <3>1, <1>1
    <2> QED
        BY <2>1, <2>2, <1>1, <1>3 DEF ContentKept
<1> QED
    BY <1>5, <1>6, <1>8, <1>9 DEF Inv

\* A caller holds the chunk at its offset, and the search of free() finds it.
LEMMA FreeFinds ==
    ASSUME Inv, NEW b \in live, NEW i \in 1..n,
           chunks[i].offset >= b.offset, \A j \in 1..i - 1 : chunks[j].offset < b.offset
    PROVE  chunks[i].offset = b.offset /\ chunks[i].occupied
<1>1. PICK k \in 1..n : chunks[k].offset = b.offset /\ chunks[k].occupied
    BY Chunks DEF Inv, Held
<1>2. /\ n \in Nat /\ chunks[i] \in Chunk /\ chunks[k] \in Chunk
    BY Chunks DEF Inv
<1>3. ~(k < i)
    BY <1>1, <1>2 DEF Chunk
<1>4. ~(i < k)
    <2>1. i < k => End(chunks[i]) <= chunks[k].offset
        BY DEF Inv, Ordered
    <2> QED
        BY <2>1, <1>1, <1>2 DEF Chunk, End
<1> QED
    BY <1>1, <1>2, <1>3, <1>4

LEMMA FreeKeeps ==
    ASSUME Inv, NEW b \in live, Free(b)
    PROVE  Inv'
<1>1. PICK i \in 1..n : /\ chunks[i].offset = b.offset /\ chunks[i].occupied
                        /\ chunks' = [chunks EXCEPT ![i].occupied = FALSE] /\ iter' = FreeStart(i)
    BY FreeFinds, Chunks DEF Free, Inv
<1>2. /\ phase = "open" /\ iter = 0 /\ live' = live \ {b}
      /\ UNCHANGED <<phase, handle, objects, setups, content>>
    BY DEF Free
<1>3. n \in Nat /\ chunks \in Seq(Chunk) /\ \A j \in 1..n : chunks[j] \in Chunk
    BY Chunks DEF Inv, Typed
<1>4. /\ chunks' \in Seq(Chunk) /\ n' = n
      /\ \A j \in 1..n : /\ chunks'[j].offset = chunks[j].offset /\ chunks'[j].size = chunks[j].size
                         /\ chunks'[j].occupied <=> (chunks[j].occupied /\ j # i)
    <2> DEFINE c == [chunks[i] EXCEPT !.occupied = FALSE]
    <2>1. c \in Chunk /\ c.offset = chunks[i].offset /\ c.size = chunks[i].size /\ ~c.occupied
        BY <1>3 DEF Chunk
    <2>2. chunks' = [chunks EXCEPT ![i] = c]
        BY <1>1
    <2> HIDE DEF c
    <2>3. /\ chunks' \in Seq(Chunk) /\ Len(chunks') = Len(chunks)
          /\ \A j \in 1..Len(chunks) : chunks'[j] = IF j = i THEN c ELSE chunks[j]
        BY <2>1, <2>2, <1>3, ExceptSeq DEF n
    <2>4. \A j \in 1..n : chunks[j].occupied \in BOOLEAN
        BY <1>3 DEF Chunk
    <2> QED
        BY <2>1, <2>3, <2>4 DEF n
<1>5. iter' \in 1..n /\ (iter' = i \/ (i > 1 /\ iter' = i - 1 /\ ~chunks[i - 1].occupied))
    <2>1. iter' = FreeStart(i) /\ n \in Nat
        BY <1>1, <1>3
    <2> QED
        BY <2>1 DEF FreeStart
<1>6. Typed' /\ Used'
    <2>1. setups = 1
        <3>1. chunks # <<>>
            BY <1>3, EmptySeq DEF n
        <3> QED
            BY <3>1 DEF Inv, Used
    <2>2. live' \subseteq live /\ content' = content /\ iter' \in 0..n'
        BY <1>2, <1>4, <1>5
    <2> QED
        BY <2>1, <2>2, <1>2, <1>4 DEF Inv, Typed, Used
<1>7. Tiled' /\ Ordered' /\ AllAligned'
    <2>1. chunks # <<>> /\ DOMAIN chunks' = 1..n
        BY <1>3, <1>4, EmptySeq, LenProperties DEF n
    <2> QED
        BY <2>1, <1>3, <1>4 DEF Inv, Tiled, Ordered, AllAligned, n, End
<1>8. Joining'
    <2>1. ~chunks'[iter'].occupied
        BY <1>4, <1>5
    <2>2. ASSUME NEW j \in 1..n - 1, ~chunks'[j].occupied, ~chunks'[j + 1].occupied
          PROVE  j \in {iter', iter' + 1}
        <3>1. j = i \/ j + 1 = i
            BY <2>2, <1>2, <1>3, <1>4 DEF Inv, Joining
        <3>2. CASE j = i
            <4>1. i \in Int /\ (iter' = i \/ iter' = i - 1)
                BY <1>3, <1>5
            <4>2. CASE iter' = i
                BY <3>2, <4>2
            <4>3. CASE iter' = i - 1
                <5>1. iter' + 1 = i
                    BY <4>1, <4>3
                <5> QED
                    BY <3>2, <5>1
            <4> QED
                BY <4>1, <4>2, <4>3
        <3>3. CASE j + 1 = i
            <4>1. j \in 1..n /\ j # i /\ i > 1 /\ i - 1 = j
                BY <3>3, <1>3
            <4>2. ~chunks[j].occupied
                BY <4>1, <2>2, <1>4
            <4>3. iter' = j
                BY <4>1, <4>2, <1>1 DEF FreeStart
            <4> QED
                BY <4>3
        <3> QED
            BY <3>1, <3>2, <3>3
    <2>3. n' = n /\ iter' > 0
        BY <1>4, <1>5
    <2> QED
        BY <2>1, <2>2, <2>3 DEF Joining
<1>9. Held'
    <2>1. DOMAIN chunks' = 1..n /\ DOMAIN chunks = 1..n
        BY <1>3, <1>4, LenProperties DEF n
    <2>2. ASSUME NEW c \in live'
          PROVE  /\ c.offset % Alignment = 0
                 /\ \E j \in 1..n : /\ chunks'[j].offset = c.offset /\ chunks'[j].occupied
                                    /\ chunks'[j].size = Aligned(c.size)
        <3>1. PICK j \in 1..n : /\ chunks[j].offset = c.offset /\ chunks[j].occupied
                                /\ chunks[j].size = Aligned(c.size)
            BY <1>2, <2>1 DEF Inv, Held
        <3>2. j # i
            BY <3>1, <1>1, <1>2 DEF Inv, Held
        <3> QED
            BY <3>1, <3>2, <1>2, <1>4 DEF Inv, Held
    <2>3. \A c, d \in live' : c.offset = d.offset => c = d
        BY <1>2 DEF Inv, Held
    <2>4. ASSUME NEW j \in 1..n, chunks'[j].occupied
          PROVE  \E c \in live' : c.offset = chunks'[j].offset
        <3>1. chunks[j].occupied /\ j # i /\ chunks'[j].offset = chunks[j].offset
            BY <2>4, <1>4
        <3>2. PICK c \in live : c.offset = chunks[j].offset
            BY <3>1, <1>2, <2>1 DEF Inv, Held
        <3>3. chunks[i] \in Chunk /\ chunks[j] \in Chunk
            BY <1>3
        <3>4. chunks[j].offset # chunks[i].offset
            BY <3>1, <3>3, Apart DEF Chunk, End
        <3> QED
            BY <3>1, <3>2, <3>4, <1>1, <1>2
    <2> QED
        BY <2>1, <2>2, <2>3, <2>4 DEF Held, Aligned
<1>10. ContentKept'
    BY <1>2 DEF Inv, ContentKept
<1> QED
    BY <1>6, <1>7, <1>8, <1>9, <1>10 DEF Inv

--------------------------------------------------------------------------------
(* alloc.                                                                  *)

\* A free chunk that is large enough has room for the range, away from all others.
LEMMA FreeRange ==
    ASSUME Inv, NEW i \in 1..n, ~chunks[i].occupied, NEW size \in Nat \ {0},
           chunks[i].size >= Aligned(size)
    PROVE  /\ chunks[i].offset \in Nat /\ chunks[i].offset + size <= MemSize
           /\ \A c \in live : /\ c.offset # chunks[i].offset
                              /\ \/ c.offset + c.size <= chunks[i].offset
                                 \/ chunks[i].offset + size <= c.offset
<1>1. chunks[i] \in Chunk /\ Aligned(size) \in Nat /\ size <= Aligned(size)
    BY Chunks, AlignedUp DEF Inv
<1>2. chunks[i].offset + size <= End(chunks[i]) /\ End(chunks[i]) \in Nat
    BY <1>1 DEF End, Chunk
<1>3. chunks[i].offset + size <= MemSize
    BY <1>1, <1>2, Apart, OclAssumption DEF Chunk
<1>4. ASSUME NEW c \in live
      PROVE  /\ c.offset # chunks[i].offset
             /\ c.offset + c.size <= chunks[i].offset \/ chunks[i].offset + size <= c.offset
    <2>1. PICK j \in 1..n : /\ chunks[j].offset = c.offset /\ chunks[j].occupied
                            /\ c.offset + c.size <= End(chunks[j])
        BY Ranges
    <2>2. chunks[j] \in Chunk /\ i # j /\ c.offset \in Nat /\ c.size \in Nat
        BY <2>1, Chunks, Ranges DEF Inv
    <2>3. End(chunks[i]) <= chunks[j].offset \/ End(chunks[j]) <= chunks[i].offset
        BY <2>2, Apart
    <2> QED
        BY <1>1, <1>2, <2>1, <2>2, <2>3 DEF Chunk, End
<1> QED
    BY <1>1, <1>3, <1>4 DEF Chunk

LEMMA AllocKeepsContent ==
    ASSUME Inv, NEW i \in DOMAIN chunks, NEW size \in Sizes, Alloc(i, size)
    PROVE  ContentKept'
<1> DEFINE b == [offset |-> chunks[i].offset, size |-> size, tag |-> "none"]
<1>1. /\ i \in 1..n /\ ~chunks[i].occupied /\ chunks[i].size >= Aligned(size)
      /\ size \in Nat \ {0}
    BY Chunks, OclAssumption DEF Alloc, FirstFit, Inv
<1>2. DOMAIN content = 0..MemSize - 1
    BY DEF Inv, Typed
<1>3. /\ live' = live \cup {b}
      /\ content' = [p \in DOMAIN content |->
                       IF p \in chunks[i].offset..chunks[i].offset + size - 1 THEN "none" ELSE content[p]]
    BY DEF Alloc
<1>4. /\ chunks[i].offset \in Nat /\ chunks[i].offset + size <= MemSize
      /\ \A c \in live : \/ c.offset + c.size <= chunks[i].offset
                         \/ chunks[i].offset + size <= c.offset
    BY <1>1, FreeRange
<1>5. ASSUME NEW c \in live, NEW p \in c.offset..c.offset + c.size - 1
      PROVE  content'[p] = c.tag
    <2>1. c.offset \in Nat /\ c.size \in Nat /\ c.offset + c.size <= MemSize
        BY Ranges
    <2>2. p \in DOMAIN content /\ p \notin chunks[i].offset..chunks[i].offset + size - 1
        <3> DEFINE off == chunks[i].offset
        <3>1. off \in Nat /\ (c.offset + c.size <= off \/ off + size <= c.offset)
            BY <1>4
        <3> HIDE DEF off
        <3>2. p \in 0..MemSize - 1 /\ p \notin off..off + size - 1
            BY <2>1, <3>1, <1>1, OclAssumption
        <3> QED
            BY <3>2, <1>2 DEF off
    <2>3. content[p] = c.tag
        BY DEF Inv, ContentKept
    <2> QED
        BY <2>2, <2>3, <1>3
<1>6. ASSUME NEW p \in chunks[i].offset..chunks[i].offset + size - 1
      PROVE  content'[p] = "none"
    <2>1. p \in DOMAIN content
        BY <1>1, <1>2, <1>4, OclAssumption
    <2> QED
        BY <2>1, <1>3
<1>7. b.offset = chunks[i].offset /\ b.size = size /\ b.tag = "none"
    OBVIOUS
<1> HIDE DEF b
<1> QED
    BY <1>3, <1>5, <1>6, <1>7 DEF ContentKept

LEMMA AllocWhole ==
    ASSUME Inv, NEW i \in DOMAIN chunks, NEW size \in Sizes, Alloc(i, size),
           chunks[i].size = Aligned(size)
    PROVE  Inv'
<1> DEFINE b == [offset |-> chunks[i].offset, size |-> size, tag |-> "none"]
<1>1. /\ i \in 1..n /\ ~chunks[i].occupied /\ size \in Nat \ {0}
      /\ chunks' = [chunks EXCEPT ![i].occupied = TRUE] /\ live' = live \cup {b}
      /\ phase = "open" /\ iter = 0 /\ UNCHANGED <<phase, handle, objects, setups, iter>>
    BY Chunks, OclAssumption DEF Alloc, FirstFit, Inv
<1>2. n \in Nat /\ chunks \in Seq(Chunk) /\ \A j \in 1..n : chunks[j] \in Chunk
    BY Chunks DEF Inv, Typed
<1>3. /\ chunks' \in Seq(Chunk) /\ n' = n
      /\ \A j \in 1..n : /\ chunks'[j].offset = chunks[j].offset /\ chunks'[j].size = chunks[j].size
                         /\ chunks'[j].occupied <=> (chunks[j].occupied \/ j = i)
    <2> DEFINE c == [chunks[i] EXCEPT !.occupied = TRUE]
    <2>1. c \in Chunk /\ c.offset = chunks[i].offset /\ c.size = chunks[i].size /\ c.occupied
        BY <1>1, <1>2 DEF Chunk
    <2>2. chunks' = [chunks EXCEPT ![i] = c]
        BY <1>1
    <2> HIDE DEF c
    <2>3. /\ chunks' \in Seq(Chunk) /\ Len(chunks') = Len(chunks)
          /\ \A j \in 1..Len(chunks) : chunks'[j] = IF j = i THEN c ELSE chunks[j]
        BY <2>1, <2>2, <1>1, <1>2, ExceptSeq DEF n
    <2> QED
        BY <2>1, <2>3 DEF n
<1>4. b.offset = chunks[i].offset /\ b.size = size /\ b.tag = "none"
    OBVIOUS
<1>5. b \in [offset : Nat, size : Nat \ {0}, tag : Tag \cup {"none"}]
    BY <1>1, <1>2 DEF Chunk
<1> HIDE DEF b
<1>6. Typed' /\ Used'
    <2>1. setups = 1
        <3>1. chunks # <<>>
            BY <1>1, <1>2, EmptySeq DEF n
        <3> QED
            BY <3>1 DEF Inv, Used
    <2>2. content' = [p \in 0..MemSize - 1 |-> content'[p]]
        BY DEF Alloc, Inv, Typed
    <2>3. live' \subseteq [offset : Nat, size : Nat \ {0}, tag : Tag \cup {"none"}]
        BY <1>1, <1>5 DEF Inv, Typed
    <2> QED
        BY <2>1, <2>2, <2>3, <1>1, <1>3 DEF Inv, Typed, Used
<1>7. Tiled' /\ Ordered' /\ AllAligned'
    <2>1. chunks # <<>>
        BY <1>1, <1>2, EmptySeq DEF n
    <2> QED
        BY <2>1, <1>1, <1>2, <1>3 DEF Inv, Tiled, Ordered, AllAligned, n, End
<1>8. Joining'
    BY <1>1, <1>2, <1>3 DEF Inv, Joining
<1>9. Held'
    <2>1. DOMAIN chunks' = 1..n /\ DOMAIN chunks = 1..n
        BY <1>2, <1>3, LenProperties DEF n
    <2>2. ASSUME NEW c \in live
          PROVE  /\ c.offset % Alignment = 0 /\ c.offset # b.offset
                 /\ \E j \in 1..n : /\ chunks'[j].offset = c.offset /\ chunks'[j].occupied
                                    /\ chunks'[j].size = Aligned(c.size)
        <3>1. PICK j \in 1..n : /\ chunks[j].offset = c.offset /\ chunks[j].occupied
                                /\ chunks[j].size = Aligned(c.size)
            BY <2>1 DEF Inv, Held
        <3>2. c.offset # b.offset
            <4>1. chunks[i].size >= Aligned(size)
                BY <1>1, <1>2 DEF Chunk
            <4>2. c.offset # chunks[i].offset
                BY <1>1, <4>1, FreeRange
            <4> QED
                BY <1>4, <4>2
        <3>3. chunks'[j].offset = c.offset /\ chunks'[j].occupied /\ chunks'[j].size = Aligned(c.size)
            BY <3>1, <1>3
        <3>4. c.offset % Alignment = 0
            BY DEF Inv, Held
        <3> QED
            BY <3>2, <3>3, <3>4
    <2>3. /\ b.offset % Alignment = 0
          /\ chunks'[i].offset = b.offset /\ chunks'[i].occupied /\ chunks'[i].size = Aligned(b.size)
        BY <1>1, <1>3, <1>4 DEF Inv, AllAligned
    <2>4. \A c, d \in live' : c.offset = d.offset => c = d
        BY <2>2, <1>1 DEF Inv, Held
    <2>5. ASSUME NEW j \in 1..n, chunks'[j].occupied
          PROVE  \E c \in live' : c.offset = chunks'[j].offset
        BY <2>1, <2>3, <2>5, <1>1, <1>3 DEF Inv, Held
    <2> QED
        BY <2>1, <2>2, <2>3, <2>4, <2>5, <1>1 DEF Held, Aligned
<1> QED
    BY <1>6, <1>7, <1>8, <1>9, AllocKeepsContent DEF Inv

\* Split, seen from the chunks there were: o(k) is where chunk k comes from.
LEMMA AllocSplit ==
    ASSUME Inv, NEW i \in DOMAIN chunks, NEW size \in Sizes, Alloc(i, size),
           chunks[i].size # Aligned(size)
    PROVE  Inv'
<1> DEFINE b == [offset |-> chunks[i].offset, size |-> size, tag |-> "none"]
           a == Aligned(size)
           o(k) == IF k <= i THEN k ELSE k - 1
<1>1. /\ i \in 1..n /\ ~chunks[i].occupied /\ size \in Nat \ {0} /\ chunks[i].size > a
      /\ chunks' = Split(i, a) /\ live' = live \cup {b}
      /\ phase = "open" /\ iter = 0 /\ UNCHANGED <<phase, handle, objects, setups, iter>>
    <2>1. i \in 1..n /\ size \in Nat \ {0} /\ chunks[i].size \in Nat
        BY Chunks, OclAssumption DEF Inv, Chunk
    <2>2. a \in Nat
        BY <2>1, AlignedUp
    <2> QED
        BY <2>1, <2>2 DEF Alloc, FirstFit
<1>2. n \in Nat /\ chunks \in Seq(Chunk) /\ \A j \in 1..n : chunks[j] \in Chunk
    BY Chunks DEF Inv, Typed
<1>3. a \in Nat \ {0} /\ size <= a /\ a % Alignment = 0
    BY <1>1, AlignedUp
<1>4. b.offset = chunks[i].offset /\ b.size = size /\ b.tag = "none"
    OBVIOUS
<1>5. b \in [offset : Nat, size : Nat \ {0}, tag : Tag \cup {"none"}]
    BY <1>1, <1>2 DEF Chunk
<1> HIDE DEF b, a
<1>6. /\ Taken(i, a) \in Chunk /\ Taken(i, a).offset = chunks[i].offset
      /\ Taken(i, a).size = a /\ Taken(i, a).occupied
      /\ Rest(i, a) \in Chunk /\ Rest(i, a).offset = chunks[i].offset + a
      /\ Rest(i, a).size = chunks[i].size - a /\ ~Rest(i, a).occupied
    <2>1. chunks[i] \in Chunk /\ chunks[i].size - a \in Nat \ {0} /\ chunks[i].offset + a \in Nat
        BY <1>1, <1>2, <1>3 DEF Chunk
    <2>2. /\ Taken(i, a) \in Chunk /\ Taken(i, a).offset = chunks[i].offset
          /\ Taken(i, a).size = a /\ Taken(i, a).occupied
        BY <2>1, <1>3 DEF Taken, Chunk
    <2>3. /\ Rest(i, a) \in Chunk /\ Rest(i, a).offset = chunks[i].offset + a
          /\ Rest(i, a).size = chunks[i].size - a /\ ~Rest(i, a).occupied
        BY <2>1 DEF Rest, Chunk
    <2> QED
        BY <2>2, <2>3
<1>7. /\ chunks' \in Seq(Chunk) /\ n' = n + 1
      /\ chunks'[i] = Taken(i, a) /\ chunks'[i + 1] = Rest(i, a)
      /\ \A k \in 1..n + 1 : /\ k < i => chunks'[k] = chunks[k]
                             /\ k > i + 1 => chunks'[k] = chunks[k - 1]
    <2>1. chunks' = [k \in 1..n + 1 |-> IF k < i THEN chunks[k] ELSE IF k = i THEN Taken(i, a)
                                        ELSE IF k = i + 1 THEN Rest(i, a) ELSE chunks[k - 1]]
        BY <1>1 DEF Split, n
    <2>2. /\ \A k \in 1..n + 1 : (k < i => k \in 1..n) /\ (k > i + 1 => k - 1 \in 1..n)
          /\ i \in 1..n + 1 /\ i + 1 \in 1..n + 1
        BY <1>1, <1>2
    <2>3. chunks' \in [1..n + 1 -> Chunk]
        BY <2>1, <2>2, <1>1, <1>2, <1>6
    <2>4. chunks' \in Seq(Chunk) /\ n' = n + 1
        BY <2>3, <1>2, FunctionIsSeq DEF n
    <2>5. chunks'[i] = Taken(i, a) /\ chunks'[i + 1] = Rest(i, a)
        BY <2>1, <2>2, <1>1, <1>2
    <2>6. ASSUME NEW k \in 1..n + 1
          PROVE  /\ k < i => chunks'[k] = chunks[k]
                 /\ k > i + 1 => chunks'[k] = chunks[k - 1]
        BY <2>1, <2>2, <1>1, <1>2
    <2> QED
        BY <2>4, <2>5, <2>6
<1>16. /\ i \in 1..n /\ n \in Nat
       /\ \A k \in 1..n + 1 : /\ k < i => chunks'[k] = chunks[k]
                              /\ k > i + 1 => chunks'[k] = chunks[k - 1]
    BY <1>1, <1>2, <1>7
<1>8. \A k \in 1..n + 1 : /\ o(k) \in 1..n
                          /\ chunks'[k].offset >= chunks[o(k)].offset
                          /\ End(chunks'[k]) <= End(chunks[o(k)])
                          /\ chunks'[k].offset \in Nat /\ End(chunks'[k]) \in Nat
    <2>1. ASSUME NEW k \in 1..n + 1
          PROVE  /\ o(k) \in 1..n
                 /\ chunks'[k].offset >= chunks[o(k)].offset
                 /\ End(chunks'[k]) <= End(chunks[o(k)])
                 /\ chunks'[k].offset \in Nat /\ End(chunks'[k]) \in Nat
        <3>1. CASE k = i \/ k = i + 1
            <4>1. o(k) = i
                BY <3>1, <1>1, <1>2
            <4>2. chunks'[k] = Taken(i, a) \/ chunks'[k] = Rest(i, a)
                BY <3>1, <1>7
            <4> HIDE DEF o
            <4>3. chunks[i] \in Chunk /\ chunks[i].size > a
                BY <1>1, <1>2
            <4>4. CASE chunks'[k] = Taken(i, a)
                BY <4>1, <4>3, <4>4, <1>1, <1>3, <1>6 DEF Chunk, End
            <4>5. CASE chunks'[k] = Rest(i, a)
                BY <4>1, <4>3, <4>5, <1>1, <1>3, <1>6 DEF Chunk, End
            <4> QED
                BY <4>2, <4>4, <4>5
        <3>3. CASE k \notin {i, i + 1}
            <4>1. chunks'[k] = chunks[o(k)] /\ o(k) \in 1..n
                BY <3>3, <1>16
            <4>2. chunks[o(k)] \in Chunk
                BY <4>1, <1>2
            <4> HIDE DEF o
            <4> QED
                BY <4>1, <4>2 DEF Chunk, End
        <3> QED
            BY <3>1, <3>3
    <2> QED
        BY <2>1
<1>9. End(chunks'[i]) = chunks'[i + 1].offset /\ End(chunks'[i + 1]) = End(chunks[i])
    <2>1. chunks[i].offset \in Nat /\ chunks[i].size \in Nat
        BY <1>1, <1>2 DEF Chunk
    <2> QED
        BY <2>1, <1>3, <1>6, <1>7 DEF End
<1>10. Typed' /\ Used'
    <2>1. setups = 1
        <3>1. chunks # <<>>
            BY <1>1, <1>2, EmptySeq DEF n
        <3> QED
            BY <3>1 DEF Inv, Used
    <2>2. content' = [p \in 0..MemSize - 1 |-> content'[p]]
        BY DEF Alloc, Inv, Typed
    <2>3. live' \subseteq [offset : Nat, size : Nat \ {0}, tag : Tag \cup {"none"}]
        BY <1>1, <1>5 DEF Inv, Typed
    <2> QED
        BY <2>1, <2>2, <2>3, <1>1, <1>2, <1>7 DEF Inv, Typed, Used
<1>11. Ordered'
    <2>1. ASSUME NEW j \in 1..n + 1, NEW k \in 1..n + 1, j < k
          PROVE  End(chunks'[j]) <= chunks'[k].offset
        <3>1. CASE o(j) = o(k)
            <4>1. j = i /\ k = i + 1
                BY <2>1, <3>1, <1>1, <1>2
            <4> QED
                BY <4>1, <1>8, <1>9
        <3>2. CASE o(j) # o(k)
            <4>1. o(j) < o(k)
                BY <2>1, <3>2, <1>1, <1>2
            <4> HIDE DEF o
            <4>2. o(j) \in 1..n /\ o(k) \in 1..n
                BY <1>8
            <4>3. End(chunks[o(j)]) <= chunks[o(k)].offset
                BY <4>1, <4>2 DEF Inv, Ordered
            <4>4. chunks[o(j)] \in Chunk /\ chunks[o(k)] \in Chunk
                BY <4>2, <1>2
            <4> QED
                BY <4>3, <4>4, <1>8 DEF Chunk, End
        <3> QED
            BY <3>1, <3>2
    <2> QED
        BY <2>1, <1>7 DEF Ordered, End
<1>12. Tiled'
    <2>1. chunks # <<>> /\ n \in Nat \ {0}
        BY <1>1, <1>2, EmptySeq DEF n
    <2>2. chunks'[1].offset = 0
        <3>1. chunks[1].offset = 0
            BY <2>1 DEF Inv, Tiled
        <3>2. CASE i = 1
            BY <3>1, <3>2, <1>6, <1>7
        <3>3. CASE i # 1
            <4>1. chunks'[1] = chunks[1]
                BY <3>3, <1>16
            <4> QED
                BY <3>1, <4>1
        <3> QED
            BY <3>2, <3>3
    <2>3. End(chunks'[n + 1]) = MemSize
        <3>1. End(chunks[n]) = MemSize
            BY <2>1 DEF Inv, Tiled, n
        <3> QED
            BY <3>1, <2>1, <1>1, <1>2, <1>7, <1>9
    <2>4. ASSUME NEW k \in 1..n
          PROVE  chunks'[k + 1].offset = End(chunks'[k])
        <3>1. \A j \in 1..n - 1 : chunks[j + 1].offset = End(chunks[j])
            BY <2>1 DEF Inv, Tiled, n
        <3>2. CASE k < i - 1
            <4>1. chunks'[k] = chunks[k] /\ chunks'[k + 1] = chunks[k + 1] /\ k \in 1..n - 1
                BY <3>2, <1>16
            <4> QED
                BY <3>1, <4>1
        <3>3. CASE k = i - 1
            <4>1. chunks'[k] = chunks[k] /\ k \in 1..n - 1 /\ k + 1 = i
                BY <3>3, <1>16
            <4>2. chunks'[i].offset = chunks[i].offset
                BY <1>6, <1>7
            <4> QED
                BY <3>1, <4>1, <4>2
        <3>4. CASE k = i
            BY <3>4, <1>9
        <3>5. CASE k = i + 1
            <4>1. chunks'[k + 1] = chunks[i + 1] /\ i \in 1..n - 1
                BY <3>5, <1>16
            <4> QED
                BY <3>1, <3>5, <4>1, <1>9
        <3>6. CASE k > i + 1
            <4>1. chunks'[k] = chunks[k - 1] /\ chunks'[k + 1] = chunks[k] /\ k - 1 \in 1..n - 1
                BY <3>6, <1>16
            <4> QED
                BY <3>1, <4>1
        <3> QED
            BY <3>2, <3>3, <3>4, <3>5, <3>6, <1>1, <1>2
    <2>5. n' = Len(chunks') /\ n' = n + 1
        BY <1>7 DEF n
    <2> QED
        BY <2>2, <2>3, <2>4, <2>5, <1>2 DEF Tiled, End
<1>13. AllAligned'
    <2>1. ASSUME NEW k \in 1..n + 1
          PROVE  chunks'[k].offset % Alignment = 0
        <3>1. CASE k = i + 1
            <4>1. chunks[i].offset % Alignment = 0 /\ chunks[i].offset \in Nat
                BY <1>1, <1>2 DEF Inv, AllAligned, Chunk
            <4> QED
                BY <3>1, <4>1, <1>3, <1>6, <1>7, MultiplesAdd, OclAssumption
        <3>2. CASE k # i + 1
            <4>1. o(k) \in 1..n /\ (k # i => chunks'[k] = chunks[o(k)]) /\ (k = i => o(k) = i)
                BY <3>2, <1>16
            <4> HIDE DEF o
            <4> QED
                BY <4>1, <1>6, <1>7 DEF Inv, AllAligned
        <3> QED
            BY <3>1, <3>2
    <2> QED
        BY <2>1, <1>7 DEF AllAligned
<1>14. Joining'
    <2>1. ASSUME NEW k \in 1..n
          PROVE  chunks'[k].occupied \/ chunks'[k + 1].occupied
        <3>1. \A j \in 1..n - 1 : chunks[j].occupied \/ chunks[j + 1].occupied
            BY <1>1 DEF Inv, Joining
        <3>2. CASE k < i - 1
            <4>1. chunks'[k] = chunks[k] /\ chunks'[k + 1] = chunks[k + 1] /\ k \in 1..n - 1
                BY <3>2, <1>16
            <4> QED
                BY <3>1, <4>1
        <3>3. CASE k = i - 1 \/ k = i
            BY <3>3, <1>1, <1>2, <1>6, <1>7
        <3>4. CASE k = i + 1
            <4>1. chunks'[k + 1] = chunks[i + 1] /\ i \in 1..n - 1
                BY <3>4, <1>16
            <4> QED
                BY <3>1, <4>1, <1>1
        <3>5. CASE k > i + 1
            <4>1. chunks'[k] = chunks[k - 1] /\ chunks'[k + 1] = chunks[k] /\ k - 1 \in 1..n - 1
                BY <3>5, <1>16
            <4> QED
                BY <3>1, <4>1
        <3> QED
            BY <3>2, <3>3, <3>4, <3>5, <1>1, <1>2
    <2> QED
        BY <2>1, <1>1, <1>2, <1>7 DEF Joining
<1>15. Held'
    <2>1. DOMAIN chunks' = 1..n + 1 /\ DOMAIN chunks = 1..n
        BY <1>2, <1>7, LenProperties DEF n
    <2>2. ASSUME NEW c \in live
          PROVE  /\ c.offset % Alignment = 0 /\ c.offset # b.offset
                 /\ \E j \in 1..n + 1 : /\ chunks'[j].offset = c.offset /\ chunks'[j].occupied
                                        /\ chunks'[j].size = Aligned(c.size)
        <3>1. PICK j \in 1..n : /\ chunks[j].offset = c.offset /\ chunks[j].occupied
                                /\ chunks[j].size = Aligned(c.size)
            BY <2>1 DEF Inv, Held
        <3>2. c.offset # b.offset
            <4>1. chunks[i].size >= Aligned(size)
                BY <1>1, <1>2, <1>3 DEF Chunk, a
            <4> QED
                BY <4>1, <1>1, <1>4, FreeRange
        <3>3. PICK k \in 1..n + 1 : chunks'[k] = chunks[j]
            <4>1. j # i
                BY <3>1, <1>1
            <4>2. CASE j < i
                <5>1. j \in 1..n + 1 /\ chunks'[j] = chunks[j]
                    BY <4>2, <1>16
                <5> QED
                    BY <5>1
            <4>3. CASE j > i
                <5>1. j + 1 \in 1..n + 1 /\ chunks'[j + 1] = chunks[j]
                    BY <4>3, <1>16
                <5> QED
                    BY <5>1
            <4> QED
                BY <4>1, <4>2, <4>3, <1>16
        <3> QED
            BY <3>1, <3>2, <3>3 DEF Inv, Held
    <2>3. /\ b.offset % Alignment = 0 /\ i \in 1..n + 1
          /\ chunks'[i].offset = b.offset /\ chunks'[i].occupied /\ chunks'[i].size = Aligned(b.size)
        BY <1>1, <1>2, <1>4, <1>6, <1>7 DEF Inv, AllAligned, a
    <2>4. \A c, d \in live' : c.offset = d.offset => c = d
        BY <2>2, <1>1 DEF Inv, Held
    <2>5. ASSUME NEW k \in 1..n + 1, chunks'[k].occupied
          PROVE  \E c \in live' : c.offset = chunks'[k].offset
        <3>1. k # i + 1
            BY <2>5, <1>6, <1>7
        <3>2. CASE k = i
            BY <3>2, <2>3, <1>1
        <3>3. CASE k # i
            <4>1. chunks'[k] = chunks[o(k)] /\ o(k) \in 1..n
                BY <3>1, <3>3, <1>16
            <4> HIDE DEF o
            <4> QED
                BY <4>1, <2>1, <2>5, <1>1 DEF Inv, Held
        <3> QED
            BY <3>2, <3>3
    <2> QED
        BY <2>1, <2>2, <2>3, <2>4, <2>5, <1>1 DEF Held, Aligned
<1> QED
    BY <1>10, <1>11, <1>12, <1>13, <1>14, <1>15, AllocKeepsContent DEF Inv
--------------------------------------------------------------------------------
(* The joining loop of free.                                               *)

LEMMA JoinStops ==
    ASSUME Inv, iter > 0, ~Joins, iter' = 0,
           UNCHANGED <<chunks, phase, handle, objects, setups, live, content>>
    PROVE  Inv'
<1>1. n \in Nat /\ n' = n /\ iter \in 1..n
    BY Chunks DEF Inv, Typed, n
<1>2. Typed' /\ Used' /\ Tiled' /\ Ordered' /\ AllAligned'
    BY <1>1 DEF Inv, Typed, Used, Tiled, Ordered, AllAligned, End
<1>3. Held' /\ ContentKept'
    BY DEF Inv, Held, ContentKept, Aligned
<1>4. ASSUME NEW k \in 1..n - 1
      PROVE  chunks[k].occupied \/ chunks[k + 1].occupied
    <2>1. chunks[k].occupied \/ chunks[k + 1].occupied \/ k = iter \/ k = iter + 1
        BY DEF Inv, Joining
    <2>2. iter < n => chunks[iter + 1].occupied
        BY DEF Joins, n
    <2> QED
        BY <2>1, <2>2, <1>1
<1>5. Joining'
    BY <1>1, <1>4 DEF Joining
<1> QED
    BY <1>2, <1>3, <1>5 DEF Inv

\* Chunk k is made of the chunks lo(k) to hi(k) there were.
LEMMA JoinGoesOn ==
    ASSUME Inv, iter > 0, Joins, Join
    PROVE  Inv'
<1> DEFINE lo(k) == IF k <= iter THEN k ELSE k + 1
           hi(k) == IF k < iter THEN k ELSE k + 1
           joined == [chunks[iter] EXCEPT !.size = @ + chunks[iter + 1].size]
<1>1. n \in Nat /\ chunks \in Seq(Chunk) /\ \A j \in 1..n : chunks[j] \in Chunk
    BY Chunks DEF Inv, Typed
<1>2. /\ iter \in 1..n - 1 /\ ~chunks[iter].occupied /\ ~chunks[iter + 1].occupied
      /\ UNCHANGED <<iter, phase, handle, objects, setups, live, content>>
      /\ chunks' = [k \in 1..n - 1 |-> IF k < iter THEN chunks[k]
                                       ELSE IF k = iter THEN joined ELSE chunks[k + 1]]
    <2>1. iter \in 0..n
        BY DEF Inv, Typed
    <2>2. iter < n /\ ~chunks[iter + 1].occupied
        BY DEF Joins, n
    <2>3. ~chunks[iter].occupied
        BY DEF Inv, Joining
    <2> QED
        BY <1>1, <2>1, <2>2, <2>3 DEF Join, n
<1>3. iter \in 1..n /\ iter + 1 \in 1..n
    BY <1>1, <1>2
<1>4. /\ joined \in Chunk /\ joined.offset = chunks[iter].offset
      /\ joined.size = chunks[iter].size + chunks[iter + 1].size /\ ~joined.occupied
    <2>1. chunks[iter] \in Chunk /\ chunks[iter + 1] \in Chunk
        BY <1>1, <1>3
    <2> QED
        BY <2>1, <1>2 DEF Chunk
<1> HIDE DEF joined
<1>5. chunks # <<>> /\ \A k \in 1..n - 1 : chunks[k + 1].offset = End(chunks[k])
    <2>1. chunks # <<>>
        BY <1>1, <1>3, EmptySeq DEF n
    <2> QED
        BY <2>1 DEF Inv, Tiled, n
<1>6. End(joined) = End(chunks[iter + 1])
    <2>1. chunks[iter + 1].offset = End(chunks[iter])
        BY <1>2, <1>5
    <2>2. chunks[iter] \in Chunk /\ chunks[iter + 1] \in Chunk
        BY <1>1, <1>3
    <2> QED
        BY <2>1, <2>2, <1>4 DEF End, Chunk
<1>7. chunks' \in Seq(Chunk) /\ n' = n - 1
    <2>1. chunks' \in [1..n - 1 -> Chunk]
        <3>1. \A k \in 1..n - 1 : k \in 1..n /\ k + 1 \in 1..n
            BY <1>1
        <3> QED
            BY <3>1, <1>1, <1>2, <1>4
    <2>2. n - 1 \in Nat
        BY <1>1, <1>2
    <2> QED
        BY <2>1, <2>2, FunctionIsSeq DEF n
<1>8. /\ n \in Nat /\ iter \in 1..n - 1
      /\ \A k \in 1..n - 1 : chunks'[k] = IF k < iter THEN chunks[k]
                                          ELSE IF k = iter THEN joined ELSE chunks[k + 1]
    BY <1>1, <1>2
<1>9. ASSUME NEW k \in 1..n - 1
      PROVE  /\ lo(k) \in 1..n /\ hi(k) \in 1..n /\ hi(k + 1) >= lo(k + 1) /\ lo(k + 1) = hi(k) + 1
             /\ chunks'[k].offset = chunks[lo(k)].offset
             /\ End(chunks'[k]) = End(chunks[hi(k)])
    <2>1. lo(k) \in 1..n /\ hi(k) \in 1..n /\ hi(k + 1) >= lo(k + 1) /\ lo(k + 1) = hi(k) + 1
        BY <1>8
    <2>2. CASE k = iter
        <3>1. chunks'[k] = joined /\ lo(k) = iter /\ hi(k) = iter + 1
            BY <2>2, <1>8
        <3> QED
            BY <2>1, <3>1, <1>4, <1>6
    <2>3. CASE k # iter
        <3>1. chunks'[k] = chunks[lo(k)] /\ lo(k) = hi(k)
            BY <2>3, <1>8
        <3> HIDE DEF lo, hi
        <3> QED
            BY <2>1, <3>1
    <2> QED
        BY <2>2, <2>3
<1>10. Typed' /\ Used'
    <2>1. setups = 1
        BY <1>5 DEF Inv, Used
    <2> QED
        BY <2>1, <1>1, <1>2, <1>7 DEF Inv, Typed, Used
<1>11. Ordered'
    <2>1. ASSUME NEW j \in 1..n - 1, NEW k \in 1..n - 1, j < k
          PROVE  End(chunks'[j]) <= chunks'[k].offset
        <3>1. hi(j) < lo(k)
            BY <2>1, <1>8
        <3>2. /\ hi(j) \in 1..n /\ lo(k) \in 1..n /\ End(chunks'[j]) = End(chunks[hi(j)])
              /\ chunks'[k].offset = chunks[lo(k)].offset
            BY <1>9
        <3> HIDE DEF lo, hi
        <3> QED
            BY <3>1, <3>2 DEF Inv, Ordered
    <2> QED
        BY <2>1, <1>7 DEF Ordered, End
<1>12. Tiled'
    <2>1. chunks'[1].offset = 0
        <3>1. chunks[1].offset = 0 /\ 1 \in 1..n - 1 /\ lo(1) = 1
            BY <1>5, <1>8 DEF Inv, Tiled
        <3> QED
            BY <3>1, <1>9
    <2>2. End(chunks'[n - 1]) = MemSize
        <3>1. End(chunks[n]) = MemSize /\ n - 1 \in 1..n - 1 /\ hi(n - 1) = n
            BY <1>5, <1>8 DEF Inv, Tiled, n
        <3> QED
            BY <3>1, <1>9
    <2>3. ASSUME NEW k \in 1..n - 2
          PROVE  chunks'[k + 1].offset = End(chunks'[k])
        <3>1. k \in 1..n - 1 /\ k + 1 \in 1..n - 1
            BY <1>1
        <3>2. /\ chunks'[k + 1].offset = chunks[lo(k + 1)].offset /\ lo(k + 1) \in 1..n
              /\ End(chunks'[k]) = End(chunks[hi(k)]) /\ lo(k + 1) = hi(k) + 1 /\ hi(k) \in 1..n
            BY <3>1, <1>9
        <3> HIDE DEF lo, hi
        <3>3. hi(k) \in 1..n - 1
            BY <3>2, <1>1
        <3> QED
            BY <3>2, <3>3, <1>5
    <2>4. n' = Len(chunks') /\ n' = n - 1
        BY <1>7 DEF n
    <2> QED
        BY <2>1, <2>2, <2>3, <2>4, <1>1 DEF Tiled, End
<1>13. AllAligned'
    <2>1. ASSUME NEW k \in 1..n - 1
          PROVE  chunks'[k].offset % Alignment = 0
        <3>1. chunks'[k].offset = chunks[lo(k)].offset /\ lo(k) \in 1..n
            BY <1>9
        <3> HIDE DEF lo
        <3> QED
            BY <3>1 DEF Inv, AllAligned
    <2> QED
        BY <2>1, <1>7 DEF AllAligned
<1>14. Joining'
    <2>1. ~chunks'[iter].occupied
        BY <1>4, <1>8
    <2>2. ASSUME NEW k \in 1..n - 2, k # iter, k # iter + 1
          PROVE  chunks'[k].occupied \/ chunks'[k + 1].occupied
        <3>1. \A j \in 1..n - 1 : j # iter /\ j # iter + 1 => chunks[j].occupied \/ chunks[j + 1].occupied
            BY DEF Inv, Joining
        <3>2. CASE k + 1 < iter
            <4>1. chunks'[k] = chunks[k] /\ chunks'[k + 1] = chunks[k + 1] /\ k \in 1..n - 1
                BY <3>2, <1>8
            <4> QED
                BY <4>1, <3>1, <2>2
        <3>3. CASE k + 1 = iter
            <4>1. chunks'[k] = chunks[k] /\ k \in 1..n - 1
                BY <3>3, <1>8
            <4>2. chunks[k].occupied
                BY <4>1, <3>1, <3>3, <2>2, <1>2
            <4> QED
                BY <4>1, <4>2
        <3>4. CASE k > iter + 1
            <4>1. chunks'[k] = chunks[k + 1] /\ chunks'[k + 1] = chunks[k + 2]
                BY <3>4, <1>8
            <4>2. k + 1 \in 1..n - 1 /\ k + 1 # iter /\ k + 1 # iter + 1 /\ (k + 1) + 1 = k + 2
                BY <3>4, <1>8
            <4> QED
                BY <4>1, <4>2, <3>1
        <3> QED
            BY <3>2, <3>3, <3>4, <2>2, <1>8
    <2>3. n' = n - 1 /\ n' - 1 = n - 2 /\ iter' = iter /\ iter > 0
        BY <1>1, <1>2, <1>7, <1>8
    <2> QED
        BY <2>1, <2>2, <2>3 DEF Joining
<1>15. Held'
    <2>1. DOMAIN chunks' = 1..n - 1 /\ DOMAIN chunks = 1..n
        BY <1>1, <1>7, LenProperties DEF n
    <2>2. ASSUME NEW c \in live
          PROVE  \E j \in 1..n - 1 : /\ chunks'[j].offset = c.offset /\ chunks'[j].occupied
                                     /\ chunks'[j].size = Aligned(c.size)
        <3>1. PICK j \in 1..n : /\ chunks[j].offset = c.offset /\ chunks[j].occupied
                                /\ chunks[j].size = Aligned(c.size)
            BY <2>1 DEF Inv, Held
        <3>2. j # iter /\ j # iter + 1
            BY <3>1, <1>2
        <3>3. CASE j < iter
            <4>1. j \in 1..n - 1 /\ chunks'[j] = chunks[j]
                BY <3>3, <1>8
            <4> QED
                BY <4>1, <3>1
        <3>4. CASE j > iter + 1
            <4>1. j - 1 \in 1..n - 1 /\ chunks'[j - 1] = chunks[(j - 1) + 1] /\ (j - 1) + 1 = j
                BY <3>4, <1>8
            <4> QED
                BY <4>1, <3>1
        <3> QED
            BY <3>2, <3>3, <3>4, <1>8
    <2>3. ASSUME NEW k \in 1..n - 1, chunks'[k].occupied, phase = "open"
          PROVE  \E c \in live : c.offset = chunks'[k].offset
        <3>1. k # iter
            BY <2>3, <1>4, <1>8
        <3>2. chunks'[k] = chunks[lo(k)] /\ lo(k) \in 1..n
            BY <3>1, <1>8
        <3> HIDE DEF lo
        <3> QED
            BY <3>2, <2>1, <2>3 DEF Inv, Held
    <2> QED
        BY <2>1, <2>2, <2>3, <1>2 DEF Inv, Held, Aligned
<1>16. ContentKept'
    BY <1>2 DEF Inv, ContentKept
<1> QED
    BY <1>10, <1>11, <1>12, <1>13, <1>14, <1>15, <1>16 DEF Inv

--------------------------------------------------------------------------------
LEMMA NextKeeps == Inv /\ MaxSetups = 1 /\ [Next]_vars => Inv'
<1> SUFFICES ASSUME Inv, MaxSetups = 1, [Next]_vars
             PROVE  Inv'
    OBVIOUS
<1>1. CASE UNCHANGED vars
    BY <1>1, MemoryUntouched DEF vars, memory, Inv, Used
<1>2. CASE Open
    <2>1. phase = "closed" /\ UNCHANGED <<setups, memory>>
        BY <1>2 DEF Open
    <2>2. live = {} /\ iter = 0
        BY <2>1 DEF Inv, Used
    <2>3. setups = 0 /\ chunks = <<>>
        BY <2>1 DEF Inv, Used
    <2>4. phase' \in {"open", "aborted"} /\ setups' = 0 /\ live' = {} /\ iter' = 0 /\ chunks' = <<>>
        BY <1>2, <2>1, <2>2, <2>3 DEF Open, memory
    <2>5. Used'
        BY <2>4 DEF Used
    <2> QED
        BY <2>1, <2>3, <2>5, MemoryUntouched
<1>3. CASE Join
    <2>1. CASE Joins
        BY <1>3, <2>1, JoinGoesOn DEF Join
    <2>2. CASE ~Joins
        BY <1>3, <2>2, JoinStops DEF Join
    <2> QED
        BY <2>1, <2>2
<1>4. CASE Deinit
    <2>1. phase' = "exited" /\ live' = {} /\ iter = 0 /\ UNCHANGED <<setups, chunks, iter, content>>
        BY <1>4 DEF Deinit
    <2>2. n' = n
        BY <2>1 DEF n
    <2> QED
        BY <2>1, <2>2 DEF Inv, Typed, Used, Tiled, Ordered, Joining, AllAligned, Held, ContentKept, End
<1>5. CASE \E made \in 0..4 : Setup(made)
    BY <1>5, SetupKeeps
<1>6. CASE \E i \in DOMAIN chunks, size \in Sizes : Alloc(i, size)
    BY <1>6, AllocWhole, AllocSplit
<1>7. CASE \E b \in live : Free(b) \/ \E t \in Tag : Write(b, t)
    BY <1>7, FreeKeeps, WriteKeeps
<1> QED
    BY <1>1, <1>2, <1>3, <1>4, <1>5, <1>6, <1>7 DEF Next

LEMMA InvHolds == MaxSetups = 1 => (Spec => []Inv)
<1> SUFFICES ASSUME MaxSetups = 1
             PROVE  Spec => []Inv
    OBVIOUS
<1>1. Inv /\ [Next]_vars => Inv'
    BY NextKeeps
<1> QED
    BY InitInv, <1>1, PTL DEF Spec

\* Set up once, the device's chunks tile the memory, and no two free ones stay
\* side by side.
THEOREM ChunksAlwaysTile == MaxSetups = 1 => (Spec => []ChunksTile)
<1>1. Inv => ChunksTile
    <2>1. Inv => Tiled
        BY DEF Inv
    <2>2. Inv => Coalesced
        BY DEF Inv, Joining, Coalesced, n
    <2> QED
        BY <2>1, <2>2 DEF ChunksTile
<1> QED
    BY <1>1, InvHolds, PTL

\* What is handed out is an occupied chunk of its own, and the other way round.
THEOREM RangesAreHeld == MaxSetups = 1 => (Spec => []Held)
<1>1. Inv => Held
    BY DEF Inv
<1> QED
    BY <1>1, InvHolds, PTL

\* A range keeps what its holder put there.
THEOREM ContentsAreKept == MaxSetups = 1 => (Spec => []ContentKept)
<1>1. Inv => ContentKept
    BY DEF Inv
<1> QED
    BY <1>1, InvHolds, PTL

--------------------------------------------------------------------------------
(* The objects of OpenCL.                                                  *)

\* Those that exist are the ones the handles name; before setup the context is
\* the only one.
Handled ==
    /\ objects \subseteq {<<k, handle[k]>> : k \in Kind}
    /\ setups = 0 => objects \subseteq {<<"context", handle["context"]>>}
    /\ phase \in {"closed", "exited"} => objects = {}
    /\ DOMAIN handle = Kind

LEMMA SetupHandles ==
    ASSUME Inv, Handled, MaxSetups = 1, NEW made \in 0..4, Setup(made)
    PROVE  Handled'
<1> DEFINE new == {Order[i] : i \in 1..made}
<1>1. /\ phase' = "open" /\ setups = 0 /\ setups' = 1
      /\ objects' = objects \cup {<<k, setups'>> : k \in new}
      /\ handle' = [k \in Kind |-> IF k \in new THEN setups'
                                  ELSE IF made < 4 /\ k = Order[made + 1] THEN 0 ELSE handle[k]]
    BY DEF Setup, Inv, Used
<1>2. \A i \in 1..4 : Order[i] \in Kind /\ Order[i] # "context"
    BY DEF Order, Kind
<1>3. new \subseteq Kind /\ "context" \notin new /\ "context" \in Kind
    BY <1>2 DEF Kind
<1>4. made < 4 => Order[made + 1] # "context"
    BY <1>2
<1> HIDE DEF new
<1>5. handle'["context"] = handle["context"] /\ \A k \in new : handle'[k] = setups'
    BY <1>1, <1>3, <1>4
<1>6. ASSUME NEW x \in objects'
      PROVE  x \in {<<k, handle'[k]>> : k \in Kind}
    <2>1. CASE x \in objects
        <3>1. x = <<"context", handle'["context"]>>
            BY <1>1, <1>5, <2>1 DEF Handled
        <3> QED
            BY <3>1, <1>3
    <2>2. CASE x \notin objects
        <3>1. PICK k \in new : x = <<k, setups'>>
            BY <1>1, <1>6, <2>2
        <3>2. k \in Kind /\ x = <<k, handle'[k]>>
            BY <1>3, <1>5, <3>1
        <3> QED
            BY <3>2
    <2> QED
        BY <2>1, <2>2
<1> QED
    BY <1>1, <1>6 DEF Handled

\* Wherever setup stopped, deinit releases every object there is: a handle that
\* setup did not reach is NULL, and one it made and did not keep does not exist.
THEOREM AllIsReleased == MaxSetups = 1 => (Spec => []AllReleased)
<1> SUFFICES ASSUME MaxSetups = 1
             PROVE  Spec => []AllReleased
    OBVIOUS
<1>1. Init => Handled
    BY DEF Init, Handled
<1>2. Inv /\ Handled /\ [Next]_vars => Handled'
    <2> SUFFICES ASSUME Inv, Handled, [Next]_vars
                 PROVE  Handled'
        OBVIOUS
    <2>1. CASE UNCHANGED <<phase, handle, objects, setups>>
        BY <2>1 DEF Handled
    <2>2. CASE Open
        <3>1. CASE UNCHANGED <<handle, objects>>
            BY <2>2, <3>1 DEF Open, Handled
        <3>2. CASE /\ phase' \in {"open", "aborted"} /\ handle' = [handle EXCEPT !["context"] = 1]
                   /\ objects' = {<<"context", 1>>}
            <4>1. "context" \in Kind
                BY DEF Kind
            <4>2. handle'["context"] = 1
                BY <3>2, <4>1 DEF Handled
            <4> QED
                BY <2>2, <3>2, <4>1, <4>2 DEF Handled
        <3> QED
            BY <2>2, <3>1, <3>2 DEF Open
    <2>3. CASE Deinit
        BY <2>3 DEF Deinit, Released, Handled
    <2>4. CASE \E made \in 0..4 : Setup(made)
        BY <2>4, SetupHandles
    <2>5. CASE Join
        BY <2>1, <2>5 DEF Join
    <2>6. CASE \E i \in DOMAIN chunks, size \in Sizes : Alloc(i, size)
        BY <2>1, <2>6 DEF Alloc
    <2>7. CASE \E b \in live : Free(b) \/ \E t \in Tag : Write(b, t)
        BY <2>1, <2>7 DEF Free, Write
    <2> QED
        BY <2>1, <2>2, <2>3, <2>4, <2>5, <2>6, <2>7 DEF Next, vars
<1>3. Handled => AllReleased
    BY DEF Handled, AllReleased
<1> QED
    BY <1>1, <1>2, <1>3, InvHolds, PTL DEF Spec
================================================================================
