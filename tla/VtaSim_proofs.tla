--------------------------- MODULE VtaSim_proofs ------------------------------
(***************************************************************************)
(* The host's instruction queue, for any number of calls, any order of     *)
(* them and any limit: instructions are routed as the runtime meant, and   *)
(* the tokens of a batch are those its calls asked for; and, when no batch *)
(* is cut, what is launched can be run to its end.  Then the queue with    *)
(* the simulated device behind it, which runs what is launched: what holds *)
(* of the queue (HostSpec) holds there (HostSide), and what Tlpp_proofs    *)
(* shows of well-formed streams holds of the batches.  Of batches that are *)
(* cut, what the host owes is what the device holds, and none gets stuck.  *)
(***************************************************************************)
EXTENDS VtaSim, FiniteSetTheorems, SequenceTheorems, TLAPS

\* The stages of a queue of tokens, and the core of a stage.
From == [l2g |-> 1, g2l |-> 2, s2g |-> 3, g2s |-> 2]
To   == [l2g |-> 2, g2l |-> 1, s2g |-> 2, g2s |-> 3]
On(insn, st) == GetCoreType(insn) = CoreOf[st]
Forward(k) == From[k] < To[k]

LEMMA Links ==
    /\ \A k \in Queue : /\ From[k] \in Stage /\ To[k] \in Stage /\ From[k] # To[k]
                        /\ LinkOf[k] = <<From[k], To[k]>> /\ LinkOf[k] \in Link
    /\ \A k, m \in Queue : From[k] = From[m] /\ To[k] = To[m] => k = m
    /\ \A k, m \in Queue : To[k] = To[m] /\ (Forward(k) <=> Forward(m)) => k = m
    /\ \A k, m \in Queue : From[k] = From[m] /\ (Forward(k) <=> Forward(m)) => k = m
    /\ \A l \in Link : \E k \in Queue : l = <<From[k], To[k]>>
    /\ \A k \in Queue : From[k] = 1 => To[k] = 2
    /\ \A k \in Queue : From[k] = 3 => To[k] = 2
    /\ \A k \in Queue : To[k] = 1 => ~Forward(k)
    /\ \A k \in Queue : To[k] = 3 => Forward(k)
<1>1. /\ From["l2g"] = 1 /\ From["g2l"] = 2 /\ From["s2g"] = 3 /\ From["g2s"] = 2
      /\ To["l2g"] = 2 /\ To["g2l"] = 1 /\ To["s2g"] = 2 /\ To["g2s"] = 3
    BY DEF From, To
<1>2. /\ LinkOf["l2g"] = <<1, 2>> /\ LinkOf["g2l"] = <<2, 1>>
      /\ LinkOf["s2g"] = <<3, 2>> /\ LinkOf["g2s"] = <<2, 3>>
    BY DEF LinkOf
<1>3. /\ Forward("l2g") /\ ~Forward("g2l") /\ ~Forward("s2g") /\ Forward("g2s")
    BY <1>1 DEF Forward
<1>4. \A k \in Queue : k \in {"l2g", "g2l", "s2g", "g2s"}
    BY DEF Queue
<1>5. "l2g" \in Queue /\ "g2l" \in Queue /\ "s2g" \in Queue /\ "g2s" \in Queue
    BY DEF Queue
<1>6. \A k \in Queue : /\ From[k] \in Stage /\ To[k] \in Stage /\ From[k] # To[k]
                       /\ LinkOf[k] = <<From[k], To[k]>> /\ LinkOf[k] \in Link
    BY <1>1, <1>2, <1>4 DEF Stage, LoadStage, StoreStage, Link
<1>7. \A l \in Link : \E k \in Queue : l = <<From[k], To[k]>>
    BY <1>1, <1>5 DEF Link
<1> QED
    BY <1>1, <1>3, <1>4, <1>6, <1>7

\* What the flags of an instruction say, by the stage that runs it.
LEMMA Flags ==
    ASSUME NEW insn \in Insn, NEW st \in Stage, On(insn, st), FlagsHaveQueues(insn), NEW k \in Queue
    PROVE  /\ k \in PopQueues(insn) <=>
                 To[k] = st /\ IF Forward(k) THEN insn.popPrev ELSE insn.popNext
           /\ k \in PushQueues(insn) <=>
                 From[k] = st /\ IF Forward(k) THEN insn.pushNext ELSE insn.pushPrev
<1>1. /\ From["l2g"] = 1 /\ From["g2l"] = 2 /\ From["s2g"] = 3 /\ From["g2s"] = 2
      /\ To["l2g"] = 2 /\ To["g2l"] = 1 /\ To["s2g"] = 2 /\ To["g2s"] = 3
    BY DEF From, To
<1>2. /\ Forward("l2g") /\ ~Forward("g2l") /\ ~Forward("s2g") /\ Forward("g2s")
    BY <1>1 DEF Forward
<1>3. st \in {1, 2, 3}
    BY DEF Stage, LoadStage, StoreStage
<1>4. k \in {"l2g", "g2l", "s2g", "g2s"}
    BY DEF Queue
<1>5. CASE st = 1
    <2>1. GetCoreType(insn) = "LOAD"
        BY <1>5 DEF On, CoreOf
    <2>2. ~insn.popPrev /\ ~insn.pushPrev
        BY <2>1 DEF FlagsHaveQueues, PopPrevQueue, PushPrevQueue
    <2>3. k \in PopQueues(insn) <=> insn.popNext /\ k = "g2l"
        BY <2>1, <2>2 DEF PopQueues, PopNextQueue
    <2>4. k \in PushQueues(insn) <=> insn.pushNext /\ k = "l2g"
        BY <2>1, <2>2 DEF PushQueues, PushNextQueue
    <2> QED
        BY <1>1, <1>2, <1>4, <1>5, <2>3, <2>4
<1>6. CASE st = 2
    <2>1. GetCoreType(insn) = "GEMM"
        BY <1>6 DEF On, CoreOf
    <2>3. k \in PopQueues(insn) <=> (insn.popPrev /\ k = "l2g") \/ (insn.popNext /\ k = "s2g")
        BY <2>1 DEF PopQueues, PopPrevQueue, PopNextQueue
    <2>4. k \in PushQueues(insn) <=> (insn.pushPrev /\ k = "g2l") \/ (insn.pushNext /\ k = "g2s")
        BY <2>1 DEF PushQueues, PushPrevQueue, PushNextQueue
    <2> QED
        BY <1>1, <1>2, <1>4, <1>6, <2>3, <2>4
<1>7. CASE st = 3
    <2>1. GetCoreType(insn) = "STORE"
        BY <1>7 DEF On, CoreOf
    <2>2. ~insn.popNext /\ ~insn.pushNext
        BY <2>1 DEF FlagsHaveQueues, PopNextQueue, PushNextQueue
    <2>3. k \in PopQueues(insn) <=> insn.popPrev /\ k = "g2s"
        BY <2>1, <2>2 DEF PopQueues, PopPrevQueue
    <2>4. k \in PushQueues(insn) <=> insn.pushPrev /\ k = "s2g"
        BY <2>1, <2>2 DEF PushQueues, PushPrevQueue
    <2> QED
        BY <1>1, <1>2, <1>4, <1>7, <2>3, <2>4
<1> QED
    BY <1>3, <1>5, <1>6, <1>7

\* An instruction of a stage that has only the flags its stage has queues for.
LEMMA HasQueues ==
    ASSUME NEW insn \in Insn, NEW st \in Stage, On(insn, st),
           st = 1 => ~insn.popPrev /\ ~insn.pushPrev,
           st = 3 => ~insn.popNext /\ ~insn.pushNext
    PROVE  FlagsHaveQueues(insn)
<1>1. st \in {1, 2, 3}
    BY DEF Stage, LoadStage, StoreStage
<1>2. CASE st = 1
    <2>1. GetCoreType(insn) = "LOAD"
        BY <1>2 DEF On, CoreOf
    <2> QED
        BY <1>2, <2>1 DEF FlagsHaveQueues, PopPrevQueue, PopNextQueue, PushPrevQueue, PushNextQueue
<1>3. CASE st = 2
    <2>1. GetCoreType(insn) = "GEMM"
        BY <1>3 DEF On, CoreOf
    <2> QED
        BY <2>1 DEF FlagsHaveQueues, PopPrevQueue, PopNextQueue, PushPrevQueue, PushNextQueue
<1>4. CASE st = 3
    <2>1. GetCoreType(insn) = "STORE"
        BY <1>4 DEF On, CoreOf
    <2> QED
        BY <1>4, <2>1 DEF FlagsHaveQueues, PopPrevQueue, PopNextQueue, PushPrevQueue, PushNextQueue
<1> QED
    BY <1>1, <1>2, <1>3, <1>4

--------------------------------------------------------------------------------
(* Streams: one instruction more, one flag more. *)

LEMMA Positions ==
    ASSUME NEW s \in Seq(Insn), NEW k \in Queue
    PROVE  /\ Len(s) \in Nat /\ DOMAIN s = 1..Len(s) /\ \A i \in DOMAIN s : s[i] \in Insn
           /\ Pushers(s, k) \subseteq 1..Len(s) /\ IsFiniteSet(Pushers(s, k))
           /\ Cardinality(Pushers(s, k)) \in Nat
           /\ Poppers(s, k) \subseteq 1..Len(s) /\ IsFiniteSet(Poppers(s, k))
           /\ Cardinality(Poppers(s, k)) \in Nat
<1>1. Len(s) \in Nat /\ DOMAIN s = 1..Len(s) /\ \A i \in DOMAIN s : s[i] \in Insn
    BY LenProperties, ElementOfSeq
<1>2. IsFiniteSet(1..Len(s))
    BY <1>1, FS_Interval
<1>3. Pushers(s, k) \subseteq 1..Len(s) /\ Poppers(s, k) \subseteq 1..Len(s)
    BY <1>1 DEF Pushers, Poppers
<1>4. IsFiniteSet(Pushers(s, k)) /\ IsFiniteSet(Poppers(s, k))
    BY <1>2, <1>3, FS_Subset
<1> QED
    BY <1>1, <1>3, <1>4, FS_CardinalityType

OneMore(S, T, k, i) == IF k \in T THEN S \cup {i} ELSE S

LEMMA CountOneMore ==
    ASSUME NEW S, IsFiniteSet(S), NEW T, NEW k, NEW i, k \in T => i \notin S
    PROVE  Cardinality(OneMore(S, T, k, i)) = Cardinality(S) + (IF k \in T THEN 1 ELSE 0)
<1>1. CASE k \in T
    <2>1. OneMore(S, T, k, i) = S \cup {i}
        BY <1>1 DEF OneMore
    <2> QED
        BY <1>1, <2>1, FS_AddElement
<1>2. CASE k \notin T
    <2>1. OneMore(S, T, k, i) = S /\ Cardinality(S) \in Nat
        BY <1>2, FS_CardinalityType DEF OneMore
    <2> QED
        BY <1>2, <2>1
<1> QED
    BY <1>1, <1>2

\* The pops of a stream stay behind the pushes and the b tokens that the queues
\* held before it; PopsFollowPushes is of streams that find the queues empty.
Base == [Queue -> Nat]
Empty == [k \in Queue |-> 0]
Ordered(s, b) ==
    \A k \in Queue : \A i \in Poppers(s, k) :
        b[k] + Cardinality(Before(Pushers(s, k), i)) > Cardinality(Before(Poppers(s, k), i))

LEMMA OrderedFromEmpty ==
    /\ Empty \in Base /\ \A k \in Queue : Empty[k] = 0
    /\ \A s \in Seq(Insn) : Ordered(s, Empty) <=> PopsFollowPushes(s)
<1>1. Empty \in Base /\ \A k \in Queue : Empty[k] = 0
    BY DEF Base, Empty
<1>2. ASSUME NEW s \in Seq(Insn), NEW k \in Queue, NEW i
      PROVE  Empty[k] + Cardinality(Before(Pushers(s, k), i)) = Cardinality(Before(Pushers(s, k), i))
    <2>1. Before(Pushers(s, k), i) \subseteq Pushers(s, k)
        BY DEF Before
    <2>2. Cardinality(Before(Pushers(s, k), i)) \in Nat
        BY <2>1, Positions, FS_Subset, FS_CardinalityType
    <2> QED
        BY <1>1, <2>2
<1>3. ASSUME NEW s \in Seq(Insn)
      PROVE  Ordered(s, Empty) <=> PopsFollowPushes(s)
    BY <1>2 DEF Ordered, PopsFollowPushes
<1> QED
    BY <1>1, <1>3

\* Pops stay behind pushes when pushers are added, and a popper only where a
\* push is still unanswered and every earlier instruction is.
LEMMA OrderKept ==
    ASSUME NEW s \in Seq(Insn), NEW t \in Seq(Insn), NEW b \in Base, Ordered(s, b),
           \A k \in Queue : Pushers(s, k) \subseteq Pushers(t, k),
           \A k \in Queue : \A i \in Poppers(t, k) :
              \/ i \in Poppers(s, k) /\ Before(Poppers(t, k), i) = Before(Poppers(s, k), i)
              \/ b[k] + Cardinality(Before(Pushers(t, k), i)) > Cardinality(Before(Poppers(t, k), i))
    PROVE  Ordered(t, b)
<1> SUFFICES ASSUME NEW k \in Queue, NEW i \in Poppers(t, k),
                    i \in Poppers(s, k), Before(Poppers(t, k), i) = Before(Poppers(s, k), i)
             PROVE  b[k] + Cardinality(Before(Pushers(t, k), i)) > Cardinality(Before(Poppers(t, k), i))
    BY DEF Ordered
<1>1. Before(Pushers(s, k), i) \subseteq Before(Pushers(t, k), i)
    BY DEF Before
<1>2. IsFiniteSet(Before(Pushers(t, k), i)) /\ IsFiniteSet(Before(Poppers(s, k), i))
    <2>1. Before(Pushers(t, k), i) \subseteq Pushers(t, k)
        BY DEF Before
    <2>2. Before(Poppers(s, k), i) \subseteq Poppers(s, k)
        BY DEF Before
    <2> QED
        BY <2>1, <2>2, Positions, FS_Subset
<1>3. Cardinality(Before(Pushers(s, k), i)) <= Cardinality(Before(Pushers(t, k), i))
    BY <1>1, <1>2, FS_Subset
<1>4. b[k] + Cardinality(Before(Pushers(s, k), i)) > Cardinality(Before(Poppers(s, k), i))
    BY DEF Ordered
<1>5. /\ Cardinality(Before(Pushers(s, k), i)) \in Nat /\ Cardinality(Before(Pushers(t, k), i)) \in Nat
      /\ Cardinality(Before(Poppers(s, k), i)) \in Nat /\ b[k] \in Nat
    BY <1>1, <1>2, FS_Subset, FS_CardinalityType DEF Base
<1> QED
    BY <1>3, <1>4, <1>5

\* Every instruction of the stage that pushes to k has a push at or after it.
Announced(s, k) ==
    \A i \in DOMAIN s : On(s[i], From[k]) => \E j \in Pushers(s, k) : j >= i

LEMMA Appended ==
    ASSUME NEW s \in Seq(Insn), NEW x \in Insn, NEW t, t = Append(s, x)
    PROVE  /\ t \in Seq(Insn) /\ Len(t) = Len(s) + 1 /\ DOMAIN t = 1..Len(s) + 1
           /\ t[Len(s) + 1] = x /\ \A i \in 1..Len(s) : t[i] = s[i]
           /\ \A k \in Queue : /\ Pushers(t, k) = OneMore(Pushers(s, k), PushQueues(x), k, Len(s) + 1)
                               /\ Poppers(t, k) = OneMore(Poppers(s, k), PopQueues(x), k, Len(s) + 1)
<1>1. /\ t \in Seq(Insn) /\ Len(t) = Len(s) + 1
      /\ t[Len(s) + 1] = x /\ \A i \in 1..Len(s) : t[i] = s[i]
    BY AppendProperties
<1>2. Len(s) \in Nat /\ DOMAIN s = 1..Len(s) /\ DOMAIN t = 1..Len(s) + 1
    BY <1>1, LenProperties
<1>3. ASSUME NEW k \in Queue
      PROVE  /\ Pushers(t, k) = OneMore(Pushers(s, k), PushQueues(x), k, Len(s) + 1)
             /\ Poppers(t, k) = OneMore(Poppers(s, k), PopQueues(x), k, Len(s) + 1)
    <2>1. \A i : i \in 1..Len(s) + 1 <=> i \in 1..Len(s) \/ i = Len(s) + 1
        BY <1>2
    <2>2. Len(s) + 1 \notin 1..Len(s)
        BY <1>2
    <2>3. \A i : i \in Pushers(t, k) <=>
                 i \in Pushers(s, k) \/ (i = Len(s) + 1 /\ k \in PushQueues(x))
        BY <1>1, <1>2, <2>1, <2>2 DEF Pushers
    <2>4. \A i : i \in Poppers(t, k) <=>
                 i \in Poppers(s, k) \/ (i = Len(s) + 1 /\ k \in PopQueues(x))
        BY <1>1, <1>2, <2>1, <2>2 DEF Poppers
    <2> QED
        BY <2>3, <2>4 DEF OneMore
<1> QED
    BY <1>1, <1>2, <1>3

LEMMA AppendedOrder ==
    ASSUME NEW s \in Seq(Insn), NEW x \in Insn, NEW t, t = Append(s, x), NEW b \in Base, Ordered(s, b),
           \A k \in PopQueues(x) : b[k] + Cardinality(Pushers(s, k)) > Cardinality(Poppers(s, k)),
           \A k \in PopQueues(x) : k \notin PushQueues(x)
    PROVE  Ordered(t, b)
<1>6. t \in Seq(Insn)
    BY AppendProperties
<1>7. Len(s) \in Nat
    BY LenProperties
<1>8. \A u \in Seq(Insn), y \in Insn : \A v : v = Append(u, y) =>
         \A k \in Queue : /\ Pushers(v, k) = OneMore(Pushers(u, k), PushQueues(y), k, Len(u) + 1)
                          /\ Poppers(v, k) = OneMore(Poppers(u, k), PopQueues(y), k, Len(u) + 1)
    BY Appended
<1> DEFINE n == Len(s)
<1>1. t \in Seq(Insn) /\ n \in Nat
    BY <1>6, <1>7
<1>4. \A k \in Queue : /\ Pushers(t, k) = OneMore(Pushers(s, k), PushQueues(x), k, n + 1)
                       /\ Poppers(t, k) = OneMore(Poppers(s, k), PopQueues(x), k, n + 1)
    BY <1>8
<1>2. \A k \in Queue : Pushers(s, k) \subseteq Pushers(t, k)
    BY <1>4 DEF OneMore
<1>3. ASSUME NEW k \in Queue, NEW i \in Poppers(t, k)
      PROVE  \/ i \in Poppers(s, k) /\ Before(Poppers(t, k), i) = Before(Poppers(s, k), i)
             \/ b[k] + Cardinality(Before(Pushers(t, k), i)) > Cardinality(Before(Poppers(t, k), i))
    <2>1. Poppers(t, k) = OneMore(Poppers(s, k), PopQueues(x), k, n + 1)
        BY <1>4
    <2>2. Poppers(s, k) \subseteq 1..n /\ Pushers(s, k) \subseteq 1..n
        BY Positions
    <2>3. CASE i \in Poppers(s, k)
        <3>1. ~(n + 1 < i) /\ i \in Nat
            BY <2>2, <2>3, <1>1
        <3> QED
            BY <2>1, <2>3, <3>1 DEF Before, OneMore
    <2>4. CASE i \notin Poppers(s, k)
        <3>1. i = n + 1 /\ k \in PopQueues(x) /\ k \notin PushQueues(x)
            BY <2>1, <2>4 DEF OneMore
        <3>2. Pushers(t, k) = Pushers(s, k)
            BY <3>1, <1>4 DEF OneMore
        <3>3. \A j \in 1..n : j < n + 1
            BY <1>1
        <3>4. ~(n + 1 < n + 1)
            BY <1>1
        <3>5. Before(Pushers(t, k), i) = Pushers(s, k) /\ Before(Poppers(t, k), i) = Poppers(s, k)
            BY <2>1, <2>2, <3>1, <3>2, <3>3, <3>4 DEF Before, OneMore
        <3> QED
            BY <3>1, <3>5
    <2> QED
        BY <2>3, <2>4
<1>5. \A k \in Queue : \A i \in Poppers(t, k) :
         \/ i \in Poppers(s, k) /\ Before(Poppers(t, k), i) = Before(Poppers(s, k), i)
         \/ b[k] + Cardinality(Before(Pushers(t, k), i)) > Cardinality(Before(Poppers(t, k), i))
    BY <1>3
<1> HIDE DEF n
<1> QED
    BY <1>1, <1>2, <1>5, OrderKept

LEMMA AppendedAnnounced ==
    ASSUME NEW s \in Seq(Insn), NEW x \in Insn, NEW t, t = Append(s, x), NEW k \in Queue,
           Announced(s, k), ~On(x, From[k])
    PROVE  Announced(t, k)
<1>1. DOMAIN t = 1..Len(s) + 1 /\ t[Len(s) + 1] = x /\ \A i \in 1..Len(s) : t[i] = s[i]
    BY Appended
<1>4. Pushers(s, k) \subseteq Pushers(t, k)
    <2>1. \A m \in Queue : Pushers(t, m) = OneMore(Pushers(s, m), PushQueues(x), m, Len(s) + 1)
        BY Appended
    <2> QED
        BY <2>1 DEF OneMore
<1>2. Len(s) \in Nat /\ DOMAIN s = 1..Len(s)
    BY LenProperties
<1>3. ASSUME NEW i \in DOMAIN t, On(t[i], From[k])
      PROVE  \E j \in Pushers(t, k) : j >= i
    <2>1. i # Len(s) + 1
        BY <1>1, <1>3
    <2>2. i \in DOMAIN s /\ t[i] = s[i]
        BY <2>1, <1>1, <1>2
    <2> QED
        BY <2>2, <1>3, <1>4 DEF Announced
<1> QED
    BY <1>3 DEF Announced

\* x is y with the flag of queue m set.
PushesToo(x, y, m) ==
    /\ GetCoreType(x) = GetCoreType(y) /\ PopQueues(x) = PopQueues(y)
    /\ PushQueues(x) = PushQueues(y) \cup {m} /\ m \notin PushQueues(y)

Replaced(s, n, x) == [s EXCEPT ![n] = x]

\* The flag of queue m is set in instruction n, which becomes x.
LEMMA Marked ==
    ASSUME NEW s \in Seq(Insn), NEW n \in 1..Len(s), NEW x \in Insn, NEW m \in Queue,
           PushesToo(x, s[n], m), NEW t, t = Replaced(s, n, x)
    PROVE  /\ t \in Seq(Insn) /\ Len(t) = Len(s)
           /\ \A i \in 1..Len(s) : t[i] = IF i = n THEN x ELSE s[i]
           /\ \A k \in Queue : /\ Pushers(t, k) = OneMore(Pushers(s, k), {m}, k, n)
                               /\ Poppers(t, k) = Poppers(s, k)
           /\ n \notin Pushers(s, m)
<1>1. /\ t \in Seq(Insn) /\ Len(t) = Len(s)
      /\ \A i \in 1..Len(s) : t[i] = IF i = n THEN x ELSE s[i]
    BY ExceptSeq DEF Replaced
<1>2. DOMAIN s = 1..Len(s) /\ DOMAIN t = 1..Len(s)
    BY <1>1, LenProperties
<1>3. \A k \in Queue : /\ Pushers(t, k) = OneMore(Pushers(s, k), {m}, k, n)
                       /\ Poppers(t, k) = Poppers(s, k)
    BY <1>1, <1>2 DEF Pushers, Poppers, OneMore, PushesToo
<1>4. n \notin Pushers(s, m)
    BY DEF Pushers, PushesToo
<1> QED
    BY <1>1, <1>3, <1>4

LEMMA MarkedOrder ==
    ASSUME NEW s \in Seq(Insn), NEW n \in 1..Len(s), NEW x \in Insn, NEW m \in Queue,
           PushesToo(x, s[n], m), NEW t, t = Replaced(s, n, x), NEW b \in Base, Ordered(s, b)
    PROVE  Ordered(t, b)
<1>1. t \in Seq(Insn)
    BY Marked
<1>2. \A k \in Queue : /\ Pushers(t, k) = OneMore(Pushers(s, k), {m}, k, n)
                       /\ Poppers(t, k) = Poppers(s, k)
    BY Marked
<1>3. \A k \in Queue : Pushers(s, k) \subseteq Pushers(t, k)
    BY <1>2 DEF OneMore
<1>4. \A k \in Queue : \A i \in Poppers(t, k) :
          i \in Poppers(s, k) /\ Before(Poppers(t, k), i) = Before(Poppers(s, k), i)
    BY <1>2
<1> QED
    BY <1>1, <1>3, <1>4, OrderKept

LEMMA MarkedAnnounced ==
    ASSUME NEW s \in Seq(Insn), NEW t \in Seq(Insn), Len(t) = Len(s),
           \A i \in 1..Len(s) : GetCoreType(t[i]) = GetCoreType(s[i]),
           NEW k \in Queue, Pushers(s, k) \subseteq Pushers(t, k), Announced(s, k)
    PROVE  Announced(t, k)
<1>1. DOMAIN s = 1..Len(s) /\ DOMAIN t = 1..Len(s)
    BY LenProperties
<1> QED
    BY <1>1 DEF Announced, On

--------------------------------------------------------------------------------
(* The queue's methods. *)

QueueT == [insns : Seq(Insn), popPrev : [Stage -> BOOLEAN], popNext : [Stage -> BOOLEAN]]
Pend(q, k) == IF Forward(k) THEN q.popPrev[To[k]] ELSE q.popNext[To[k]]
NoPops(q, st) == ~q.popPrev[st] /\ ~q.popNext[st]

\* The runtime's stage of an instruction of the host is the stage of its core,
\* and that has the queues its flags name.
Fits(insn) ==
    /\ insn.op # "FINISH" /\ GetPipelineStageAll(insn) \in Stage
    /\ On(insn, GetPipelineStageAll(insn)) /\ FlagsHaveQueues(insn)
Routed(q) ==
    /\ q \in QueueT
    /\ \A i \in DOMAIN q.insns : Fits(q.insns[i])
    /\ ~q.popPrev[1] /\ ~q.popNext[3]

\* The tokens pushed by the queue's instructions, those popped by them or still
\* to be popped; no more popped than there were and have been pushed.
Pushed(q) == [k \in Queue |-> Cardinality(Pushers(q.insns, k))]
Popped(q) == [k \in Queue |-> Cardinality(Poppers(q.insns, k)) + (IF Pend(q, k) THEN 1 ELSE 0)]
Behind(q, b) == \A k \in Queue : Popped(q)[k] <= b[k] + Pushed(q)[k]
StaysOrdered(q, r) == \A b \in Base : Behind(q, b) /\ Ordered(q.insns, b) => Ordered(r.insns, b)
StaysBehind(q, r) == \A b \in Base : Behind(q, b) => Behind(r, b)

\* q with an instruction of stage st that takes over the stage's pops.
After(q, x, st) ==
    [insns |-> Append(q.insns, x), popPrev |-> [q.popPrev EXCEPT ![st] = FALSE],
     popNext |-> [q.popNext EXCEPT ![st] = FALSE]]

LEMMA AfterQueue ==
    ASSUME NEW q, Routed(q), NEW x \in Insn, NEW st \in Stage, Fits(x)
    PROVE  /\ Routed(After(q, x, st)) /\ NoPops(After(q, x, st), st)
           /\ Len(After(q, x, st).insns) = Len(q.insns) + 1
           /\ After(q, x, st).insns[Len(q.insns) + 1] = x
           /\ \A s \in Stage \ {st} : /\ After(q, x, st).popPrev[s] = q.popPrev[s]
                                      /\ After(q, x, st).popNext[s] = q.popNext[s]
<1> DEFINE r == After(q, x, st)
<1>1. /\ q.insns \in Seq(Insn) /\ q.popPrev \in [Stage -> BOOLEAN] /\ q.popNext \in [Stage -> BOOLEAN]
    BY DEF Routed, QueueT
<1>2. /\ r.insns = Append(q.insns, x) /\ r.popPrev = [q.popPrev EXCEPT ![st] = FALSE]
      /\ r.popNext = [q.popNext EXCEPT ![st] = FALSE]
    BY DEF After
<1>3. /\ r.insns \in Seq(Insn) /\ Len(r.insns) = Len(q.insns) + 1 /\ DOMAIN r.insns = 1..Len(q.insns) + 1
      /\ r.insns[Len(q.insns) + 1] = x /\ \A i \in 1..Len(q.insns) : r.insns[i] = q.insns[i]
    BY <1>1, <1>2, Appended
<1>4. r \in QueueT
    BY <1>1, <1>2, <1>3 DEF QueueT, After
<1>5. \A i \in DOMAIN r.insns : Fits(r.insns[i])
    <2>1. Len(q.insns) \in Nat /\ DOMAIN q.insns = 1..Len(q.insns)
        BY <1>1, LenProperties
    <2>2. \A i \in DOMAIN r.insns : i = Len(q.insns) + 1 \/ i \in DOMAIN q.insns
        BY <1>3, <2>1
    <2> QED
        BY <1>3, <2>1, <2>2 DEF Routed
<1>6. 1 \in Stage /\ 3 \in Stage
    BY DEF Stage, LoadStage, StoreStage
<1>7. ~r.popPrev[1] /\ ~r.popNext[3]
    BY <1>1, <1>2, <1>6 DEF Routed
<1>8. NoPops(r, st)
    BY <1>1, <1>2 DEF NoPops
<1>9. \A s \in Stage \ {st} : r.popPrev[s] = q.popPrev[s] /\ r.popNext[s] = q.popNext[s]
    BY <1>1, <1>2
<1> QED
    BY <1>3, <1>4, <1>5, <1>7, <1>8, <1>9 DEF Routed

\* What the instruction pops was pending; what it pushes is new.
LEMMA AfterTokens ==
    ASSUME NEW q, Routed(q), NEW x \in Insn, NEW st \in Stage, Fits(x), On(x, st),
           x.popPrev = q.popPrev[st], x.popNext = q.popNext[st]
    PROVE  /\ \A k \in Queue :
                 /\ Pushed(After(q, x, st))[k] = Pushed(q)[k] + (IF k \in PushQueues(x) THEN 1 ELSE 0)
                 /\ Popped(After(q, x, st))[k] = Popped(q)[k]
           /\ StaysOrdered(q, After(q, x, st))
           /\ \A k \in Queue : From[k] # st /\ Announced(q.insns, k) => Announced(After(q, x, st).insns, k)
<1> DEFINE r == After(q, x, st)
           s == q.insns
           t == r.insns
<1>1. s \in Seq(Insn) /\ q.popPrev \in [Stage -> BOOLEAN] /\ q.popNext \in [Stage -> BOOLEAN]
    BY DEF Routed, QueueT
<1>2. t = Append(s, x) /\ NoPops(r, st)
    BY AfterQueue DEF After
<1>3. \A k \in Queue : k \in PopQueues(x) <=> To[k] = st /\ Pend(q, k)
    BY Flags DEF Fits, Pend
<1>4. \A k \in Queue : Pend(r, k) <=> To[k] # st /\ Pend(q, k)
    <2>1. \A u \in Stage \ {st} : r.popPrev[u] = q.popPrev[u] /\ r.popNext[u] = q.popNext[u]
        BY AfterQueue
    <2>2. \A k \in Queue : To[k] \in Stage
        BY Links
    <2> HIDE DEF r
    <2> QED
        BY <1>2, <2>1, <2>2 DEF Pend, NoPops
<1>5. \A k \in PopQueues(x) : k \in Queue /\ k \notin PushQueues(x)
    <2>1. \A k \in PopQueues(x) : k \in Queue
        BY DEF PopQueues
    <2>2. \A k \in Queue : (k \in PopQueues(x) => To[k] = st) /\ (k \in PushQueues(x) => From[k] = st)
        BY Flags DEF Fits
    <2> QED
        BY <2>1, <2>2, Links
<1>6. \A k \in Queue : /\ Pushers(t, k) = OneMore(Pushers(s, k), PushQueues(x), k, Len(s) + 1)
                       /\ Poppers(t, k) = OneMore(Poppers(s, k), PopQueues(x), k, Len(s) + 1)
    <2>1. \A u \in Seq(Insn) : \A v : v = Append(u, x) =>
             \A k \in Queue : /\ Pushers(v, k) = OneMore(Pushers(u, k), PushQueues(x), k, Len(u) + 1)
                             /\ Poppers(v, k) = OneMore(Poppers(u, k), PopQueues(x), k, Len(u) + 1)
        BY Appended
    <2> HIDE DEF s, t
    <2> QED
        BY <1>1, <1>2, <2>1
<1> HIDE DEF r, t, s
<1>7. \A k \in Queue :
         /\ Cardinality(Pushers(t, k)) = Cardinality(Pushers(s, k)) + (IF k \in PushQueues(x) THEN 1 ELSE 0)
         /\ Cardinality(Poppers(t, k)) = Cardinality(Poppers(s, k)) + (IF k \in PopQueues(x) THEN 1 ELSE 0)
    <2> TAKE k \in Queue
    <2>1. /\ IsFiniteSet(Pushers(s, k)) /\ IsFiniteSet(Poppers(s, k))
          /\ Pushers(s, k) \subseteq 1..Len(s) /\ Poppers(s, k) \subseteq 1..Len(s) /\ Len(s) \in Nat
        BY <1>1, Positions
    <2>2. Len(s) + 1 \notin Pushers(s, k) /\ Len(s) + 1 \notin Poppers(s, k)
        BY <2>1
    <2> QED
        BY <1>6, <2>1, <2>2, CountOneMore
<1>8. \A k \in Queue : Cardinality(Pushers(s, k)) \in Nat /\ Cardinality(Poppers(s, k)) \in Nat
    BY <1>1, Positions
<1>9. \A k \in Queue : /\ Pushed(r)[k] = Pushed(q)[k] + (IF k \in PushQueues(x) THEN 1 ELSE 0)
                       /\ Popped(r)[k] = Popped(q)[k]
    <2> TAKE k \in Queue
    <2>1. Pushed(r)[k] = Cardinality(Pushers(t, k)) /\ Pushed(q)[k] = Cardinality(Pushers(s, k))
        BY DEF Pushed, s, t
    <2>2. /\ Popped(r)[k] = Cardinality(Poppers(t, k)) + (IF Pend(r, k) THEN 1 ELSE 0)
          /\ Popped(q)[k] = Cardinality(Poppers(s, k)) + (IF Pend(q, k) THEN 1 ELSE 0)
        BY DEF Popped, s, t
    <2>3. CASE k \in PopQueues(x)
        BY <1>3, <1>4, <1>7, <1>8, <2>1, <2>2, <2>3
    <2>4. CASE k \notin PopQueues(x)
        <3>1. Pend(r, k) <=> Pend(q, k)
            BY <1>3, <1>4, <2>4
        <3> QED
            BY <1>7, <1>8, <2>1, <2>2, <2>4, <3>1
    <2> QED
        BY <2>3, <2>4
<1>10. ASSUME NEW b \in Base, Behind(q, b), Ordered(s, b)
       PROVE  Ordered(t, b)
    <2>1. \A k \in PopQueues(x) : b[k] + Cardinality(Pushers(s, k)) > Cardinality(Poppers(s, k))
        <3> TAKE k \in PopQueues(x)
        <3>1. k \in Queue /\ Pend(q, k) /\ b[k] \in Nat
            BY <1>3, <1>5 DEF Base
        <3> QED
            BY <1>8, <1>10, <3>1 DEF Behind, Pushed, Popped, s
    <2> QED
        BY <1>1, <1>2, <1>5, <1>10, <2>1, AppendedOrder
<1>11. ASSUME NEW k \in Queue, From[k] # st, Announced(s, k)
       PROVE  Announced(t, k)
    <2>1. ~On(x, From[k])
        BY <1>11, Links DEF On, CoreOf, Stage, LoadStage, StoreStage
    <2> QED
        BY <1>1, <1>2, <1>11, <2>1, AppendedAnnounced
<1> QED
    BY <1>9, <1>10, <1>11 DEF r, s, t, StaysOrdered

--------------------------------------------------------------------------------
(* One operation: from q to r, adding at most n instructions, to the stages T *)
(* only.                                                                      *)

Plus(f, k) == [f EXCEPT ![k] = @ + 1]

Step(q, r, T, n) ==
    /\ Routed(r)
    /\ Len(r.insns) <= Len(q.insns) + n
    /\ StaysOrdered(q, r)
    /\ \A k \in Queue : From[k] \notin T /\ Announced(q.insns, k) => Announced(r.insns, k)
    /\ \A s \in Stage \ T : r.popPrev[s] = q.popPrev[s] /\ r.popNext[s] = q.popNext[s]

LEMMA TokenCounts ==
    ASSUME NEW q, Routed(q)
    PROVE  Pushed(q) \in [Queue -> Nat] /\ Popped(q) \in [Queue -> Nat]
<1>1. \A k \in Queue : Cardinality(Pushers(q.insns, k)) \in Nat /\ Cardinality(Poppers(q.insns, k)) \in Nat
    BY Positions DEF Routed, QueueT
<1> QED
    BY <1>1 DEF Pushed, Popped

LEMMA Lengths ==
    ASSUME NEW q, Routed(q)
    PROVE  q.insns \in Seq(Insn) /\ Len(q.insns) \in Nat /\ DOMAIN q.insns = 1..Len(q.insns)
BY LenProperties DEF Routed, QueueT

\* Two operations in a row.
LEMMA TwoSteps ==
    ASSUME NEW q, NEW r, NEW u, NEW S, NEW T, NEW m \in Nat, NEW n \in Nat, Routed(q),
           Step(q, r, S, m), Step(r, u, T, n), StaysBehind(q, r)
    PROVE  Step(q, u, S \cup T, m + n)
<1>1. Len(u.insns) <= Len(q.insns) + (m + n)
    <2>1. Routed(r) /\ Routed(u) /\ Len(r.insns) <= Len(q.insns) + m /\ Len(u.insns) <= Len(r.insns) + n
        BY DEF Step
    <2>2. Len(q.insns) \in Nat /\ Len(r.insns) \in Nat /\ Len(u.insns) \in Nat
        BY <2>1, Lengths
    <2>3. \A a, b, c \in Nat : b <= a + m /\ c <= b + n => c <= a + (m + n)
        OBVIOUS
    <2> QED
        BY <2>1, <2>2, <2>3
<1>2. StaysOrdered(q, u)
    BY DEF Step, StaysOrdered, StaysBehind
<1> QED
    BY <1>1, <1>2 DEF Step

LEMMA SameBehind ==
    ASSUME NEW q, NEW r, Pushed(r) = Pushed(q), Popped(r) = Popped(q)
    PROVE  StaysBehind(q, r)
BY DEF Behind, StaysBehind

LEMMA AfterStep ==
    ASSUME NEW q, Routed(q), NEW x \in Insn, NEW st \in Stage, Fits(x), On(x, st),
           x.popPrev = q.popPrev[st], x.popNext = q.popNext[st]
    PROVE  Step(q, After(q, x, st), {st}, 1)
<1> DEFINE r == After(q, x, st)
<1>1. Routed(r) /\ Len(r.insns) = Len(q.insns) + 1
    BY AfterQueue
<1>2. \A s \in Stage \ {st} : r.popPrev[s] = q.popPrev[s] /\ r.popNext[s] = q.popNext[s]
    BY AfterQueue
<1>3. StaysOrdered(q, r)
    BY AfterTokens
<1>4. \A k \in Queue : From[k] # st /\ Announced(q.insns, k) => Announced(r.insns, k)
    BY AfterTokens
<1>5. Len(r.insns) <= Len(q.insns) + 1
    BY <1>1, Lengths
<1> QED
    BY <1>1, <1>2, <1>3, <1>4, <1>5 DEF Step

\* The no-op of a stage.
Noop(st) == [op |-> IF st = StoreStage THEN "STORE" ELSE "LOAD",
             mem |-> IF st = LoadStage THEN "INP" ELSE "UOP", noop |-> TRUE]
LEMMA NoopFits ==
    ASSUME NEW st \in Stage, NEW x \in Insn,
           x.op = Noop(st).op, x.mem = Noop(st).mem,
           st = 1 => ~x.popPrev /\ ~x.pushPrev,
           st = 3 => ~x.popNext /\ ~x.pushNext
    PROVE  Fits(x) /\ On(x, st) /\ GetPipelineStageAll(x) = st
<1>1. st \in {1, 2, 3}
    BY DEF Stage, LoadStage, StoreStage
<1>2. x.op = (IF st = 3 THEN "STORE" ELSE "LOAD") /\ x.mem = (IF st = 1 THEN "INP" ELSE "UOP")
    BY DEF Noop, LoadStage, StoreStage
<1>3. On(x, st)
    BY <1>1, <1>2 DEF On, CoreOf, GetCoreType
<1>4. GetPipelineStageAll(x) = st
    BY <1>1, <1>2 DEF GetPipelineStageAll, GetPipelineStage, GetMemPipelineStage,
                      LoadStage, ComputeStage, StoreStage, NoneStage
<1>5. FlagsHaveQueues(x)
    BY <1>3, HasQueues
<1> QED
    BY <1>1, <1>2, <1>3, <1>4, <1>5 DEF Fits

LEMMA CommitStep ==
    ASSUME NEW q, Routed(q), NEW st \in Stage
    PROVE  /\ Step(q, CommitPendingPop(q, st), {st}, 1)
           /\ NoPops(CommitPendingPop(q, st), st)
           /\ Pushed(CommitPendingPop(q, st)) = Pushed(q)
           /\ Popped(CommitPendingPop(q, st)) = Popped(q)
<1> DEFINE r == CommitPendingPop(q, st)
<1>1. /\ q \in QueueT /\ q.popPrev[st] \in BOOLEAN /\ q.popNext[st] \in BOOLEAN
      /\ (st = 1 => ~q.popPrev[st]) /\ (st = 3 => ~q.popNext[st])
    BY DEF Routed, QueueT
<1>2. CASE NoPops(q, st)
    <2>1. r = q
        BY <1>2 DEF CommitPendingPop, NoPops
    <2>2. Step(q, q, {st}, 1)
        BY Lengths DEF Step, StaysOrdered
    <2> QED
        BY <1>2, <2>1, <2>2
<1>3. CASE ~NoPops(q, st)
    <2> DEFINE x == [op |-> Noop(st).op, mem |-> Noop(st).mem, noop |-> TRUE,
                     popPrev |-> q.popPrev[st], popNext |-> q.popNext[st],
                     pushPrev |-> FALSE, pushNext |-> FALSE]
    <2>0. x = [op |-> IF st = StoreStage THEN "STORE" ELSE "LOAD",
               mem |-> IF st = LoadStage THEN "INP" ELSE "UOP", noop |-> TRUE,
               popPrev |-> q.popPrev[st], popNext |-> q.popNext[st],
               pushPrev |-> FALSE, pushNext |-> FALSE]
        BY DEF Noop
    <2>1. r = After(q, x, st)
        <3>1. r = ClearPending([q EXCEPT !.insns = Append(@, x)], st)
            BY <1>1, <1>3, <2>0 DEF CommitPendingPop, NoPops, PushNoop
        <3> HIDE DEF x, r
        <3> QED
            BY <1>1, <3>1 DEF ClearPending, After, QueueT
    <2>2. /\ x \in Insn /\ x.op = Noop(st).op /\ x.mem = Noop(st).mem
          /\ x.popPrev = q.popPrev[st] /\ x.popNext = q.popNext[st] /\ ~x.pushPrev /\ ~x.pushNext
        BY <1>1 DEF Insn, Noop, Opcode, MemType
    <2>3. PushQueues(x) = {}
        BY <2>2 DEF PushQueues
    <2> HIDE DEF x
    <2>4. Fits(x) /\ On(x, st)
        BY <1>1, <2>2, NoopFits
    <2>5. Step(q, r, {st}, 1)
        BY <2>1, <2>2, <2>4, AfterStep
    <2>6. NoPops(r, st)
        BY <2>1, <2>2, <2>4, AfterQueue
    <2>7. \A k \in Queue : Pushed(r)[k] = Pushed(q)[k] + 0 /\ Popped(r)[k] = Popped(q)[k]
        BY <2>1, <2>2, <2>3, <2>4, AfterTokens
    <2>8. /\ Pushed(q) \in [Queue -> Nat] /\ Popped(q) \in [Queue -> Nat]
          /\ Pushed(r) \in [Queue -> Nat] /\ Popped(r) \in [Queue -> Nat]
        BY <2>5, TokenCounts DEF Step
    <2>9. Pushed(r) = Pushed(q) /\ Popped(r) = Popped(q)
        BY <2>7, <2>8
    <2> QED
        BY <2>5, <2>6, <2>9
<1> QED
    BY <1>2, <1>3

\* The instructions the calls create, with their stages.
Creates(op, mem, st) ==
    \/ op = "LOAD" /\ mem \in {"INP", "WGT", "ACC", "ACC8", "UOP"} /\ st = GetMemPipelineStage(mem)
    \/ op = "STORE" /\ mem = "OUT" /\ st = StoreStage
    \/ op \in {"GEMM", "ALU"} /\ mem = "UOP" /\ st = ComputeStage

LEMMA CreateStep ==
    ASSUME NEW q, Routed(q), NEW op, NEW mem, NEW st, Creates(op, mem, st)
    PROVE  /\ st \in Stage
           /\ Step(q, Create(q, st, op, mem), {st}, 1)
           /\ Pushed(Create(q, st, op, mem)) = Pushed(q)
           /\ Popped(Create(q, st, op, mem)) = Popped(q)
<1> DEFINE r == Create(q, st, op, mem)
           x == [PlainInsn(op, mem) EXCEPT !.popPrev = q.popPrev[st], !.popNext = q.popNext[st]]
<1>1. st \in Stage /\ st \in {1, 2, 3}
    BY DEF Creates, GetMemPipelineStage, Stage, LoadStage, ComputeStage, StoreStage
<1>2. /\ q \in QueueT /\ q.popPrev[st] \in BOOLEAN /\ q.popNext[st] \in BOOLEAN
      /\ (st = 1 => ~q.popPrev[st]) /\ (st = 3 => ~q.popNext[st])
    BY <1>1 DEF Routed, QueueT
<1>3. /\ x \in Insn /\ x.op = op /\ x.mem = mem /\ x.noop = FALSE
      /\ x.popPrev = q.popPrev[st] /\ x.popNext = q.popNext[st] /\ ~x.pushPrev /\ ~x.pushNext
    BY <1>2 DEF PlainInsn, Insn, Opcode, MemType, Creates
<1>4. r = After(q, x, st)
    <2>1. r = ClearPending([q EXCEPT !.insns = Append(@, x)], st)
        BY DEF Create
    <2> HIDE DEF r, x
    <2> QED
        BY <1>2, <2>1 DEF ClearPending, After, QueueT
<1> HIDE DEF x
<1>5. On(x, st)
    BY <1>3 DEF On, CoreOf, GetCoreType, Creates, GetMemPipelineStage, LoadStage, ComputeStage, StoreStage
<1>6. GetPipelineStageAll(x) = st
    BY <1>3 DEF GetPipelineStageAll, GetPipelineStage, Creates, GetMemPipelineStage,
                LoadStage, ComputeStage, StoreStage, NoneStage
<1>7. FlagsHaveQueues(x)
    BY <1>1, <1>2, <1>3, <1>5, HasQueues
<1>8. Fits(x)
    BY <1>1, <1>3, <1>5, <1>6, <1>7 DEF Fits, Creates
<1>9. PushQueues(x) = {}
    BY <1>3 DEF PushQueues
<1>10. Step(q, r, {st}, 1)
    BY <1>1, <1>3, <1>4, <1>5, <1>8, AfterStep
<1>11. \A k \in Queue : Pushed(r)[k] = Pushed(q)[k] + 0 /\ Popped(r)[k] = Popped(q)[k]
    BY <1>1, <1>3, <1>4, <1>5, <1>8, <1>9, AfterTokens
<1>12. /\ Pushed(q) \in [Queue -> Nat] /\ Popped(q) \in [Queue -> Nat]
       /\ Pushed(r) \in [Queue -> Nat] /\ Popped(r) \in [Queue -> Nat]
    BY <1>10, TokenCounts DEF Step
<1> QED
    BY <1>1, <1>10, <1>11, <1>12

\* A push that goes into the last instruction, one of the stage that pushes.
LEMMA MarkedInsn ==
    ASSUME NEW k \in Queue, NEW y \in Insn, Fits(y), GetPipelineStage(y) = From[k], NEW x \in Insn,
           x.op = y.op, x.mem = y.mem, x.noop = y.noop, x.popPrev = y.popPrev, x.popNext = y.popNext,
           Forward(k) => x.pushNext /\ ~y.pushNext /\ x.pushPrev = y.pushPrev,
           ~Forward(k) => x.pushPrev /\ ~y.pushPrev /\ x.pushNext = y.pushNext
    PROVE  Fits(x) /\ PushesToo(x, y, k)
<1> DEFINE from == From[k]
<1>2. from \in Stage /\ from \in {1, 2, 3} /\ from # 0
    BY Links DEF Stage, LoadStage, StoreStage
<1>3. GetPipelineStageAll(y) = from /\ GetPipelineStageAll(x) = from
    BY <1>2 DEF GetPipelineStageAll, GetPipelineStage, NoneStage
<1>4. GetCoreType(x) = GetCoreType(y)
    BY DEF GetCoreType
<1>5. On(y, from) /\ On(x, from)
    BY <1>3, <1>4 DEF Fits, On
<1>6. FlagsHaveQueues(x)
    <2>1. from = 1 => ~y.popPrev /\ ~y.pushPrev
        BY <1>5 DEF Fits, FlagsHaveQueues, On, CoreOf, PopPrevQueue, PushPrevQueue
    <2>2. from = 3 => ~y.popNext /\ ~y.pushNext
        BY <1>5 DEF Fits, FlagsHaveQueues, On, CoreOf, PopNextQueue, PushNextQueue
    <2>3. (from = 1 => Forward(k)) /\ (from = 3 => ~Forward(k))
        BY Links DEF Forward
    <2> QED
        BY <1>2, <1>5, <2>1, <2>2, <2>3, HasQueues
<1>7. Fits(x)
    BY <1>2, <1>3, <1>5, <1>6 DEF Fits
<1>8. \A m \in Queue : m \in PopQueues(x) <=> m \in PopQueues(y)
    BY <1>2, <1>5, <1>6, Flags DEF Fits
<1>9. \A m \in Queue : m \in PushQueues(x) <=> m \in PushQueues(y) \/ m = k
    <2> TAKE m \in Queue
    <2>1. m \in PushQueues(x) <=> From[m] = from /\ IF Forward(m) THEN x.pushNext ELSE x.pushPrev
        BY <1>2, <1>5, <1>6, Flags
    <2>2. m \in PushQueues(y) <=> From[m] = from /\ IF Forward(m) THEN y.pushNext ELSE y.pushPrev
        BY <1>2, <1>5, Flags DEF Fits
    <2>3. m = k <=> From[m] = from /\ (Forward(m) <=> Forward(k))
        BY Links
    <2> QED
        BY <2>1, <2>2, <2>3
<1>10. k \notin PushQueues(y)
    BY <1>2, <1>5, Flags DEF Fits
<1>11. PopQueues(x) = PopQueues(y) /\ PushQueues(x) = PushQueues(y) \cup {k}
    <2>1. \A m : (m \in PopQueues(x) => m \in Queue) /\ (m \in PopQueues(y) => m \in Queue)
        BY DEF PopQueues
    <2>2. \A m : (m \in PushQueues(x) => m \in Queue) /\ (m \in PushQueues(y) => m \in Queue)
        BY DEF PushQueues
    <2> QED
        BY <1>8, <1>9, <2>1, <2>2
<1> QED
    BY <1>4, <1>7, <1>10, <1>11 DEF PushesToo

\* The provers are told that a sequence is a queue's only where it matters.
Holds(q, s) == s = q.insns

LEMMA MarkStep ==
    ASSUME NEW q, Routed(q), NEW k \in Queue, NEW s \in Seq(Insn), Holds(q, s),
           NEW n \in 1..Len(s), \A i \in 1..Len(s) : i <= n,
           NEW x \in Insn, Fits(x), PushesToo(x, s[n], k),
           NEW t, t = Replaced(s, n, x),
           NEW r, Holds(r, t), r.popPrev = q.popPrev, r.popNext = q.popNext,
           t \in Seq(Insn) => r \in QueueT
    PROVE  /\ Step(q, r, {From[k]}, 1)
           /\ Pushed(r) = Plus(Pushed(q), k) /\ Popped(r) = Popped(q)
           /\ Announced(r.insns, k)
<1>1. DOMAIN s = 1..Len(s) /\ Len(s) \in Nat /\ n \in Nat
    BY LenProperties
<1>12. t \in Seq(Insn) /\ Len(t) = Len(s) /\ (\A b \in Base : Ordered(s, b) => Ordered(t, b))
    BY Marked, MarkedOrder
<1>11. \A i \in 1..Len(s) : t[i] = IF i = n THEN x ELSE s[i]
    BY <1>1 DEF Replaced
<1>13. n \notin Pushers(s, k)
    BY DEF Pushers, PushesToo
<1>14. \A m \in Queue : /\ Pushers(t, m) = OneMore(Pushers(s, m), {k}, m, n)
                        /\ Poppers(t, m) = Poppers(s, m)
    BY Marked
<1>15. Routed(r)
    <2>2. DOMAIN t = 1..Len(s)
        BY <1>12, LenProperties
    <2>3. \A i \in DOMAIN t : Fits(t[i])
        BY <1>1, <1>11, <2>2 DEF Routed, Holds
    <2> QED
        BY <1>12, <2>3 DEF Routed, Holds
<1>16. \A m \in Queue : Announced(s, m) => Announced(t, m)
    <2>1. \A m \in Queue : Pushers(s, m) \subseteq Pushers(t, m)
        BY <1>14 DEF OneMore
    <2>2. \A i \in 1..Len(s) : GetCoreType(t[i]) = GetCoreType(s[i])
        BY <1>11 DEF PushesToo
    <2> QED
        BY <1>1, <1>12, <2>1, <2>2, MarkedAnnounced
<1>17. Announced(t, k)
    <2>1. n \in Pushers(t, k)
        BY <1>14 DEF OneMore
    <2>2. \A i \in DOMAIN t : n >= i
        BY <1>12, LenProperties
    <2> QED
        BY <2>1, <2>2 DEF Announced
<1>18. Step(q, r, {From[k]}, 1)
    <2>1. Len(t) <= Len(s) + 1
        BY <1>1, <1>12
    <2> QED
        BY <1>12, <1>15, <1>16, <2>1 DEF Step, Holds, StaysOrdered
<1>19. Pushed(r) = Plus(Pushed(q), k)
    <2>1. \A m \in Queue : Cardinality(Pushers(t, m)) = Cardinality(Pushers(s, m)) + (IF m \in {k} THEN 1 ELSE 0)
        <3> TAKE m \in Queue
        <3>1. m \in {k} => n \notin Pushers(s, m)
            BY <1>13
        <3> QED
            BY <1>1, <1>14, <3>1, CountOneMore, Positions
    <2>2. \A m \in Queue : Cardinality(Pushers(s, m)) \in Nat
        BY <1>1, Positions
    <2>3. /\ \A m \in Queue : Pushed(q)[m] = Cardinality(Pushers(s, m)) /\ Pushed(r)[m] = Cardinality(Pushers(t, m))
          /\ Pushed(q) \in [Queue -> Nat] /\ Pushed(r) \in [Queue -> Nat]
        BY <1>15, TokenCounts DEF Pushed, Holds
    <2> QED
        BY <2>1, <2>2, <2>3 DEF Plus
<1>20. Popped(r) = Popped(q)
    BY <1>14 DEF Popped, Pend, Holds
<1> QED
    BY <1>17, <1>18, <1>19, <1>20 DEF Holds

\* DepPush once the pops of the stage are committed.
PushInto(c, k) ==
    LET n == Len(c.insns)
        mine == n > 0 /\ GetPipelineStage(c.insns[n]) = From[k]
    IN  IF Forward(k)
        THEN IF mine /\ ~c.insns[n].pushNext
             THEN [c EXCEPT !.insns[n].pushNext = TRUE]
             ELSE PushNoop(c, From[k], FALSE, TRUE, FALSE, FALSE)
        ELSE IF mine /\ ~c.insns[n].pushPrev
             THEN [c EXCEPT !.insns[n].pushPrev = TRUE]
             ELSE PushNoop(c, From[k], TRUE, FALSE, FALSE, FALSE)

\* The no-op that only pushes to k.
NoopPush(k) ==
    IF Forward(k)
    THEN [op |-> IF From[k] = StoreStage THEN "STORE" ELSE "LOAD",
          mem |-> IF From[k] = LoadStage THEN "INP" ELSE "UOP", noop |-> TRUE,
          popPrev |-> FALSE, popNext |-> FALSE, pushPrev |-> FALSE, pushNext |-> TRUE]
    ELSE [op |-> IF From[k] = StoreStage THEN "STORE" ELSE "LOAD",
          mem |-> IF From[k] = LoadStage THEN "INP" ELSE "UOP", noop |-> TRUE,
          popPrev |-> FALSE, popNext |-> FALSE, pushPrev |-> TRUE, pushNext |-> FALSE]

PushedNoop(c, k) == After(c, NoopPush(k), From[k])

LEMMA PushNoopStep ==
    ASSUME NEW c, Routed(c), NEW k \in Queue, NoPops(c, From[k])
    PROVE  /\ Step(c, PushedNoop(c, k), {From[k]}, 1) /\ NoPops(PushedNoop(c, k), From[k])
           /\ Pushed(PushedNoop(c, k)) = Plus(Pushed(c), k) /\ Popped(PushedNoop(c, k)) = Popped(c)
           /\ Announced(PushedNoop(c, k).insns, k)
<1> DEFINE from == From[k]
           x == NoopPush(k)
           r == PushedNoop(c, k)
<1>2. /\ c \in QueueT /\ c.popPrev[from] = FALSE /\ c.popNext[from] = FALSE
      /\ from \in Stage /\ (from = 1 => Forward(k)) /\ (from = 3 => ~Forward(k))
    BY Links DEF Routed, QueueT, NoPops, Forward
<1>3. /\ x \in Insn /\ x.op = Noop(from).op /\ x.mem = Noop(from).mem
      /\ x.popPrev = c.popPrev[from] /\ x.popNext = c.popNext[from]
      /\ ~x.popPrev /\ ~x.popNext
      /\ IF Forward(k) THEN x.pushNext /\ ~x.pushPrev ELSE x.pushPrev /\ ~x.pushNext
    <2>1. CASE Forward(k)
        BY <1>2, <2>1 DEF NoopPush, Insn, Noop, Opcode, MemType
    <2>2. CASE ~Forward(k)
        BY <1>2, <2>2 DEF NoopPush, Insn, Noop, Opcode, MemType
    <2> QED
        BY <2>1, <2>2
<1>4. r = After(c, x, from)
    BY DEF PushedNoop
<1> HIDE DEF x, r
<1>5. Fits(x) /\ On(x, from)
    <2>1. from = 1 => ~x.popPrev /\ ~x.pushPrev
        BY <1>2, <1>3
    <2>2. from = 3 => ~x.popNext /\ ~x.pushNext
        BY <1>2, <1>3
    <2> HIDE DEF from
    <2> QED
        BY <1>2, <1>3, <2>1, <2>2, NoopFits
<1>6. \A m \in Queue : m \in PushQueues(x) <=> m = k
    <2> TAKE m \in Queue
    <2>0. FlagsHaveQueues(x)
        BY <1>5 DEF Fits
    <2>1. m \in PushQueues(x) <=> From[m] = from /\ IF Forward(m) THEN x.pushNext ELSE x.pushPrev
        <3> HIDE DEF from
        <3> QED
            BY <1>2, <1>3, <1>5, <2>0, Flags
    <2>2. m = k <=> From[m] = from /\ (Forward(m) <=> Forward(k))
        BY Links
    <2> QED
        BY <1>3, <2>1, <2>2
<1>7. Step(c, r, {from}, 1)
    BY <1>2, <1>3, <1>4, <1>5, AfterStep
<1>8. NoPops(r, from) /\ r.insns[Len(c.insns) + 1] = x /\ Len(r.insns) = Len(c.insns) + 1
    BY <1>2, <1>3, <1>4, <1>5, AfterQueue
<1>9. \A m \in Queue : /\ Pushed(r)[m] = Pushed(c)[m] + (IF m = k THEN 1 ELSE 0)
                       /\ Popped(r)[m] = Popped(c)[m]
    BY <1>2, <1>3, <1>4, <1>5, <1>6, AfterTokens
<1>10. /\ Pushed(c) \in [Queue -> Nat] /\ Popped(c) \in [Queue -> Nat]
       /\ Pushed(r) \in [Queue -> Nat] /\ Popped(r) \in [Queue -> Nat]
    BY <1>7, TokenCounts DEF Step
<1>11. Announced(r.insns, k)
    <2>1. Len(c.insns) \in Nat /\ DOMAIN r.insns = 1..Len(r.insns)
        BY <1>7, Lengths DEF Step
    <2>2. Len(c.insns) + 1 \in Pushers(r.insns, k)
        BY <1>6, <1>8, <2>1 DEF Pushers
    <2> QED
        BY <1>8, <2>1, <2>2 DEF Announced
<1>12. Pushed(r) = Plus(Pushed(c), k) /\ Popped(r) = Popped(c)
    BY <1>9, <1>10 DEF Plus
<1> QED
    BY <1>7, <1>8, <1>11, <1>12 DEF r

SetFlag(c, k, n) == IF Forward(k) THEN [c EXCEPT !.insns[n].pushNext = TRUE]
                                  ELSE [c EXCEPT !.insns[n].pushPrev = TRUE]

LEMMA PushMarkStep ==
    ASSUME NEW c, Routed(c), NEW k \in Queue, NoPops(c, From[k]), NEW s, Holds(c, s),
           NEW n \in 1..Len(s), \A i \in 1..Len(s) : i <= n, GetPipelineStage(s[n]) = From[k],
           IF Forward(k) THEN ~s[n].pushNext ELSE ~s[n].pushPrev
    PROVE  /\ Step(c, SetFlag(c, k, n), {From[k]}, 1) /\ NoPops(SetFlag(c, k, n), From[k])
           /\ Pushed(SetFlag(c, k, n)) = Plus(Pushed(c), k) /\ Popped(SetFlag(c, k, n)) = Popped(c)
           /\ Announced(SetFlag(c, k, n).insns, k)
<1> DEFINE r == SetFlag(c, k, n)
<1>2. s \in Seq(Insn) /\ s[n] \in Insn /\ Fits(s[n]) /\ c \in QueueT
    <2>1. c \in QueueT /\ s = c.insns /\ s \in Seq(Insn) /\ Len(s) \in Nat /\ DOMAIN s = 1..Len(s)
        BY Lengths DEF Routed, Holds
    <2> QED
        BY <2>1, ElementOfSeq DEF Routed
<1>3. PICK x : x = IF Forward(k) THEN [s[n] EXCEPT !.pushNext = TRUE] ELSE [s[n] EXCEPT !.pushPrev = TRUE]
    OBVIOUS
<1>4. /\ x \in Insn /\ x.op = s[n].op /\ x.mem = s[n].mem /\ x.noop = s[n].noop
      /\ x.popPrev = s[n].popPrev /\ x.popNext = s[n].popNext
      /\ Forward(k) => x.pushNext /\ ~s[n].pushNext /\ x.pushPrev = s[n].pushPrev
      /\ ~Forward(k) => x.pushPrev /\ ~s[n].pushPrev /\ x.pushNext = s[n].pushNext
    BY <1>2, <1>3 DEF Insn
<1>5. Fits(x) /\ PushesToo(x, s[n], k)
    BY <1>2, <1>4, MarkedInsn
<1>6. PICK t : t = Replaced(s, n, x)
    OBVIOUS
<1>7. r = [c EXCEPT !.insns = t]
    <2>1. CASE Forward(k)
        BY <1>2, <1>3, <1>6, <2>1 DEF Holds, Replaced, QueueT, SetFlag
    <2>2. CASE ~Forward(k)
        BY <1>2, <1>3, <1>6, <2>2 DEF Holds, Replaced, QueueT, SetFlag
    <2> QED
        BY <2>1, <2>2
<1>8. Holds(r, t) /\ r.popPrev = c.popPrev /\ r.popNext = c.popNext /\ (t \in Seq(Insn) => r \in QueueT)
    <2> HIDE DEF r
    <2> QED
        BY <1>2, <1>7 DEF Holds, QueueT
<1>9. NoPops(r, From[k])
    BY <1>8 DEF NoPops
<1> HIDE DEF r
<1>10. /\ Step(c, r, {From[k]}, 1)
       /\ Pushed(r) = Plus(Pushed(c), k) /\ Popped(r) = Popped(c)
       /\ Announced(r.insns, k)
    BY <1>2, <1>4, <1>5, <1>6, <1>8, MarkStep
<1> QED
    BY <1>9, <1>10 DEF r

LEMMA PushIntoStep ==
    ASSUME NEW c, Routed(c), NEW k \in Queue, NoPops(c, From[k])
    PROVE  /\ Step(c, PushInto(c, k), {From[k]}, 1) /\ NoPops(PushInto(c, k), From[k])
           /\ Pushed(PushInto(c, k)) = Plus(Pushed(c), k) /\ Popped(PushInto(c, k)) = Popped(c)
           /\ Announced(PushInto(c, k).insns, k)
<1> DEFINE n == Len(c.insns)
           mine == /\ n > 0 /\ GetPipelineStage(c.insns[n]) = From[k]
                   /\ IF Forward(k) THEN ~c.insns[n].pushNext ELSE ~c.insns[n].pushPrev
<1>1. CASE mine
    <2>1. PushInto(c, k) = SetFlag(c, k, n)
        BY <1>1 DEF PushInto, SetFlag
    <2>2. PICK s : Holds(c, s)
        BY DEF Holds
    <2>3. PICK m : m = n
        OBVIOUS
    <2>4. /\ m \in 1..Len(s) /\ \A i \in 1..Len(s) : i <= m
          /\ GetPipelineStage(s[m]) = From[k]
          /\ IF Forward(k) THEN ~s[m].pushNext ELSE ~s[m].pushPrev
        BY <1>1, <2>2, <2>3, Lengths DEF Holds
    <2>5. PushInto(c, k) = SetFlag(c, k, m)
        BY <2>1, <2>3
    <2> HIDE DEF n, mine
    <2> QED
        BY <2>2, <2>4, <2>5, PushMarkStep
<1>2. CASE ~mine
    <2>1. PushInto(c, k) = [c EXCEPT !.insns = Append(@, NoopPush(k))]
        BY <1>2 DEF PushInto, PushNoop, NoopPush
    <2>2. /\ c \in QueueT /\ c.popPrev[From[k]] = FALSE /\ c.popNext[From[k]] = FALSE
        BY Links DEF Routed, QueueT, NoPops
    <2>3. PushInto(c, k) = PushedNoop(c, k)
        BY <2>1, <2>2 DEF PushedNoop, After, QueueT
    <2> HIDE DEF n, mine
    <2> QED
        BY <2>3, PushNoopStep
<1> QED
    BY <1>1, <1>2

LEMMA PushStep ==
    ASSUME NEW q, Routed(q), NEW k \in Queue, NEW from, NEW to, from = From[k], to = To[k]
    PROVE  /\ Step(q, DepPushOp(q, from, to), {from}, 2) /\ NoPops(DepPushOp(q, from, to), from)
           /\ Pushed(DepPushOp(q, from, to)) = Plus(Pushed(q), k)
           /\ Popped(DepPushOp(q, from, to)) = Popped(q)
           /\ Announced(DepPushOp(q, from, to).insns, k)
<1>1. PICK c : c = CommitPendingPop(q, from)
    OBVIOUS
<1>2. from \in Stage
    BY Links
<1>3. Step(q, c, {from}, 1) /\ NoPops(c, from) /\ Pushed(c) = Pushed(q) /\ Popped(c) = Popped(q)
    BY <1>1, <1>2, CommitStep
<1>4. DepPushOp(q, from, to) = PushInto(c, k)
    BY <1>1 DEF PushInto, DepPushOp, Forward
<1>5. /\ Step(c, PushInto(c, k), {from}, 1) /\ NoPops(PushInto(c, k), from)
      /\ Pushed(PushInto(c, k)) = Plus(Pushed(c), k) /\ Popped(PushInto(c, k)) = Popped(c)
      /\ Announced(PushInto(c, k).insns, k)
    BY <1>3, PushIntoStep DEF Step
<1>6. Step(q, PushInto(c, k), {from} \cup {from}, 1 + 1)
    BY <1>3, <1>5, TwoSteps, SameBehind
<1>7. {from} \cup {from} = {from} /\ 1 + 1 = 2
    OBVIOUS
<1> QED
    BY <1>3, <1>4, <1>5, <1>6, <1>7

\* A pop waits for an instruction of its stage; one that waits already is committed first.
PendToo(c, k) == IF Forward(k) THEN [c EXCEPT !.popPrev[To[k]] = TRUE]
                               ELSE [c EXCEPT !.popNext[To[k]] = TRUE]

LEMMA PendStep ==
    ASSUME NEW c, Routed(c), NEW k \in Queue, ~Pend(c, k)
    PROVE  /\ Step(c, PendToo(c, k), {To[k]}, 0)
           /\ Pushed(PendToo(c, k)) = Pushed(c)
           /\ Popped(PendToo(c, k)) = Plus(Popped(c), k)
<1> DEFINE r == PendToo(c, k)
<1>1. c \in QueueT /\ To[k] \in Stage /\ (To[k] = 1 => ~Forward(k)) /\ (To[k] = 3 => Forward(k))
    BY Links DEF Routed
<1>2. /\ r \in QueueT /\ r.insns = c.insns
      /\ \A s \in Stage \ {To[k]} : r.popPrev[s] = c.popPrev[s] /\ r.popNext[s] = c.popNext[s]
      /\ Forward(k) => r.popPrev[To[k]] /\ r.popNext = c.popNext
      /\ ~Forward(k) => r.popNext[To[k]] /\ r.popPrev = c.popPrev
    <2>1. CASE Forward(k)
        BY <1>1, <2>1 DEF PendToo, QueueT
    <2>2. CASE ~Forward(k)
        BY <1>1, <2>2 DEF PendToo, QueueT
    <2> QED
        BY <2>1, <2>2
<1> HIDE DEF r
<1>3. Routed(r)
    <2>1. 1 \in Stage /\ 3 \in Stage
        BY DEF Stage, LoadStage, StoreStage
    <2>2. ~r.popPrev[1]
        <3>1. CASE To[k] = 1
            BY <1>1, <1>2, <3>1 DEF Routed
        <3>2. CASE To[k] # 1
            BY <1>2, <2>1, <3>2 DEF Routed
        <3> QED
            BY <3>1, <3>2
    <2>3. ~r.popNext[3]
        <3>1. CASE To[k] = 3
            BY <1>1, <1>2, <3>1 DEF Routed
        <3>2. CASE To[k] # 3
            BY <1>2, <2>1, <3>2 DEF Routed
        <3> QED
            BY <3>1, <3>2
    <2> QED
        BY <1>2, <2>2, <2>3 DEF Routed
<1>4. Len(r.insns) <= Len(c.insns) + 0
    BY <1>2, Lengths
<1>5. Step(c, r, {To[k]}, 0)
    BY <1>2, <1>3, <1>4 DEF Step, StaysOrdered
<1>6. \A m \in Queue : Pend(r, m) <=> Pend(c, m) \/ m = k
    <2> TAKE m \in Queue
    <2>1. To[m] \in Stage /\ (m = k <=> To[m] = To[k] /\ (Forward(m) <=> Forward(k)))
        BY Links
    <2>2. CASE To[m] = To[k]
        BY <1>2, <2>1, <2>2 DEF Pend
    <2>3. CASE To[m] # To[k]
        BY <1>2, <2>1, <2>3 DEF Pend
    <2> QED
        BY <2>2, <2>3
<1>7. Pushed(r) = Pushed(c)
    BY <1>2 DEF Pushed
<1>8. Popped(r) = Plus(Popped(c), k)
    <2>1. Popped(c) \in [Queue -> Nat] /\ Popped(r) \in [Queue -> Nat]
        BY <1>3, TokenCounts
    <2>2. \A m \in Queue : Popped(r)[m] = Popped(c)[m] + (IF m = k THEN 1 ELSE 0)
        <3> TAKE m \in Queue
        <3>1. Cardinality(Poppers(c.insns, m)) \in Nat
            BY Positions, Lengths
        <3>2. /\ Popped(r)[m] = Cardinality(Poppers(c.insns, m)) + (IF Pend(r, m) THEN 1 ELSE 0)
              /\ Popped(c)[m] = Cardinality(Poppers(c.insns, m)) + (IF Pend(c, m) THEN 1 ELSE 0)
            BY <1>2 DEF Popped
        <3> QED
            BY <1>6, <3>1, <3>2
    <2> QED
        BY <2>1, <2>2 DEF Plus
<1> QED
    BY <1>5, <1>7, <1>8 DEF r

LEMMA PopStep ==
    ASSUME NEW q, Routed(q), NEW k \in Queue, NEW from, NEW to, from = From[k], to = To[k]
    PROVE  /\ Step(q, DepPopOp(q, from, to), {to}, 1)
           /\ Pushed(DepPopOp(q, from, to)) = Pushed(q)
           /\ Popped(DepPopOp(q, from, to)) = Plus(Popped(q), k)
<1>1. PICK c : c = IF Pend(q, k) THEN CommitPendingPop(q, to) ELSE q
    OBVIOUS
<1>2. to \in Stage
    BY Links
<1>3. Step(q, c, {to}, 1) /\ ~Pend(c, k) /\ Pushed(c) = Pushed(q) /\ Popped(c) = Popped(q)
    <2>1. CASE Pend(q, k)
        <3>1. c = CommitPendingPop(q, to)
            BY <1>1, <2>1
        <3>2. Step(q, c, {to}, 1) /\ NoPops(c, to) /\ Pushed(c) = Pushed(q) /\ Popped(c) = Popped(q)
            BY <1>2, <3>1, CommitStep
        <3> QED
            BY <3>2 DEF NoPops, Pend
    <2>2. CASE ~Pend(q, k)
        <3>1. Step(q, q, {to}, 1)
            BY Lengths DEF Step, StaysOrdered
        <3> QED
            BY <1>1, <2>2, <3>1
    <2> QED
        BY <2>1, <2>2
<1>4. DepPopOp(q, from, to) = PendToo(c, k)
    BY <1>1 DEF PendToo, DepPopOp, Forward, Pend
<1>5. /\ Step(c, PendToo(c, k), {to}, 0)
      /\ Pushed(PendToo(c, k)) = Pushed(c) /\ Popped(PendToo(c, k)) = Plus(Popped(c), k)
    BY <1>3, PendStep DEF Step
<1>6. Step(q, PendToo(c, k), {to} \cup {to}, 1 + 0)
    <2>1. Step(q, c, {to}, 1) /\ StaysBehind(q, c)
        BY <1>3, SameBehind
    <2> QED
        BY <1>5, <2>1, TwoSteps
<1>7. {to} \cup {to} = {to} /\ 1 + 0 = 1
    OBVIOUS
<1> QED
    BY <1>3, <1>4, <1>5, <1>6, <1>7

--------------------------------------------------------------------------------
(* What Synchronize does to the queue.                                         *)

LEMMA StepParts ==
    ASSUME NEW q, NEW r, NEW T, NEW n, Step(q, r, T, n)
    PROVE  /\ Routed(r) /\ Len(r.insns) <= Len(q.insns) + n
           /\ StaysOrdered(q, r)
           /\ \A k \in Queue : From[k] \notin T /\ Announced(q.insns, k) => Announced(r.insns, k)
           /\ \A s \in Stage : s \notin T /\ NoPops(q, s) => NoPops(r, s)
BY DEF Step, NoPops

LEMMA PlusValues ==
    ASSUME NEW f \in [Queue -> Nat], NEW m \in Queue
    PROVE  /\ Plus(f, m) \in [Queue -> Nat]
           /\ \A k \in Queue : Plus(f, m)[k] = f[k] + (IF k = m THEN 1 ELSE 0)
BY DEF Plus

LEMMA WaitForAllStep ==
    ASSUME NEW q, Routed(q)
    PROVE  /\ Routed(WaitForAllOp(q)) /\ \A s \in Stage : NoPops(WaitForAllOp(q), s)
           /\ Pushed(WaitForAllOp(q)) = Plus(Plus(Pushed(q), "s2g"), "l2g")
           /\ Popped(WaitForAllOp(q)) = Plus(Plus(Popped(q), "s2g"), "l2g")
           /\ Len(WaitForAllOp(q).insns) <= Len(q.insns) + 7
           /\ StaysOrdered(q, WaitForAllOp(q))
           /\ Announced(WaitForAllOp(q).insns, "l2g") /\ Announced(WaitForAllOp(q).insns, "s2g")
<1>1. PICK a : a = DepPushOp(q, 3, 2)
    OBVIOUS
<1>2. PICK b : b = DepPushOp(a, 1, 2)
    OBVIOUS
<1>3. PICK c : c = DepPopOp(b, 3, 2)
    OBVIOUS
<1>4. PICK d : d = DepPopOp(c, 1, 2)
    OBVIOUS
<1>5. PICK e : e = CommitPendingPop(d, 2)
    OBVIOUS
<1>6. e = WaitForAllOp(q)
    BY <1>1, <1>2, <1>3, <1>4, <1>5 DEF WaitForAllOp, LoadStage, ComputeStage, StoreStage
<1>7. /\ "s2g" \in Queue /\ "l2g" \in Queue /\ From["s2g"] = 3 /\ To["s2g"] = 2
      /\ From["l2g"] = 1 /\ To["l2g"] = 2 /\ 2 \in Stage
    BY DEF Queue, From, To, Stage, LoadStage, StoreStage
<1>8. /\ Step(q, a, {3}, 2) /\ NoPops(a, 3) /\ Announced(a.insns, "s2g")
      /\ Pushed(a) = Plus(Pushed(q), "s2g") /\ Popped(a) = Popped(q)
    BY <1>1, <1>7, PushStep
<1>9. /\ Step(a, b, {1}, 2) /\ NoPops(b, 1) /\ Announced(b.insns, "l2g")
      /\ Pushed(b) = Plus(Pushed(a), "l2g") /\ Popped(b) = Popped(a)
    <2>1. Routed(a)
        BY <1>8, StepParts
    <2> QED
        BY <1>2, <1>7, <2>1, PushStep
<1>10. Step(b, c, {2}, 1) /\ Pushed(c) = Pushed(b) /\ Popped(c) = Plus(Popped(b), "s2g")
    <2>1. Routed(b)
        BY <1>9, StepParts
    <2> QED
        BY <1>3, <1>7, <2>1, PopStep
<1>11. Step(c, d, {2}, 1) /\ Pushed(d) = Pushed(c) /\ Popped(d) = Plus(Popped(c), "l2g")
    <2>1. Routed(c)
        BY <1>10, StepParts
    <2> QED
        BY <1>4, <1>7, <2>1, PopStep
<1>12. Step(d, e, {2}, 1) /\ NoPops(e, 2) /\ Pushed(e) = Pushed(d) /\ Popped(e) = Popped(d)
    <2>1. Routed(d)
        BY <1>11, StepParts
    <2> QED
        BY <1>5, <1>7, <2>1, CommitStep
<1>13. Routed(a) /\ Routed(b) /\ Routed(c) /\ Routed(d) /\ Routed(e)
    BY <1>8, <1>9, <1>10, <1>11, <1>12, StepParts
<1>14. ASSUME NEW s \in Stage
       PROVE  NoPops(e, s)
    <2>1. s \in {1, 2, 3}
        BY DEF Stage, LoadStage, StoreStage
    <2>2. CASE s = 1
        BY <1>9, <1>10, <1>11, <1>12, <2>2, StepParts
    <2>3. CASE s = 2
        BY <1>12, <2>3
    <2>4. CASE s = 3
        BY <1>8, <1>9, <1>10, <1>11, <1>12, <2>4, StepParts
    <2> QED
        BY <2>1, <2>2, <2>3, <2>4
<1>15. Len(e.insns) <= Len(q.insns) + 7
    <2>1. /\ Len(q.insns) \in Nat /\ Len(a.insns) \in Nat /\ Len(b.insns) \in Nat
          /\ Len(c.insns) \in Nat /\ Len(d.insns) \in Nat /\ Len(e.insns) \in Nat
        BY <1>13, Lengths
    <2>2. /\ Len(a.insns) <= Len(q.insns) + 2 /\ Len(b.insns) <= Len(a.insns) + 2
          /\ Len(c.insns) <= Len(b.insns) + 1 /\ Len(d.insns) <= Len(c.insns) + 1
          /\ Len(e.insns) <= Len(d.insns) + 1
        BY <1>8, <1>9, <1>10, <1>11, <1>12, StepParts
    <2>3. \A x, u, v, w, y, z \in Nat :
             u <= x + 2 /\ v <= u + 2 /\ w <= v + 1 /\ y <= w + 1 /\ z <= y + 1 => z <= x + 7
        OBVIOUS
    <2> QED
        BY <2>1, <2>2, <2>3
<1>16. StaysOrdered(q, e)
    <2>1. SUFFICES ASSUME NEW z \in Base, Behind(q, z), Ordered(q.insns, z)
                   PROVE  Ordered(e.insns, z)
        BY DEF StaysOrdered
    <2>2. /\ Pushed(q) \in [Queue -> Nat] /\ Popped(q) \in [Queue -> Nat]
          /\ Pushed(a) \in [Queue -> Nat] /\ Popped(b) \in [Queue -> Nat] /\ Popped(c) \in [Queue -> Nat]
        BY <1>13, TokenCounts
    <2>3. \A k \in Queue : Pushed(a)[k] = Pushed(q)[k] + (IF k = "s2g" THEN 1 ELSE 0) /\ Popped(a)[k] = Popped(q)[k]
        BY <1>7, <1>8, <2>2, PlusValues
    <2>4. \A k \in Queue : Pushed(b)[k] = Pushed(a)[k] + (IF k = "l2g" THEN 1 ELSE 0) /\ Popped(b)[k] = Popped(q)[k]
        BY <1>7, <1>8, <1>9, <2>2, PlusValues
    <2>5. \A k \in Queue : Pushed(c)[k] = Pushed(b)[k] /\ Popped(c)[k] = Popped(b)[k] + (IF k = "s2g" THEN 1 ELSE 0)
        BY <1>7, <1>10, <2>2, PlusValues
    <2>6. \A k \in Queue : Pushed(d)[k] = Pushed(c)[k] /\ Popped(d)[k] = Popped(c)[k] + (IF k = "l2g" THEN 1 ELSE 0)
        BY <1>7, <1>11, <2>2, PlusValues
    <2>7. \A k \in Queue : /\ Popped(q)[k] <= z[k] + Pushed(q)[k]
                           /\ Popped(q)[k] \in Nat /\ Pushed(q)[k] \in Nat /\ z[k] \in Nat
        BY <2>1, <2>2 DEF Behind, Base
    <2>8. Behind(a, z)
        BY <2>3, <2>7 DEF Behind
    <2>9. Behind(b, z)
        BY <2>3, <2>4, <2>7 DEF Behind
    <2>10. Behind(c, z)
        BY <2>3, <2>4, <2>5, <2>7 DEF Behind
    <2>11. Behind(d, z)
        BY <2>3, <2>4, <2>5, <2>6, <2>7 DEF Behind
    <2>12. /\ StaysOrdered(q, a) /\ StaysOrdered(a, b) /\ StaysOrdered(b, c)
           /\ StaysOrdered(c, d) /\ StaysOrdered(d, e)
        BY <1>8, <1>9, <1>10, <1>11, <1>12, StepParts
    <2> QED
        BY <2>1, <2>8, <2>9, <2>10, <2>11, <2>12 DEF StaysOrdered
<1>17. Announced(e.insns, "l2g") /\ Announced(e.insns, "s2g")
    BY <1>7, <1>8, <1>9, <1>10, <1>11, <1>12, StepParts
<1>18. /\ Pushed(e) = Plus(Plus(Pushed(q), "s2g"), "l2g")
       /\ Popped(e) = Plus(Plus(Popped(q), "s2g"), "l2g")
    BY <1>8, <1>9, <1>10, <1>11, <1>12
<1> QED
    BY <1>6, <1>13, <1>14, <1>15, <1>16, <1>17, <1>18

\* FINISH has no stage of its own in the host's eyes: it is created for the
\* compute stage, whose pops have been committed.
IsFinish(x) ==
    /\ x \in Insn /\ x.op = "FINISH" /\ GetCoreType(x) = "GEMM" /\ FlagsHaveQueues(x)
    /\ PushQueues(x) = {} /\ PopQueues(x) = {}

LEMMA FinishStep ==
    ASSUME NEW q, Routed(q), NoPops(q, 2), NEW r, r = Create(q, 2, "FINISH", "UOP")
    PROVE  \E x \in Insn :
             /\ IsFinish(x) /\ r.insns = Append(q.insns, x)
             /\ r.popPrev = q.popPrev /\ r.popNext = q.popNext /\ r \in QueueT
             /\ Pushed(r) = Pushed(q) /\ Popped(r) = Popped(q)
<1>1. /\ q \in QueueT /\ 2 \in Stage /\ q.popPrev[2] = FALSE /\ q.popNext[2] = FALSE
    BY DEF Routed, QueueT, NoPops, Stage, LoadStage, StoreStage
<1>2. PICK x : x = [PlainInsn("FINISH", "UOP") EXCEPT !.popPrev = q.popPrev[2], !.popNext = q.popNext[2]]
    OBVIOUS
<1>3. x \in Insn /\ x.op = "FINISH" /\ ~x.popPrev /\ ~x.popNext /\ ~x.pushPrev /\ ~x.pushNext
    BY <1>1, <1>2 DEF PlainInsn, Insn, Opcode, MemType
<1>4. IsFinish(x)
    BY <1>3 DEF IsFinish, GetCoreType, FlagsHaveQueues, PushQueues, PopQueues
<1>5. r = [q EXCEPT !.insns = Append(@, x)]
    <2>1. r = ClearPending([q EXCEPT !.insns = Append(@, x)], 2)
        BY <1>2 DEF Create
    <2>2. [q.popPrev EXCEPT ![2] = FALSE] = q.popPrev /\ [q.popNext EXCEPT ![2] = FALSE] = q.popNext
        <3>1. q.popPrev \in [Stage -> BOOLEAN] /\ q.popNext \in [Stage -> BOOLEAN]
            BY <1>1 DEF QueueT
        <3> QED
            BY <1>1, <3>1
    <2> QED
        BY <1>1, <2>1, <2>2 DEF ClearPending, QueueT
<1>6. r.insns = Append(q.insns, x) /\ r.popPrev = q.popPrev /\ r.popNext = q.popNext
    BY <1>1, <1>5 DEF QueueT
<1>7. q.insns \in Seq(Insn) /\ r.insns \in Seq(Insn)
    <2>1. \A s \in Seq(Insn), y \in Insn : Append(s, y) \in Seq(Insn)
        BY AppendProperties
    <2> QED
        BY <1>1, <1>3, <1>6, <2>1 DEF QueueT
<1>8. r \in QueueT
    BY <1>1, <1>5, <1>6, <1>7 DEF QueueT
<1>9. \A k \in Queue : /\ Pushers(r.insns, k) = Pushers(q.insns, k)
                       /\ Poppers(r.insns, k) = Poppers(q.insns, k)
    <2>1. \A s \in Seq(Insn), y \in Insn : \A v : v = Append(s, y) =>
             \A k \in Queue : /\ Pushers(v, k) = OneMore(Pushers(s, k), PushQueues(y), k, Len(s) + 1)
                             /\ Poppers(v, k) = OneMore(Poppers(s, k), PopQueues(y), k, Len(s) + 1)
        BY Appended
    <2> QED
        BY <1>3, <1>4, <1>6, <1>7, <2>1 DEF OneMore, IsFinish
<1>10. \A k \in Queue : Pend(r, k) <=> Pend(q, k)
    BY <1>6 DEF Pend
<1>11. Pushed(r) = Pushed(q) /\ Popped(r) = Popped(q)
    BY <1>9, <1>10 DEF Pushed, Popped
<1> QED
    BY <1>3, <1>4, <1>6, <1>8, <1>11

\* The chain of RewriteForceSerial gives a stage only flags it has queues for.
LEMMA ChainRouted ==
    ASSUME NEW q, Routed(q), NEW s, s = q.insns,
           NEW t, t = SubSeq(ChainInsns(s), 1, Len(s))
    PROVE  Routed([q EXCEPT !.insns = t]) /\ Len(t) = Len(s)
<1>1. /\ q \in QueueT /\ s \in Seq(Insn) /\ Len(s) \in Nat /\ DOMAIN s = 1..Len(s)
      /\ \A i \in 1..Len(s) : s[i] \in Insn /\ Fits(s[i])
    <2>1. q \in QueueT /\ s \in Seq(Insn) /\ Len(s) \in Nat /\ DOMAIN s = 1..Len(s)
        BY Lengths DEF Routed
    <2> QED
        BY <2>1, ElementOfSeq DEF Routed
<1>2. ASSUME NEW i \in 1..Len(s)
      PROVE  ChainInsns(s)[i] \in Insn /\ Fits(ChainInsns(s)[i])
    <2> DEFINE x == s[i]
               y == ChainInsns(s)[i]
               u == GetPipelineStageAll(s[i])
               up   == i > 1 /\ Chained(s[i - 1], s[i])
               down == i < Len(s) /\ Chained(s[i], s[i + 1])
               ofUp   == GetPipelineStageAll(s[i - 1]) < u
               ofDown == u < GetPipelineStageAll(s[i + 1])
    <2>1. x \in Insn /\ Fits(x) /\ u \in Stage /\ u \in {1, 2, 3} /\ On(x, u)
        BY <1>1 DEF Fits, Stage, LoadStage, StoreStage
    <2>2. y = [x EXCEPT !.popPrev  = IF i = 1 THEN x.popPrev ELSE up /\ ofUp,
                        !.popNext  = IF i = 1 THEN x.popNext ELSE up /\ ~ofUp,
                        !.pushPrev = IF i = Len(s) THEN x.pushPrev ELSE down /\ ~ofDown,
                        !.pushNext = IF i = Len(s) THEN x.pushNext ELSE down /\ ofDown]
        BY <1>1 DEF ChainInsns
    <2>3. up \in BOOLEAN /\ down \in BOOLEAN /\ ofUp \in BOOLEAN /\ ofDown \in BOOLEAN
        OBVIOUS
    <2>4. up => /\ GetPipelineStageAll(s[i - 1]) \in Stage
                /\ u = 1 => ~ofUp
                /\ u = 3 => ofUp
        <3>1. up => i - 1 \in 1..Len(s)
            BY <1>1
        <3>2. up => GetPipelineStageAll(s[i - 1]) \in Stage /\ <<GetPipelineStageAll(s[i - 1]), u>> \in Link
            BY <1>1, <3>1 DEF Fits, Chained
        <3> QED
            BY <3>2 DEF Link, Stage, LoadStage, StoreStage
    <2>5. down => /\ GetPipelineStageAll(s[i + 1]) \in Stage
                  /\ u = 1 => ofDown
                  /\ u = 3 => ~ofDown
        <3>1. down => i + 1 \in 1..Len(s)
            BY <1>1
        <3>2. down => GetPipelineStageAll(s[i + 1]) \in Stage /\ <<u, GetPipelineStageAll(s[i + 1])>> \in Link
            BY <1>1, <3>1 DEF Fits, Chained
        <3> QED
            BY <3>2 DEF Link, Stage, LoadStage, StoreStage
    <2>6. (u = 1 => ~x.popPrev /\ ~x.pushPrev) /\ (u = 3 => ~x.popNext /\ ~x.pushNext)
        BY <2>1 DEF Fits, FlagsHaveQueues, On, CoreOf, PopPrevQueue, PushPrevQueue, PopNextQueue, PushNextQueue
    <2> HIDE DEF up, down, ofUp, ofDown
    <2>7. /\ y \in Insn /\ y.op = x.op /\ y.mem = x.mem /\ y.noop = x.noop
          /\ (u = 1 => ~y.popPrev /\ ~y.pushPrev) /\ (u = 3 => ~y.popNext /\ ~y.pushNext)
        <3> HIDE DEF u, y
        <3>1. PICK pp \in BOOLEAN, pn \in BOOLEAN, qp \in BOOLEAN, qn \in BOOLEAN :
                 /\ pp = (IF i = 1 THEN x.popPrev ELSE up /\ ofUp)
                 /\ pn = (IF i = 1 THEN x.popNext ELSE up /\ ~ofUp)
                 /\ qp = (IF i = Len(s) THEN x.pushPrev ELSE down /\ ~ofDown)
                 /\ qn = (IF i = Len(s) THEN x.pushNext ELSE down /\ ofDown)
            <4>1. x.popPrev \in BOOLEAN /\ x.popNext \in BOOLEAN /\ x.pushPrev \in BOOLEAN /\ x.pushNext \in BOOLEAN
                BY <2>1 DEF Insn
            <4> HIDE DEF x
            <4> QED
                BY <2>3, <4>1
        <3>2. y = [x EXCEPT !.popPrev = pp, !.popNext = pn, !.pushPrev = qp, !.pushNext = qn]
            BY <2>2, <3>1, Zenon
        <3>3. /\ y.op = x.op /\ y.mem = x.mem /\ y.noop = x.noop
              /\ y.popPrev = pp /\ y.popNext = pn /\ y.pushPrev = qp /\ y.pushNext = qn
              /\ y \in Insn
            BY <2>1, <3>2 DEF Insn
        <3> QED
            BY <2>4, <2>5, <2>6, <3>1, <3>3
    <2> HIDE DEF y, x
    <2>8. GetPipelineStageAll(y) = u /\ On(y, u)
        <3>1. GetPipelineStageAll(y) = GetPipelineStageAll(x) /\ GetCoreType(y) = GetCoreType(x)
            BY <2>7 DEF GetPipelineStageAll, GetPipelineStage, GetCoreType
        <3> QED
            BY <2>1, <3>1 DEF On, x
    <2>9. FlagsHaveQueues(y)
        BY <2>1, <2>7, <2>8, HasQueues
    <2> QED
        BY <2>1, <2>7, <2>8, <2>9 DEF Fits, y, x
<1>3. /\ Len(t) = Len(s) /\ DOMAIN t = 1..Len(s) /\ t \in Seq(Insn)
      /\ \A i \in 1..Len(s) : t[i] = ChainInsns(s)[i]
    <2>1. t = [i \in 1..Len(s) |-> ChainInsns(s)[i]]
        BY <1>1 
    <2> QED
        BY <1>1, <1>2, <2>1
<1>4. [q EXCEPT !.insns = t] \in QueueT
    BY <1>1, <1>3 DEF QueueT
<1> QED
    BY <1>1, <1>2, <1>3, <1>4 DEF Routed, QueueT

\* The stores at the end of a serial stream: the last one tells the compute stage.
StoreTold(q, n) ==
    LET marked == [q EXCEPT !.insns[n].pushPrev = TRUE] IN
    CommitPendingPop(IF marked.popNext[2] THEN marked ELSE DepPopOp(marked, 3, 2), 2)

LEMMA StoreToldRouted ==
    ASSUME NEW q, Routed(q), NEW s, Holds(q, s), NEW n \in 1..Len(s), GetPipelineStageAll(s[n]) = 3
    PROVE  Routed(StoreTold(q, n))
<1>1. /\ q \in QueueT /\ s \in Seq(Insn) /\ s = q.insns /\ DOMAIN s = 1..Len(s)
      /\ s[n] \in Insn /\ Fits(s[n]) /\ \A i \in 1..Len(s) : Fits(s[i])
    <2>1. q \in QueueT /\ s = q.insns /\ s \in Seq(Insn) /\ DOMAIN s = 1..Len(s)
        BY Lengths DEF Routed, Holds
    <2> QED
        BY <2>1, ElementOfSeq DEF Routed
<1>2. PICK x : x = [s[n] EXCEPT !.pushPrev = TRUE]
    OBVIOUS
<1>3. PICK t : t = [s EXCEPT ![n] = x]
    OBVIOUS
<1>4. PICK m : m = [q EXCEPT !.insns[n].pushPrev = TRUE]
    OBVIOUS
<1>5. m = [q EXCEPT !.insns = t]
    BY <1>1, <1>2, <1>3, <1>4 DEF QueueT
<1>6. /\ x \in Insn /\ x.op = s[n].op /\ x.mem = s[n].mem /\ x.noop = s[n].noop
      /\ x.popNext = s[n].popNext /\ x.pushNext = s[n].pushNext
    BY <1>1, <1>2 DEF Insn
<1>7. 3 \in Stage /\ 2 \in Stage
    BY DEF Stage, LoadStage, StoreStage
<1>8. Fits(x)
    <2>1. GetPipelineStageAll(x) = 3 /\ GetCoreType(x) = GetCoreType(s[n])
        BY <1>6 DEF GetPipelineStageAll, GetPipelineStage, GetCoreType
    <2>2. On(x, 3) /\ On(s[n], 3)
        BY <1>1, <2>1 DEF Fits, On
    <2>3. ~s[n].popNext /\ ~s[n].pushNext
        BY <1>1, <2>2 DEF Fits, FlagsHaveQueues, On, CoreOf, PopNextQueue, PushNextQueue
    <2>4. FlagsHaveQueues(x)
        BY <1>6, <1>7, <2>2, <2>3, HasQueues
    <2> QED
        BY <1>1, <1>6, <1>7, <2>1, <2>2, <2>4 DEF Fits
<1>9. t \in Seq(Insn) /\ Len(t) = Len(s) /\ \A i \in 1..Len(s) : t[i] = IF i = n THEN x ELSE s[i]
    BY <1>1, <1>3, <1>6, ExceptSeq
<1>10. DOMAIN t = 1..Len(s) /\ m.insns = t /\ m.popPrev = q.popPrev /\ m.popNext = q.popNext /\ m \in QueueT
    BY <1>1, <1>5, <1>9, LenProperties DEF QueueT
<1>11. Routed(m)
    <2>1. \A i \in DOMAIN t : Fits(t[i])
        BY <1>1, <1>8, <1>9, <1>10
    <2> QED
        BY <1>10, <2>1 DEF Routed
<1>12. PICK a : a = IF m.popNext[2] THEN m ELSE DepPopOp(m, 3, 2)
    OBVIOUS
<1>13. Routed(a)
    <2>1. "s2g" \in Queue /\ From["s2g"] = 3 /\ To["s2g"] = 2
        BY DEF Queue, From, To
    <2>2. Routed(DepPopOp(m, 3, 2))
        BY <1>11, <2>1, PopStep DEF Step
    <2> QED
        BY <1>11, <1>12, <2>2
<1>14. Routed(CommitPendingPop(a, 2))
    BY <1>7, <1>13, CommitStep DEF Step
<1> QED
    BY <1>4, <1>12, <1>14 DEF StoreTold

LEMMA SerialStep ==
    ASSUME NEW q, Routed(q)
    PROVE  Routed(RewriteForceSerial(q)) /\ NoPops(RewriteForceSerial(q), 2)
<1>1. PICK s : s = SubSeq(ChainInsns(q.insns), 1, Len(q.insns))
    OBVIOUS
<1>2. PICK q0 : q0 = [q EXCEPT !.insns = s]
    OBVIOUS
<1>3. Routed(q0) /\ Holds(q0, s) /\ q0.popPrev = q.popPrev /\ q0.popNext = q.popNext
    BY <1>1, <1>2, ChainRouted DEF Holds, Routed, QueueT
<1>4. PICK n : n = Len(s)
    OBVIOUS
<1>5. PICK q1 : q1 = IF n > 1 /\ GetPipelineStageAll(s[n]) = StoreStage THEN StoreTold(q0, n)
                     ELSE [q0 EXCEPT !.popNext[2] = FALSE]
    OBVIOUS
<1>6. Routed(q1)
    <2>1. CASE n > 1 /\ GetPipelineStageAll(s[n]) = StoreStage
        <3>0. Len(s) \in Nat
            BY <1>3, Lengths DEF Holds
        <3>1. n \in 1..Len(s) /\ GetPipelineStageAll(s[n]) = 3
            <4>1. \A x \in Nat : x > 1 => x \in 1..x
                OBVIOUS
            <4>2. n > 1 /\ GetPipelineStageAll(s[n]) = 3
                BY <2>1 DEF StoreStage
            <4> QED
                BY <1>4, <3>0, <4>1, <4>2
        <3>2. Routed(StoreTold(q0, n))
            BY <1>3, <3>1, StoreToldRouted
        <3> QED
            BY <1>5, <2>1, <3>2
    <2>2. CASE ~(n > 1 /\ GetPipelineStageAll(s[n]) = StoreStage)
        <3>1. q0 \in QueueT /\ 3 \in Stage
            BY <1>3 DEF Routed, Stage, LoadStage, StoreStage
        <3>2. q1 = [q0 EXCEPT !.popNext[2] = FALSE]
            BY <1>5, <2>2
        <3>3. PICK pn : pn = [q0.popNext EXCEPT ![2] = FALSE]
            OBVIOUS
        <3>4. pn \in [Stage -> BOOLEAN] /\ ~pn[3]
            <4>1. q0.popNext \in [Stage -> BOOLEAN] /\ ~q0.popNext[3]
                BY <1>3, <3>1 DEF QueueT, Routed
            <4>2. \A f \in [Stage -> BOOLEAN] : ~f[3] => /\ [f EXCEPT ![2] = FALSE] \in [Stage -> BOOLEAN]
                                                        /\ ~[f EXCEPT ![2] = FALSE][3]
                BY <3>1
            <4> QED
                BY <3>3, <4>1, <4>2
        <3>5. q1 = [q0 EXCEPT !.popNext = pn]
            BY <3>2, <3>3
        <3>6. q1 \in QueueT /\ q1.insns = q0.insns /\ q1.popPrev = q0.popPrev /\ ~q1.popNext[3]
            BY <3>1, <3>4, <3>5 DEF QueueT
        <3> QED
            BY <1>3, <3>6 DEF Routed
    <2> QED
        BY <2>1, <2>2
<1>7. /\ "g2l" \in Queue /\ From["g2l"] = 2 /\ To["g2l"] = 1
      /\ "l2g" \in Queue /\ From["l2g"] = 1 /\ To["l2g"] = 2 /\ 1 \in Stage /\ 2 \in Stage
    BY DEF Queue, From, To, Stage, LoadStage, StoreStage
<1>8. PICK a : a = DepPushOp(q1, 2, 1)
    OBVIOUS
<1>9. Routed(a)
    BY <1>6, <1>7, <1>8, PushStep DEF Step
<1>10. PICK q2 : q2 = DepPopOp(a, 1, 2)
    OBVIOUS
<1>11. Routed(q2)
    BY <1>7, <1>9, <1>10, PopStep DEF Step
<1>12. PICK q3 : q3 = IF q2.popNext[1] THEN q2 ELSE DepPopOp(q2, 2, 1)
    OBVIOUS
<1>13. Routed(q3)
    <2>1. Routed(DepPopOp(q2, 2, 1))
        BY <1>7, <1>11, PopStep DEF Step
    <2> QED
        BY <1>11, <1>12, <2>1
<1>14. PICK b : b = CommitPendingPop(q3, 1)
    OBVIOUS
<1>15. Routed(b)
    BY <1>7, <1>13, <1>14, CommitStep DEF Step
<1>16. PICK c : c = DepPushOp(b, 1, 2)
    OBVIOUS
<1>17. Routed(c)
    BY <1>7, <1>15, <1>16, PushStep DEF Step
<1>18. PICK d : d = CommitPendingPop(c, 2)
    OBVIOUS
<1>19. Routed(d) /\ NoPops(d, 2)
    BY <1>7, <1>17, <1>18, CommitStep DEF Step
<1>20. RewriteForceSerial(q) = d
    <2> DEFINE LastPart(x) ==
            LET x2 == DepPopOp(DepPushOp(x, 2, 1), 1, 2)
                x3 == IF x2.popNext[1] THEN x2 ELSE DepPopOp(x2, 2, 1)
            IN  CommitPendingPop(DepPushOp(CommitPendingPop(x3, 1), 1, 2), 2)
    <2>1. d = LastPart(q1)
        BY <1>8, <1>10, <1>12, <1>14, <1>16, <1>18
    <2>2. RewriteForceSerial(q) = LastPart(q1)
        BY <1>1, <1>2, <1>4, <1>5
           DEF RewriteForceSerial, StoreTold, LoadStage, ComputeStage, StoreStage
    <2> HIDE DEF LastPart
    <2> QED
        BY <2>1, <2>2
<1> QED
    BY <1>19, <1>20

--------------------------------------------------------------------------------
(* The calls of the batch, and the tokens they ask for.                        *)

ApiCall == [stage : Stage, kind : {"work", "push", "pop"}, link : Link \cup {<<0, 0>>}]
CallsFor(cs, kind, k) == {i \in DOMAIN cs : cs[i].kind = kind /\ cs[i].link = LinkOf[k]}
AskedFor(cs, kind) == [k \in Queue |-> Cardinality(CallsFor(cs, kind, k))]

LEMMA CallCounts ==
    ASSUME NEW cs \in Seq(ApiCall), NEW kind
    PROVE  /\ AskedFor(cs, kind) \in [Queue -> Nat] /\ Len(cs) \in Nat
           /\ \A k \in Queue : IsFiniteSet(CallsFor(cs, kind, k)) /\ CallsFor(cs, kind, k) \subseteq 1..Len(cs)
<1>1. Len(cs) \in Nat /\ DOMAIN cs = 1..Len(cs)
    BY LenProperties
<1>2. \A k \in Queue : CallsFor(cs, kind, k) \subseteq 1..Len(cs)
    BY <1>1 DEF CallsFor
<1>3. \A k \in Queue : IsFiniteSet(CallsFor(cs, kind, k))
    <2>1. IsFiniteSet(1..Len(cs))
        BY <1>1, FS_Interval
    <2> QED
        BY <1>2, <2>1, FS_Subset
<1>4. \A k \in Queue : Cardinality(CallsFor(cs, kind, k)) \in Nat
    BY <1>3, FS_CardinalityType
<1> QED
    BY <1>1, <1>2, <1>3, <1>4 DEF AskedFor

Extends(ds, cs, c) == ds = Append(cs, c)

LEMMA OneMoreCall ==
    ASSUME NEW cs \in Seq(ApiCall), NEW c \in ApiCall, NEW ds, Extends(ds, cs, c)
    PROVE  /\ ds \in Seq(ApiCall)
           /\ \A kind : \A k \in Queue :
                 AskedFor(ds, kind)[k] = AskedFor(cs, kind)[k] +
                    (IF c.kind = kind /\ c.link = LinkOf[k] THEN 1 ELSE 0)
<1>1. /\ ds \in Seq(ApiCall) /\ Len(ds) = Len(cs) + 1
      /\ ds[Len(cs) + 1] = c /\ \A i \in 1..Len(cs) : ds[i] = cs[i]
    BY AppendProperties DEF Extends
<1>2. Len(cs) \in Nat /\ DOMAIN cs = 1..Len(cs) /\ DOMAIN ds = 1..Len(cs) + 1
    BY <1>1, LenProperties
<1>3. ASSUME NEW kind, NEW k \in Queue
      PROVE  AskedFor(ds, kind)[k] =
                 AskedFor(cs, kind)[k] + (IF c.kind = kind /\ c.link = LinkOf[k] THEN 1 ELSE 0)
    <2> DEFINE n == Len(cs) + 1
    <2>1. \A i : i \in 1..Len(cs) + 1 <=> i \in 1..Len(cs) \/ i = n
        BY <1>2
    <2>2. n \notin 1..Len(cs)
        BY <1>2
    <2>3. \A i : i \in CallsFor(ds, kind, k) <=>
                 i \in CallsFor(cs, kind, k) \/ (i = n /\ c.kind = kind /\ c.link = LinkOf[k])
        BY <1>1, <1>2, <2>1, <2>2 DEF CallsFor
    <2>4. /\ IsFiniteSet(CallsFor(cs, kind, k)) /\ n \notin CallsFor(cs, kind, k)
          /\ Cardinality(CallsFor(cs, kind, k)) \in Nat
        BY <2>2, CallCounts, FS_CardinalityType
    <2>5. /\ AskedFor(ds, kind)[k] = Cardinality(CallsFor(ds, kind, k))
          /\ AskedFor(cs, kind)[k] = Cardinality(CallsFor(cs, kind, k))
        BY DEF AskedFor
    <2> HIDE DEF n
    <2>6. CASE c.kind = kind /\ c.link = LinkOf[k]
        <3>1. CallsFor(ds, kind, k) = CallsFor(cs, kind, k) \cup {n}
            BY <2>3, <2>6
        <3>2. Cardinality(CallsFor(ds, kind, k)) = Cardinality(CallsFor(cs, kind, k)) + 1
            BY <2>4, <3>1, FS_AddElement
        <3> QED
            BY <2>5, <2>6, <3>2
    <2>7. CASE ~(c.kind = kind /\ c.link = LinkOf[k])
        <3>1. CallsFor(ds, kind, k) = CallsFor(cs, kind, k)
            BY <2>3, <2>7
        <3> QED
            BY <2>4, <2>5, <2>7, <3>1
    <2> QED
        BY <2>6, <2>7
<1> QED
    BY <1>1, <1>3

LEMMA WorkAsked ==
    ASSUME NEW cs \in Seq(ApiCall), NEW st \in Stage, NEW ds, ds = Append(cs, Work(st))
    PROVE  /\ ds \in Seq(ApiCall)
           /\ AskedFor(ds, "push") = AskedFor(cs, "push") /\ AskedFor(ds, "pop") = AskedFor(cs, "pop")
<1>1. PICK c : c = Work(st)
    OBVIOUS
<1>2. c \in ApiCall /\ c.kind = "work"
    BY <1>1 DEF Work, ApiCall
<1>3. Extends(ds, cs, c)
    BY <1>1 DEF Extends
<1>4. ds \in Seq(ApiCall)
    BY <1>2, <1>3, OneMoreCall
<1>5. \A k \in Queue : /\ AskedFor(ds, "push")[k] = AskedFor(cs, "push")[k] + 0
                       /\ AskedFor(ds, "pop")[k] = AskedFor(cs, "pop")[k] + 0
    <2>1. \A kind : \A k \in Queue : AskedFor(ds, kind)[k] =
             AskedFor(cs, kind)[k] + (IF c.kind = kind /\ c.link = LinkOf[k] THEN 1 ELSE 0)
        BY <1>2, <1>3, OneMoreCall
    <2>2. c.kind # "push" /\ c.kind # "pop"
        BY <1>2
    <2> QED
        BY <2>1, <2>2
<1>6. /\ AskedFor(ds, "push") \in [Queue -> Nat] /\ AskedFor(ds, "pop") \in [Queue -> Nat]
      /\ AskedFor(cs, "push") \in [Queue -> Nat] /\ AskedFor(cs, "pop") \in [Queue -> Nat]
    BY <1>4, CallCounts
<1> QED
    BY <1>4, <1>5, <1>6

LEMMA TokenAsked ==
    ASSUME NEW cs \in Seq(ApiCall), NEW k \in Queue, NEW from, NEW to, from = From[k], to = To[k]
    PROVE  /\ Append(cs, Push(from, to)) \in Seq(ApiCall)
           /\ AskedFor(Append(cs, Push(from, to)), "push") = Plus(AskedFor(cs, "push"), k)
           /\ AskedFor(Append(cs, Push(from, to)), "pop") = AskedFor(cs, "pop")
           /\ Append(cs, Pop(from, to)) \in Seq(ApiCall)
           /\ AskedFor(Append(cs, Pop(from, to)), "pop") = Plus(AskedFor(cs, "pop"), k)
           /\ AskedFor(Append(cs, Pop(from, to)), "push") = AskedFor(cs, "push")
<1>1. PICK c : c = Push(from, to)
    OBVIOUS
<1>2. PICK d : d = Pop(from, to)
    OBVIOUS
<1>3. from \in Stage /\ to \in Stage /\ LinkOf[k] = <<from, to>> /\ LinkOf[k] \in Link
    BY Links
<1>4. /\ c \in ApiCall /\ c.kind = "push" /\ c.link = LinkOf[k]
      /\ d \in ApiCall /\ d.kind = "pop" /\ d.link = LinkOf[k]
    BY <1>1, <1>2, <1>3 DEF Push, Pop, ApiCall
<1>5. \A m \in Queue : LinkOf[m] = LinkOf[k] <=> m = k
    <2>1. \A m \in Queue : LinkOf[m] = <<From[m], To[m]>>
        BY Links
    <2>2. \A m \in Queue : From[m] = From[k] /\ To[m] = To[k] => m = k
        BY Links
    <2> QED
        BY <2>1, <2>2
<1>6. PICK ds : Extends(ds, cs, c)
    BY DEF Extends
<1>7. PICK es : Extends(es, cs, d)
    BY DEF Extends
<1>8. ds \in Seq(ApiCall) /\ es \in Seq(ApiCall)
    BY <1>4, <1>6, <1>7, OneMoreCall
<1>9. \A m \in Queue :
         /\ AskedFor(ds, "push")[m] = AskedFor(cs, "push")[m] + (IF m = k THEN 1 ELSE 0)
         /\ AskedFor(ds, "pop")[m] = AskedFor(cs, "pop")[m] + 0
    <2>1. \A kind : \A m \in Queue : AskedFor(ds, kind)[m] =
             AskedFor(cs, kind)[m] + (IF c.kind = kind /\ c.link = LinkOf[m] THEN 1 ELSE 0)
        BY <1>4, <1>6, OneMoreCall
    <2>2. c.kind # "pop" /\ c.kind = "push" /\ \A m \in Queue : c.link = LinkOf[m] <=> m = k
        BY <1>4, <1>5
    <2> QED
        BY <2>1, <2>2
<1>10. \A m \in Queue :
         /\ AskedFor(es, "pop")[m] = AskedFor(cs, "pop")[m] + (IF m = k THEN 1 ELSE 0)
         /\ AskedFor(es, "push")[m] = AskedFor(cs, "push")[m] + 0
    <2>1. \A kind : \A m \in Queue : AskedFor(es, kind)[m] =
             AskedFor(cs, kind)[m] + (IF d.kind = kind /\ d.link = LinkOf[m] THEN 1 ELSE 0)
        BY <1>4, <1>7, OneMoreCall
    <2>2. d.kind # "push" /\ d.kind = "pop" /\ \A m \in Queue : d.link = LinkOf[m] <=> m = k
        BY <1>4, <1>5
    <2> QED
        BY <2>1, <2>2
<1>11. /\ AskedFor(ds, "push") \in [Queue -> Nat] /\ AskedFor(ds, "pop") \in [Queue -> Nat]
       /\ AskedFor(es, "push") \in [Queue -> Nat] /\ AskedFor(es, "pop") \in [Queue -> Nat]
       /\ AskedFor(cs, "push") \in [Queue -> Nat] /\ AskedFor(cs, "pop") \in [Queue -> Nat]
    BY <1>8, CallCounts
<1>12. /\ AskedFor(ds, "push") = Plus(AskedFor(cs, "push"), k) /\ AskedFor(ds, "pop") = AskedFor(cs, "pop")
       /\ AskedFor(es, "pop") = Plus(AskedFor(cs, "pop"), k) /\ AskedFor(es, "push") = AskedFor(cs, "push")
    BY <1>9, <1>10, <1>11 DEF Plus
<1> QED
    BY <1>1, <1>2, <1>6, <1>7, <1>8, <1>12 DEF Extends

LEMMA FiveMore ==
    \A s \in Seq(ApiCall), a, b, c, d, e \in ApiCall :
       s \o <<a, b, c, d, e>> = Append(Append(Append(Append(Append(s, a), b), c), d), e)
<1> TAKE s \in Seq(ApiCall), a, b, c, d, e \in ApiCall
<1>1. ASSUME NEW t \in Seq(ApiCall), NEW x \in ApiCall
      PROVE  s \o Append(t, x) = Append(s \o t, x)
    <2>1. Append(t, x) = t \o <<x>> /\ <<x>> \in Seq(ApiCall)
        BY AppendIsConcat
    <2>2. s \o (t \o <<x>>) = (s \o t) \o <<x>>
        BY <2>1, ConcatAssociative
    <2>3. (s \o t) \o <<x>> = Append(s \o t, x)
        BY AppendIsConcat, ConcatProperties
    <2> QED
        BY <2>1, <2>2, <2>3
<1>2. /\ <<a>> \in Seq(ApiCall) /\ <<a, b>> \in Seq(ApiCall) /\ <<a, b, c>> \in Seq(ApiCall) /\ <<a, b, c, d>> \in Seq(ApiCall)
    OBVIOUS
<1>3. /\ <<a, b>> = Append(<<a>>, b) /\ <<a, b, c>> = Append(<<a, b>>, c)
      /\ <<a, b, c, d>> = Append(<<a, b, c>>, d) /\ <<a, b, c, d, e>> = Append(<<a, b, c, d>>, e)
    OBVIOUS
<1>4. s \o <<a>> = Append(s, a)
    BY AppendIsConcat
<1>5. s \o <<a, b>> = Append(Append(s, a), b)
    BY <1>1, <1>2, <1>3, <1>4
<1>6. s \o <<a, b, c>> = Append(Append(Append(s, a), b), c)
    BY <1>1, <1>2, <1>3, <1>5
<1>7. s \o <<a, b, c, d>> = Append(Append(Append(Append(s, a), b), c), d)
    BY <1>1, <1>2, <1>3, <1>6
<1> QED
    BY <1>1, <1>2, <1>3, <1>7

LEMMA SyncAsked ==
    ASSUME NEW cs \in Seq(ApiCall),
           NEW ds, ds = cs \o <<Push(3, 2), Push(1, 2), Pop(3, 2), Pop(1, 2), Work(2)>>
    PROVE  /\ ds \in Seq(ApiCall)
           /\ AskedFor(ds, "push") = Plus(Plus(AskedFor(cs, "push"), "s2g"), "l2g")
           /\ AskedFor(ds, "pop") = Plus(Plus(AskedFor(cs, "pop"), "s2g"), "l2g")
<1>1. /\ "s2g" \in Queue /\ "l2g" \in Queue /\ From["s2g"] = 3 /\ To["s2g"] = 2
      /\ From["l2g"] = 1 /\ To["l2g"] = 2 /\ 2 \in Stage
    BY DEF Queue, From, To, Stage, LoadStage, StoreStage
<1>2. PICK c1 : c1 = Append(cs, Push(3, 2))
    OBVIOUS
<1>3. PICK c2 : c2 = Append(c1, Push(1, 2))
    OBVIOUS
<1>4. PICK c3 : c3 = Append(c2, Pop(3, 2))
    OBVIOUS
<1>5. PICK c4 : c4 = Append(c3, Pop(1, 2))
    OBVIOUS
<1>6. PICK c5 : c5 = Append(c4, Work(2))
    OBVIOUS
<1>7. /\ c1 \in Seq(ApiCall) /\ AskedFor(c1, "push") = Plus(AskedFor(cs, "push"), "s2g")
      /\ AskedFor(c1, "pop") = AskedFor(cs, "pop")
    BY <1>1, <1>2, TokenAsked
<1>8. /\ c2 \in Seq(ApiCall) /\ AskedFor(c2, "push") = Plus(AskedFor(c1, "push"), "l2g")
      /\ AskedFor(c2, "pop") = AskedFor(c1, "pop")
    BY <1>1, <1>3, <1>7, TokenAsked
<1>9. /\ c3 \in Seq(ApiCall) /\ AskedFor(c3, "pop") = Plus(AskedFor(c2, "pop"), "s2g")
      /\ AskedFor(c3, "push") = AskedFor(c2, "push")
    BY <1>1, <1>4, <1>8, TokenAsked
<1>10. /\ c4 \in Seq(ApiCall) /\ AskedFor(c4, "pop") = Plus(AskedFor(c3, "pop"), "l2g")
       /\ AskedFor(c4, "push") = AskedFor(c3, "push")
    BY <1>1, <1>5, <1>9, TokenAsked
<1>11. /\ c5 \in Seq(ApiCall) /\ AskedFor(c5, "pop") = AskedFor(c4, "pop")
       /\ AskedFor(c5, "push") = AskedFor(c4, "push")
    BY <1>1, <1>6, <1>10, WorkAsked
<1>12. ds = c5
    <2>1. /\ Push(3, 2) \in ApiCall /\ Push(1, 2) \in ApiCall /\ Pop(3, 2) \in ApiCall /\ Pop(1, 2) \in ApiCall /\ Work(2) \in ApiCall
        BY DEF Push, Pop, Work, ApiCall, Link, Stage, LoadStage, StoreStage
    <2>2. \A s \in Seq(ApiCall), a, b, c, d, e \in ApiCall :
             s \o <<a, b, c, d, e>> = Append(Append(Append(Append(Append(s, a), b), c), d), e)
        BY FiveMore
    <2> QED
        <3>1. cs \o <<Push(3, 2), Push(1, 2), Pop(3, 2), Pop(1, 2), Work(2)>>
                 = Append(Append(Append(Append(Append(cs, Push(3, 2)), Push(1, 2)), Pop(3, 2)), Pop(1, 2)), Work(2))
            BY <2>1, <2>2
        <3> QED
            BY <1>2, <1>3, <1>4, <1>5, <1>6, <3>1
<1> QED
    BY <1>7, <1>8, <1>9, <1>10, <1>11, <1>12

--------------------------------------------------------------------------------
(* The invariant of the batch: the queue is routed and moves the tokens the    *)
(* calls asked for.  After a launch it ends in FINISH, and under serial mode   *)
(* its tokens are no longer the kernel's.                                      *)

Sent(q) ==
    /\ q \in QueueT
    /\ \A i \in DOMAIN q.insns :
          /\ FlagsHaveQueues(q.insns[i])
          /\ q.insns[i].op # "FINISH" => On(q.insns[i], GetPipelineStageAll(q.insns[i]))
Matches(q, cs) == Pushed(q) = AskedFor(cs, "push") /\ Popped(q) = AskedFor(cs, "pop")

LEMMA RoutedSent == \A q : Routed(q) => Sent(q)
BY DEF Routed, Sent, Fits

LEMMA FinishSent ==
    ASSUME NEW q, Routed(q), NEW x, IsFinish(x), NEW r \in QueueT, r.insns = Append(q.insns, x)
    PROVE  Sent(r)
<1>1. /\ q.insns \in Seq(Insn) /\ Len(q.insns) \in Nat /\ DOMAIN q.insns = 1..Len(q.insns) /\ x \in Insn
    BY Lengths DEF IsFinish
<1>2. \A s \in Seq(Insn) : \A v : v = Append(s, x) =>
         /\ DOMAIN v = 1..Len(s) + 1 /\ v[Len(s) + 1] = x /\ \A i \in 1..Len(s) : v[i] = s[i]
    BY <1>1, Appended
<1>3. /\ DOMAIN r.insns = 1..Len(q.insns) + 1 /\ r.insns[Len(q.insns) + 1] = x
      /\ \A i \in 1..Len(q.insns) : r.insns[i] = q.insns[i]
    BY <1>1, <1>2
<1>4. \A i \in DOMAIN r.insns : i = Len(q.insns) + 1 \/ i \in DOMAIN q.insns
    BY <1>1, <1>3
<1>5. Sent(q)
    BY RoutedSent
<1> QED
    BY <1>1, <1>3, <1>4, <1>5 DEF Sent, IsFinish

HostTypes ==
    /\ status \in {"host", "device", "aborted"} /\ serial \in BOOLEAN /\ calls \in Seq(ApiCall)
    /\ budget \in [calls : Nat, syncs : Nat, limit : Limits] /\ owed \in [Link -> Nat]
Batch ==
    /\ Sent(iq)
    /\ status = "host" => Routed(iq) /\ Matches(iq, calls)
    /\ ~serial => Matches(iq, calls)
    /\ status = "device" => ~PendingPop(iq)
HInv == HostTypes /\ Batch

\* What a launch does to any queue: the stream of the instructions, then FINISH.
LEMMA Launched ==
    ASSUME serial \in BOOLEAN, NEW q, Routed(q), NEW cs \in Seq(ApiCall), Matches(q, cs), Launch(q, cs)
    PROVE  /\ calls' \in Seq(ApiCall) /\ Sent(iq') /\ status' \in {"device", "aborted"}
           /\ status' = "device" => ~PendingPop(iq')
           /\ ~serial => Matches(iq', calls')
<1>1. PICK p : p = IF serial THEN RewriteForceSerial(q) ELSE WaitForAllOp(q)
    OBVIOUS
<1>2. 2 \in Stage
    BY DEF Stage, LoadStage, StoreStage
<1>3. Routed(p) /\ NoPops(p, 2)
    BY <1>1, <1>2, SerialStep, WaitForAllStep
<1>4. iq' = Create(p, 2, "FINISH", "UOP")
    BY <1>1 DEF Launch, Sealed, ComputeStage
<1>5. PICK x \in Insn : /\ IsFinish(x) /\ iq'.insns = Append(p.insns, x) /\ iq' \in QueueT
                        /\ Pushed(iq') = Pushed(p) /\ Popped(iq') = Popped(p)
    BY <1>3, <1>4, FinishStep
<1>6. Sent(iq')
    BY <1>3, <1>5, FinishSent
<1>7. status' \in {"device", "aborted"} /\ (status' = "device" => ~PendingPop(iq'))
    BY DEF Launch, SyncChecks
<1>8. calls' \in Seq(ApiCall) /\ (~serial => Matches(iq', calls'))
    <2>1. CASE serial
        <3>1. calls' = cs \o <<>>
            BY <2>1 DEF Launch, SyncCalls
        <3> QED
            BY <2>1, <3>1, ConcatEmptySeq
    <2>2. CASE ~serial
        <3>1. calls' = cs \o <<Push(3, 2), Push(1, 2), Pop(3, 2), Pop(1, 2), Work(2)>>
            BY <2>2 DEF Launch, SyncCalls, ComputeStage
        <3>2. /\ calls' \in Seq(ApiCall)
              /\ AskedFor(calls', "push") = Plus(Plus(AskedFor(cs, "push"), "s2g"), "l2g")
              /\ AskedFor(calls', "pop") = Plus(Plus(AskedFor(cs, "pop"), "s2g"), "l2g")
            BY <3>1, SyncAsked
        <3>3. /\ Pushed(p) = Plus(Plus(Pushed(q), "s2g"), "l2g")
              /\ Popped(p) = Plus(Plus(Popped(q), "s2g"), "l2g")
            BY <1>1, <2>2, WaitForAllStep
        <3> QED
            BY <1>5, <3>2, <3>3 DEF Matches
    <2> QED
        BY <2>1, <2>2
<1> QED
    BY <1>6, <1>7, <1>8

\* A call that creates instructions may launch what there is.
LEMMA Called ==
    ASSUME serial \in BOOLEAN, serial' = serial, status = "host",
           NEW q, Routed(q), NEW cs \in Seq(ApiCall), Matches(q, cs), CheckInsnOverFlow(q, cs)
    PROVE  calls' \in Seq(ApiCall) /\ status' \in {"host", "device", "aborted"} /\ Batch'
<1>1. CASE Launch(q, cs)
    BY <1>1, Launched DEF Batch
<1>2. CASE iq' = q /\ calls' = cs /\ status' = status
    BY <1>2, RoutedSent DEF Batch
<1> QED
    BY <1>1, <1>2 DEF CheckInsnOverFlow

LEMMA Spending ==
    ASSUME HostTypes, Spend
    PROVE  status = "host" /\ budget' \in [calls : Nat, syncs : Nat, limit : Limits]
BY DEF HostTypes, Spend

LEMMA NothingYet ==
    /\ Routed(EmptyQueue) /\ EmptyQueue.insns = <<>> /\ <<>> \in Seq(ApiCall)
    /\ \A q \in QueueT : q.insns = <<>> /\ ~PendingPop(q) => Routed(q) /\ Matches(q, <<>>) /\ PopsFollowPushes(q.insns)
                            /\ \A k \in Queue : Pushed(q)[k] = 0 /\ Popped(q)[k] = 0
    /\ ~PendingPop(EmptyQueue)
<1>1. 1 \in Stage /\ 3 \in Stage
    BY DEF Stage, LoadStage, StoreStage
<1>2. EmptyQueue \in QueueT /\ EmptyQueue.insns = <<>> /\ ~PendingPop(EmptyQueue)
    BY DEF EmptyQueue, QueueT, PendingPop
<1>4. <<>> \in Seq(ApiCall)
    OBVIOUS
<1>3. ASSUME NEW q \in QueueT, q.insns = <<>>, ~PendingPop(q)
      PROVE  /\ Routed(q) /\ Matches(q, <<>>) /\ PopsFollowPushes(q.insns)
             /\ \A k \in Queue : Pushed(q)[k] = 0 /\ Popped(q)[k] = 0
    <2>1. \A s \in Stage : ~q.popPrev[s] /\ ~q.popNext[s]
        BY <1>3 DEF PendingPop
    <2>2. DOMAIN q.insns = {}
        BY <1>3
    <2>3. Routed(q)
        BY <1>1, <2>1, <2>2 DEF Routed
    <2>4. \A k \in Queue : Pushers(q.insns, k) = {} /\ Poppers(q.insns, k) = {} /\ ~Pend(q, k)
        BY <2>1, <2>2, Links DEF Pushers, Poppers, Pend
    <2>5. \A kind, k : CallsFor(<<>>, kind, k) = {}
        BY DEF CallsFor
    <2>6. Cardinality({}) = 0
        BY FS_EmptySet
    <2>7. \A k \in Queue : Pushed(q)[k] = 0 /\ Popped(q)[k] = 0
        BY <2>4, <2>6 DEF Pushed, Popped
    <2>8. Matches(q, <<>>)
        <3>1. Pushed(q) \in [Queue -> Nat] /\ Popped(q) \in [Queue -> Nat]
            BY <2>3, TokenCounts
        <3>2. \A kind : AskedFor(<<>>, kind) \in [Queue -> Nat]
            BY <1>4, CallCounts
        <3>3. \A kind : \A k \in Queue : AskedFor(<<>>, kind)[k] = 0
            BY <2>5, <2>6 DEF AskedFor
        <3>4. Pushed(q) = AskedFor(<<>>, "push")
            BY <2>7, <3>1, <3>2, <3>3
        <3>5. Popped(q) = AskedFor(<<>>, "pop")
            BY <2>7, <3>1, <3>2, <3>3
        <3> QED
            BY <3>4, <3>5 DEF Matches
    <2>9. PopsFollowPushes(q.insns)
        BY <2>4 DEF PopsFollowPushes
    <2> QED
        BY <2>3, <2>7, <2>8, <2>9
<1> QED
    BY <1>2, <1>3, <1>4

LEMMA MatchesStep ==
    ASSUME NEW q, NEW r, NEW cs, NEW ds, Matches(q, cs),
           Pushed(r) = Pushed(q), Popped(r) = Popped(q),
           AskedFor(ds, "push") = AskedFor(cs, "push"), AskedFor(ds, "pop") = AskedFor(cs, "pop")
    PROVE  Matches(r, ds)
BY DEF Matches

LEMMA HInit == HostInit => HInv
<1> SUFFICES ASSUME HostInit
             PROVE  HInv
    OBVIOUS
<1> USE InsnQueueAssumption
<1>1. iq = EmptyQueue /\ calls = <<>> /\ status = "host" /\ serial = FALSE
    BY DEF HostInit
<1>2. budget \in [calls : Nat, syncs : Nat, limit : Limits] /\ owed \in [Link -> Nat]
    BY DEF HostInit
<1>3. EmptyQueue \in QueueT
    BY NothingYet DEF Routed
<1>4. Routed(iq) /\ Matches(iq, calls) /\ calls \in Seq(ApiCall)
    BY <1>1, <1>3, NothingYet
<1>5. Sent(iq)
    BY <1>4, RoutedSent
<1> QED
    BY <1>1, <1>2, <1>4, <1>5 DEF HInv, HostTypes, Batch

\* The three calls that create instructions.
LEMMA LoadKeeps ==
    ASSUME HInv, NEW mem \in LoadMems, LoadBuffer2D(mem)
    PROVE  HInv'
<1>1. PICK st : st = GetMemPipelineStage(mem)
    OBVIOUS
<1>2. PICK q : q = Create(iq, st, "LOAD", mem)
    OBVIOUS
<1>3. PICK cs : cs = Append(calls, Work(st))
    OBVIOUS
<1>4. /\ HostTypes /\ Spend /\ CheckInsnOverFlow(q, cs) /\ serial' = serial /\ owed' = owed
    BY <1>1, <1>2, <1>3 DEF LoadBuffer2D, HInv
<1>5. /\ status = "host" /\ budget' \in [calls : Nat, syncs : Nat, limit : Limits]
    BY <1>4, Spending
<1>6. Routed(iq) /\ Matches(iq, calls) /\ serial \in BOOLEAN /\ calls \in Seq(ApiCall) /\ owed \in [Link -> Nat]
    BY <1>4, <1>5 DEF HInv, Batch, HostTypes
<1>7. Creates("LOAD", mem, st)
    BY <1>1, InsnQueueAssumption DEF Creates
<1>8. st \in Stage /\ Step(iq, q, {st}, 1) /\ Pushed(q) = Pushed(iq) /\ Popped(q) = Popped(iq)
    BY <1>2, <1>6, <1>7, CreateStep
<1>9. /\ cs \in Seq(ApiCall)
      /\ AskedFor(cs, "push") = AskedFor(calls, "push") /\ AskedFor(cs, "pop") = AskedFor(calls, "pop")
    BY <1>3, <1>6, <1>8, WorkAsked
<1>10. Routed(q) /\ Matches(q, cs)
    BY <1>6, <1>8, <1>9, MatchesStep DEF Step
<1>11. calls' \in Seq(ApiCall) /\ status' \in {"host", "device", "aborted"} /\ Batch'
    BY <1>4, <1>5, <1>6, <1>9, <1>10, Called
<1> QED
    BY <1>4, <1>5, <1>6, <1>11 DEF HInv, HostTypes

LEMMA StoreKeeps ==
    ASSUME HInv, StoreBuffer2D
    PROVE  HInv'
<1>1. PICK q : q = Create(iq, 3, "STORE", "OUT")
    OBVIOUS
<1>2. PICK cs : cs = Append(calls, Work(3))
    OBVIOUS
<1>3. /\ HostTypes /\ Spend /\ CheckInsnOverFlow(q, cs) /\ serial' = serial /\ owed' = owed
    BY <1>1, <1>2 DEF StoreBuffer2D, HInv, StoreStage
<1>4. /\ status = "host" /\ budget' \in [calls : Nat, syncs : Nat, limit : Limits]
    BY <1>3, Spending
<1>5. Routed(iq) /\ Matches(iq, calls) /\ serial \in BOOLEAN /\ calls \in Seq(ApiCall) /\ owed \in [Link -> Nat]
    BY <1>3, <1>4 DEF HInv, Batch, HostTypes
<1>6. Creates("STORE", "OUT", 3)
    BY DEF Creates, StoreStage
<1>7. 3 \in Stage /\ Step(iq, q, {3}, 1) /\ Pushed(q) = Pushed(iq) /\ Popped(q) = Popped(iq)
    BY <1>1, <1>5, <1>6, CreateStep
<1>8. /\ cs \in Seq(ApiCall)
      /\ AskedFor(cs, "push") = AskedFor(calls, "push") /\ AskedFor(cs, "pop") = AskedFor(calls, "pop")
    BY <1>2, <1>5, <1>7, WorkAsked
<1>9. Routed(q) /\ Matches(q, cs)
    BY <1>5, <1>7, <1>8, MatchesStep DEF Step
<1>10. calls' \in Seq(ApiCall) /\ status' \in {"host", "device", "aborted"} /\ Batch'
    BY <1>3, <1>4, <1>5, <1>8, <1>9, Called
<1> QED
    BY <1>3, <1>4, <1>5, <1>10 DEF HInv, HostTypes

\* The queue with the operation, and with the load of its micro-ops if there is one.
LEMMA OpStep ==
    ASSUME NEW q, Routed(q), NEW op \in Ops, NEW uopLoad \in UopLoads,
           NEW a, a = IF uopLoad THEN Create(q, 2, "LOAD", "UOP") ELSE q,
           NEW r, r = Create(a, 2, op, "UOP")
    PROVE  Step(q, r, {2}, 2) /\ Pushed(r) = Pushed(q) /\ Popped(r) = Popped(q)
<1>1. Creates("LOAD", "UOP", 2) /\ Creates(op, "UOP", 2)
    BY InsnQueueAssumption DEF Creates, GetMemPipelineStage, ComputeStage
<1>2. Step(q, a, {2}, 1) /\ Pushed(a) = Pushed(q) /\ Popped(a) = Popped(q)
    <2>1. CASE uopLoad
        BY <1>1, <2>1, CreateStep
    <2>2. CASE ~uopLoad
        <3>1. Step(q, q, {2}, 1)
            BY Lengths DEF Step, StaysOrdered
        <3> QED
            BY <2>2, <3>1
    <2> QED
        BY <2>1, <2>2
<1>3. Routed(a)
    BY <1>2 DEF Step
<1>4. Step(a, r, {2}, 1) /\ Pushed(r) = Pushed(a) /\ Popped(r) = Popped(a)
    BY <1>1, <1>3, CreateStep
<1>5. Step(q, r, {2} \cup {2}, 1 + 1)
    BY <1>2, <1>4, TwoSteps, SameBehind
<1>6. {2} \cup {2} = {2} /\ 1 + 1 = 2
    OBVIOUS
<1> QED
    BY <1>2, <1>4, <1>5, <1>6

LEMMA OpKeeps ==
    ASSUME HInv, NEW op \in Ops, NEW uopLoad \in UopLoads, PushOp(op, uopLoad)
    PROVE  HInv'
<1>1. PICK a : a = IF uopLoad THEN Create(iq, 2, "LOAD", "UOP") ELSE iq
    OBVIOUS
<1>2. PICK q : q = Create(a, 2, op, "UOP")
    OBVIOUS
<1>3. PICK cs : cs = Append(calls, Work(2))
    OBVIOUS
<1>4. /\ HostTypes /\ Spend /\ CheckInsnOverFlow(q, cs) /\ serial' = serial /\ owed' = owed
    BY <1>1, <1>2, <1>3 DEF PushOp, HInv, ComputeStage
<1>5. /\ status = "host" /\ budget' \in [calls : Nat, syncs : Nat, limit : Limits]
    BY <1>4, Spending
<1>6. Routed(iq) /\ Matches(iq, calls) /\ serial \in BOOLEAN /\ calls \in Seq(ApiCall) /\ owed \in [Link -> Nat]
    BY <1>4, <1>5 DEF HInv, Batch, HostTypes
<1>7. Step(iq, q, {2}, 2) /\ Pushed(q) = Pushed(iq) /\ Popped(q) = Popped(iq)
    BY <1>1, <1>2, <1>6, OpStep
<1>8. 2 \in Stage
    BY DEF Stage, LoadStage, StoreStage
<1>9. /\ cs \in Seq(ApiCall)
      /\ AskedFor(cs, "push") = AskedFor(calls, "push") /\ AskedFor(cs, "pop") = AskedFor(calls, "pop")
    BY <1>3, <1>6, <1>8, WorkAsked
<1>10. Routed(q) /\ Matches(q, cs)
    BY <1>6, <1>7, <1>9, MatchesStep DEF Step
<1>11. calls' \in Seq(ApiCall) /\ status' \in {"host", "device", "aborted"} /\ Batch'
    BY <1>4, <1>5, <1>6, <1>9, <1>10, Called
<1> QED
    BY <1>4, <1>5, <1>6, <1>11 DEF HInv, HostTypes

\* The two that move tokens.
LEMMA DepPushKeeps ==
    ASSUME HInv, NEW k \in Queue, NEW from, NEW to, from = From[k], to = To[k], DepPush(from, to)
    PROVE  HInv'
<1>1. /\ HostTypes /\ Spend /\ iq' = DepPushOp(iq, from, to) /\ calls' = Append(calls, Push(from, to))
      /\ owed' = [owed EXCEPT ![<<from, to>>] = @ + 1] /\ status' = status /\ serial' = serial
    BY DEF DepPush, HInv
<1>2. /\ status = "host" /\ budget' \in [calls : Nat, syncs : Nat, limit : Limits]
    BY <1>1, Spending
<1>3. Routed(iq) /\ Matches(iq, calls) /\ serial \in BOOLEAN /\ calls \in Seq(ApiCall) /\ owed \in [Link -> Nat]
    BY <1>1, <1>2 DEF HInv, Batch, HostTypes
<1>4. Routed(iq') /\ Pushed(iq') = Plus(Pushed(iq), k) /\ Popped(iq') = Popped(iq)
    BY <1>1, <1>3, PushStep DEF Step
<1>5. /\ calls' \in Seq(ApiCall) /\ AskedFor(calls', "push") = Plus(AskedFor(calls, "push"), k)
      /\ AskedFor(calls', "pop") = AskedFor(calls, "pop")
    BY <1>1, <1>3, TokenAsked
<1>6. Matches(iq', calls') /\ Sent(iq')
    BY <1>3, <1>4, <1>5, RoutedSent DEF Matches
<1>7. owed' \in [Link -> Nat]
    <2>1. <<from, to>> \in Link
        BY Links
    <2>2. \A f \in [Link -> Nat], l \in Link : [f EXCEPT ![l] = @ + 1] \in [Link -> Nat]
        OBVIOUS
    <2> QED
        BY <1>1, <1>3, <2>1, <2>2
<1>8. Batch'
    BY <1>1, <1>2, <1>4, <1>6 DEF Batch
<1> QED
    BY <1>1, <1>2, <1>3, <1>5, <1>7, <1>8 DEF HInv, HostTypes

LEMMA DepPopKeeps ==
    ASSUME HInv, NEW k \in Queue, NEW from, NEW to, from = From[k], to = To[k], DepPop(from, to)
    PROVE  HInv'
<1>1. /\ HostTypes /\ Spend /\ iq' = DepPopOp(iq, from, to) /\ calls' = Append(calls, Pop(from, to))
      /\ owed[<<from, to>>] > 0
      /\ owed' = [owed EXCEPT ![<<from, to>>] = @ - 1] /\ status' = status /\ serial' = serial
    BY DEF DepPop, HInv
<1>2. /\ status = "host" /\ budget' \in [calls : Nat, syncs : Nat, limit : Limits]
    BY <1>1, Spending
<1>3. Routed(iq) /\ Matches(iq, calls) /\ serial \in BOOLEAN /\ calls \in Seq(ApiCall) /\ owed \in [Link -> Nat]
    BY <1>1, <1>2 DEF HInv, Batch, HostTypes
<1>4. Routed(iq') /\ Pushed(iq') = Pushed(iq) /\ Popped(iq') = Plus(Popped(iq), k)
    BY <1>1, <1>3, PopStep DEF Step
<1>5. /\ calls' \in Seq(ApiCall) /\ AskedFor(calls', "pop") = Plus(AskedFor(calls, "pop"), k)
      /\ AskedFor(calls', "push") = AskedFor(calls, "push")
    BY <1>1, <1>3, TokenAsked
<1>6. Matches(iq', calls') /\ Sent(iq')
    BY <1>3, <1>4, <1>5, RoutedSent DEF Matches
<1>7. owed' \in [Link -> Nat]
    <2>1. <<from, to>> \in Link
        BY Links
    <2> QED
        BY <1>1, <1>3, <2>1
<1>8. Batch'
    BY <1>1, <1>2, <1>4, <1>6 DEF Batch
<1> QED
    BY <1>1, <1>2, <1>3, <1>5, <1>7, <1>8 DEF HInv, HostTypes

LEMMA HNext == HInv /\ [HostNext]_hostVars => HInv'
<1> SUFFICES ASSUME HInv, [HostNext]_hostVars
             PROVE  HInv'
    OBVIOUS
<1>1. ASSUME NEW mem \in LoadMems, LoadBuffer2D(mem)
      PROVE  HInv'
    BY <1>1, LoadKeeps
<1>2. CASE StoreBuffer2D
    BY <1>2, StoreKeeps
<1>3. ASSUME NEW op \in Ops, NEW uopLoad \in UopLoads, PushOp(op, uopLoad)
      PROVE  HInv'
    BY <1>3, OpKeeps
<1>4. ASSUME NEW l \in Link, DepPush(l[1], l[2]) \/ DepPop(l[1], l[2])
      PROVE  HInv'
    <2>1. PICK k \in Queue : l = <<From[k], To[k]>>
        BY Links
    <2>2. l[1] = From[k] /\ l[2] = To[k]
        BY <2>1
    <2> QED
        BY <1>4, <2>2, DepPushKeeps, DepPopKeeps
<1>5. ASSUME NEW mode \in SerialModes, SetDebugMode(mode)
      PROVE  HInv'
    <2>1. /\ HostTypes /\ Spend /\ serial' = mode /\ iq' = iq /\ status' = status
          /\ owed' = owed /\ calls' = calls
        BY <1>5 DEF SetDebugMode, HInv
    <2>2. /\ status = "host" /\ budget' \in [calls : Nat, syncs : Nat, limit : Limits]
        BY <2>1, Spending
    <2>3. mode \in BOOLEAN
        BY InsnQueueAssumption
    <2>4. Batch'
        BY <2>1, <2>2 DEF HInv, Batch
    <2> QED
        BY <2>1, <2>2, <2>3, <2>4 DEF HInv, HostTypes
<1>6. CASE Synchronize
    <2>1. /\ HostTypes /\ status = "host" /\ Launch(iq, calls) /\ serial' = serial /\ owed' = owed
          /\ budget.syncs > 0 /\ budget' = [budget EXCEPT !.syncs = @ - 1]
        BY <1>6 DEF Synchronize, HInv
    <2>2. budget' \in [calls : Nat, syncs : Nat, limit : Limits]
        BY <2>1 DEF HostTypes
    <2>3. Routed(iq) /\ Matches(iq, calls) /\ serial \in BOOLEAN /\ calls \in Seq(ApiCall)
        BY <2>1 DEF HInv, Batch, HostTypes
    <2>4. /\ calls' \in Seq(ApiCall) /\ Sent(iq') /\ status' \in {"device", "aborted"}
          /\ status' = "device" => ~PendingPop(iq')
          /\ ~serial => Matches(iq', calls')
        BY <2>1, <2>3, Launched
    <2>5. Batch'
        BY <2>1, <2>4 DEF Batch
    <2> QED
        BY <2>1, <2>2, <2>4, <2>5 DEF HInv, HostTypes
<1>7. CASE DeviceReturns
    <2>1. /\ HostTypes /\ status = "device" /\ iq' = [iq EXCEPT !.insns = <<>>] /\ calls' = <<>>
          /\ status' = "host" /\ serial' = serial /\ owed' = owed /\ budget' = budget
        BY <1>7 DEF DeviceReturns, HInv
    <2>2. iq \in QueueT /\ ~PendingPop(iq)
        BY <2>1 DEF HInv, Batch, Sent
    <2>3. iq' \in QueueT /\ iq'.insns = <<>> /\ iq'.popPrev = iq.popPrev /\ iq'.popNext = iq.popNext
        <3>1. \A q \in QueueT, t \in Seq(Insn) :
                 /\ [q EXCEPT !.insns = t] \in QueueT /\ [q EXCEPT !.insns = t].insns = t
                 /\ [q EXCEPT !.insns = t].popPrev = q.popPrev /\ [q EXCEPT !.insns = t].popNext = q.popNext
            BY DEF QueueT
        <3>2. <<>> \in Seq(Insn)
            OBVIOUS
        <3> QED
            BY <2>1, <2>2, <3>1, <3>2
    <2>4. ~PendingPop(iq')
        BY <2>2, <2>3 DEF PendingPop
    <2>5. Routed(iq') /\ Matches(iq', calls') /\ calls' \in Seq(ApiCall)
        BY <2>1, <2>3, <2>4, NothingYet
    <2>6. Batch'
        BY <2>1, <2>5, RoutedSent DEF Batch
    <2> QED
        BY <2>1, <2>5, <2>6 DEF HInv, HostTypes
<1>8. CASE UNCHANGED hostVars
    BY <1>8 DEF hostVars, HInv, HostTypes, Batch
<1> QED
    BY <1>1, <1>2, <1>3, <1>4, <1>5, <1>6, <1>7, <1>8 DEF HostNext, HostCall

LEMMA HAlways == HostSpec => []HInv
<1> QED
    BY HInit, HNext, PTL DEF HostSpec

\* The core the runtime had in mind for an instruction is the one it runs on,
\* and that has a queue for each of its flags: for GetPipelineStageAll and
\* GetCoreType, through merges, deferred pops, batches cut by
\* CheckInsnOverFlow and RewriteForceSerial.
THEOREM RoutingAgrees == HostSpec => []RoutedAlike
<1>1. ASSUME HInv
      PROVE  RoutedAlike
    <2>1. Sent(iq)
        BY <1>1 DEF HInv, Batch
    <2> QED
        BY <2>1 DEF Sent, On, CoreOf, RoutedAlike, StageIsCore, NoNullQueue
<1>2. HInv => RoutedAlike
    BY <1>1
<1> QED
    BY <1>2, HAlways, PTL

\* Outside serial mode the tokens of a batch are those its calls asked for:
\* none is lost when a push is merged into an instruction or a pop deferred,
\* and none is made by Synchronize that it does not ask for itself.
THEOREM TokensAreTheCalls == HostSpec => []TokensAsAsked
<1>1. ASSUME HInv, ~serial, NEW k \in Queue
      PROVE  /\ Cardinality(Pushers(iq.insns, k)) = Asked("push", LinkOf[k])
             /\ Cardinality(Poppers(iq.insns, k)) + StillPending(LinkOf[k]) = Asked("pop", LinkOf[k])
    <2>1. Pushed(iq) = AskedFor(calls, "push") /\ Popped(iq) = AskedFor(calls, "pop")
        BY <1>1 DEF HInv, Batch, Matches
    <2>2. \A kind : AskedFor(calls, kind)[k] = Asked(kind, LinkOf[k])
        BY DEF AskedFor, CallsFor, Asked
    <2>3. StillPending(LinkOf[k]) = IF Pend(iq, k) THEN 1 ELSE 0
        <3>1. LinkOf[k][1] = From[k] /\ LinkOf[k][2] = To[k] /\ From[k] \in Stage /\ To[k] \in Stage /\ From[k] # To[k]
            BY Links
        <3>2. From[k] > To[k] <=> ~Forward(k)
            BY <3>1 DEF Forward, Stage, LoadStage, StoreStage
        <3> QED
            BY <3>1, <3>2 DEF StillPending, Pend, Forward
    <2>4. /\ Pushed(iq)[k] = Cardinality(Pushers(iq.insns, k))
          /\ Popped(iq)[k] = Cardinality(Poppers(iq.insns, k)) + (IF Pend(iq, k) THEN 1 ELSE 0)
        BY DEF Pushed, Popped
    <2> QED
        BY <2>1, <2>2, <2>3, <2>4
<1>2. HInv => TokensAsAsked
    BY <1>1 DEF TokensAsAsked
<1> QED
    BY <1>2, HAlways, PTL

--------------------------------------------------------------------------------
(* Batches that are not cut: kernels that pop what they push between two       *)
(* Synchronize calls, and a buffer that holds all their instructions.          *)

\* The FINISH and what waits for the loads and stores.
LEMMA SealedOrder ==
    ASSUME NEW q, Routed(q), NEW p, p = WaitForAllOp(q), NEW r, r = Create(p, 2, "FINISH", "UOP")
    PROVE  /\ r \in QueueT /\ \A s \in Stage : NoPops(r, s)
           /\ Pushed(r) = Plus(Plus(Pushed(q), "s2g"), "l2g")
           /\ Popped(r) = Plus(Plus(Popped(q), "s2g"), "l2g")
           /\ StaysOrdered(q, r)
<1>1. /\ Routed(p) /\ \A s \in Stage : NoPops(p, s)
      /\ Pushed(p) = Plus(Plus(Pushed(q), "s2g"), "l2g")
      /\ Popped(p) = Plus(Plus(Popped(q), "s2g"), "l2g")
      /\ StaysOrdered(q, p)
    BY WaitForAllStep
<1>2. NoPops(p, 2) /\ p.insns \in Seq(Insn)
    BY <1>1, Lengths DEF Stage, LoadStage, StoreStage
<1>3. PICK x \in Insn : /\ IsFinish(x) /\ r.insns = Append(p.insns, x)
                        /\ r.popPrev = p.popPrev /\ r.popNext = p.popNext /\ r \in QueueT
                        /\ Pushed(r) = Pushed(p) /\ Popped(r) = Popped(p)
    BY <1>1, <1>2, FinishStep
<1>4. \A s \in Stage : NoPops(r, s)
    BY <1>1, <1>3 DEF NoPops
<1>5. \A b \in Base : Ordered(p.insns, b) => Ordered(r.insns, b)
    <2>1. PopQueues(x) = {}
        BY <1>3 DEF IsFinish
    <2>2. \A s \in Seq(Insn), b \in Base : \A v : v = Append(s, x) /\ Ordered(s, b) => Ordered(v, b)
        BY <1>3, <2>1, AppendedOrder
    <2> QED
        BY <1>2, <1>3, <2>2
<1>6. StaysOrdered(q, r)
    BY <1>1, <1>5 DEF StaysOrdered
<1> QED
    BY <1>1, <1>3, <1>4, <1>6

\* What is launched is well formed, and passes the checks of Synchronize.
LEMMA SealedRuns ==
    ASSUME NEW q, Routed(q), PopsFollowPushes(q.insns), Popped(q) = Pushed(q),
           NEW p, p = WaitForAllOp(q), NEW r, r = Create(p, 2, "FINISH", "UOP")
    PROVE  WellFormed(r.insns) /\ ~PendingPop(r) /\ Len(r.insns) \in Nat /\ Len(r.insns) <= Len(q.insns) + 8
<1>1. Pushed(q) \in [Queue -> Nat]
    BY TokenCounts
<1>2. Behind(q, Empty)
    BY <1>1, OrderedFromEmpty, TokenCounts DEF Behind
<1>3. /\ Routed(p) /\ \A s \in Stage : NoPops(p, s)
      /\ Pushed(p) = Plus(Plus(Pushed(q), "s2g"), "l2g")
      /\ Popped(p) = Plus(Plus(Popped(q), "s2g"), "l2g")
    BY WaitForAllStep
<1>4. /\ Len(p.insns) <= Len(q.insns) + 7
      /\ Announced(p.insns, "l2g") /\ Announced(p.insns, "s2g")
    BY WaitForAllStep
<1>5. NoPops(p, 2)
    BY <1>3 DEF Stage, LoadStage, StoreStage
<1>6. PICK x \in Insn : /\ IsFinish(x) /\ r.insns = Append(p.insns, x)
                        /\ r.popPrev = p.popPrev /\ r.popNext = p.popNext /\ r \in QueueT
                        /\ Pushed(r) = Pushed(p) /\ Popped(r) = Popped(p)
    BY <1>3, <1>5, FinishStep
<1>7. p.insns \in Seq(Insn) /\ Len(p.insns) \in Nat /\ Len(q.insns) \in Nat /\ DOMAIN p.insns = 1..Len(p.insns)
    BY <1>3, Lengths
<1>8. \A s \in Seq(Insn) : \A v : v = Append(s, x) =>
         /\ DOMAIN v = 1..Len(s) + 1 /\ v[Len(s) + 1] = x /\ \A i \in 1..Len(s) : v[i] = s[i]
    BY <1>6, Appended
<1>9. /\ DOMAIN r.insns = 1..Len(p.insns) + 1 /\ r.insns[Len(p.insns) + 1] = x
      /\ \A i \in 1..Len(p.insns) : r.insns[i] = p.insns[i]
    BY <1>6, <1>7, <1>8
<1>10. Len(r.insns) = Len(p.insns) + 1
    BY <1>6, <1>7, <1>9, LenProperties DEF QueueT
<1>11. \A s \in Stage : NoPops(r, s)
    BY <1>3, <1>6 DEF NoPops
<1>12. ~PendingPop(r)
    BY <1>11 DEF PendingPop, NoPops
<1>13. PopsFollowPushes(r.insns)
    <2>1. StaysOrdered(q, r) /\ r.insns \in Seq(Insn) /\ q.insns \in Seq(Insn)
        BY <1>6, Lengths, SealedOrder DEF QueueT
    <2> QED
        BY <1>2, <2>1, OrderedFromEmpty DEF StaysOrdered
<1>14. TokensBalance(r.insns)
    <2>1. Pushed(r) = Popped(r)
        BY <1>3, <1>6
    <2>2. \A k \in Queue : ~Pend(r, k)
        BY <1>11, Links DEF Pend, NoPops
    <2>3. \A k \in Queue : Cardinality(Poppers(r.insns, k)) \in Nat
        BY <1>6, Positions DEF QueueT
    <2>4. \A k \in Queue : /\ Pushed(r)[k] = Cardinality(Pushers(r.insns, k))
                           /\ Popped(r)[k] = Cardinality(Poppers(r.insns, k))
        BY <2>2, <2>3 DEF Pushed, Popped
    <2> QED
        BY <2>1, <2>4 DEF TokensBalance
<1>15. FinishEnds(r.insns)
    <2>1. x.op = "FINISH" /\ PopQueues(x) = {}
        BY <1>6 DEF IsFinish
    <2>2. \A i \in 1..Len(p.insns) : p.insns[i].op # "FINISH"
        BY <1>3, <1>7 DEF Routed, Fits
    <2>3. Len(r.insns) > 0 /\ r.insns[Len(r.insns)] = x
        BY <1>7, <1>9, <1>10
    <2>4. ASSUME NEW i \in DOMAIN r.insns
          PROVE  r.insns[i].op = "FINISH" <=> i = Len(r.insns)
        <3>1. CASE i = Len(r.insns)
            BY <2>1, <2>3, <3>1
        <3>2. CASE i # Len(r.insns)
            <4>1. i \in 1..Len(p.insns) /\ r.insns[i] = p.insns[i]
                BY <1>7, <1>9, <1>10, <3>2
            <4> QED
                BY <2>2, <3>2, <4>1
        <3> QED
            BY <3>1, <3>2
    <2> QED
        BY <2>1, <2>3, <2>4 DEF FinishEnds
<1>16. WorkIsAnnounced(r.insns)
    <2>1. GetCoreType(x) = "GEMM"
        BY <1>6 DEF IsFinish
    <2>2. "l2g" \in Queue /\ "s2g" \in Queue /\ From["l2g"] = 1 /\ From["s2g"] = 3
        BY DEF Queue, From
    <2>3. ~On(x, 1) /\ ~On(x, 3)
        BY <2>1 DEF On, CoreOf
    <2>4. \A s \in Seq(Insn) : \A v : v = Append(s, x) =>
             /\ Announced(s, "l2g") => Announced(v, "l2g")
             /\ Announced(s, "s2g") => Announced(v, "s2g")
        BY <1>6, <2>2, <2>3, AppendedAnnounced
    <2>5. Announced(r.insns, "l2g") /\ Announced(r.insns, "s2g")
        BY <1>4, <1>6, <1>7, <2>4
    <2>6. \A y : (GetCoreType(y) = "LOAD" <=> On(y, 1)) /\ (GetCoreType(y) = "STORE" <=> On(y, 3))
        BY DEF On, CoreOf
    <2> QED
        BY <2>2, <2>5, <2>6 DEF Announced, WorkIsAnnounced
<1> QED
    BY <1>4, <1>7, <1>10, <1>12, <1>13, <1>14, <1>15, <1>16 DEF WellFormed

\* Between launches: the pops are behind the pushes, the instructions no more
\* than two to a call, and what the kernel still owes is what the queue has
\* pushed and not popped.
Account(q, o, n) ==
    /\ PopsFollowPushes(q.insns) /\ Len(q.insns) <= 2 * (MaxCalls - n)
    /\ \A k \in Queue : o[LinkOf[k]] + Popped(q)[k] = Pushed(q)[k]
Uncut ==
    /\ budget.calls <= MaxCalls
    /\ status = "host" => Account(iq, owed, budget.calls)
    /\ status = "device" => /\ \A l \in Link : owed[l] = 0
                            /\ ~serial => WellFormed(iq.insns)
    /\ status = "aborted" => serial

LEMMA AccountBehind ==
    ASSUME NEW q, Routed(q), NEW o \in [Link -> Nat], NEW n, Account(q, o, n)
    PROVE  Behind(q, Empty)
<1>1. Pushed(q) \in [Queue -> Nat] /\ Popped(q) \in [Queue -> Nat]
    BY TokenCounts
<1>2. \A k \in Queue : o[LinkOf[k]] \in Nat
    BY Links
<1> QED
    BY <1>1, <1>2, OrderedFromEmpty DEF Account, Behind

\* A call adds two instructions at most.
LEMMA AccountStep ==
    ASSUME NEW q, NEW r, Routed(q), NEW T, NEW m \in 0..2, Step(q, r, T, m),
           NEW o \in [Link -> Nat], NEW n \in Nat, n > 0, n <= MaxCalls, Account(q, o, n)
    PROVE  /\ PopsFollowPushes(r.insns) /\ Len(r.insns) <= 2 * (MaxCalls - (n - 1))
           /\ Len(r.insns) \in Nat /\ Len(r.insns) <= 2 * MaxCalls
<1>1. Behind(q, Empty)
    BY AccountBehind
<1>2. PopsFollowPushes(r.insns)
    <2>1. q.insns \in Seq(Insn) /\ r.insns \in Seq(Insn)
        BY Lengths DEF Step
    <2> QED
        BY <1>1, <2>1, OrderedFromEmpty DEF Step, StaysOrdered, Account
<1>3. Len(q.insns) \in Nat /\ Len(r.insns) \in Nat /\ MaxCalls \in Nat
    BY Lengths, InsnQueueAssumption DEF Step
<1>4. Len(q.insns) <= 2 * (MaxCalls - n) /\ Len(r.insns) <= Len(q.insns) + m
    BY DEF Account, Step
<1>5. \A a, b, c \in Nat : a <= 2 * (c - n) /\ b <= a + m /\ n <= c => b <= 2 * (c - (n - 1)) /\ b <= 2 * c
    OBVIOUS
<1> QED
    BY <1>2, <1>3, <1>4, <1>5

\* A call that creates instructions, when the buffer has room.
LEMMA WorkAccount ==
    ASSUME NeverCut, HInv, Uncut, Spend, owed' = owed, serial' = serial,
           NEW q, NEW T, NEW m \in 0..2, Step(iq, q, T, m), Pushed(q) = Pushed(iq), Popped(q) = Popped(iq),
           NEW cs, CheckInsnOverFlow(q, cs)
    PROVE  Uncut'
<1>1. /\ status = "host" /\ HostTypes /\ Routed(iq) /\ budget.calls > 0
      /\ budget' = [budget EXCEPT !.calls = @ - 1]
    BY DEF Spend, HInv, Batch
<1>2. budget.calls \in Nat /\ budget.limit \in Limits /\ budget'.calls = budget.calls - 1 /\ owed \in [Link -> Nat]
    BY <1>1 DEF HostTypes
<1>3. Account(iq, owed, budget.calls) /\ budget.calls <= MaxCalls
    BY <1>1 DEF Uncut
<1>4. /\ PopsFollowPushes(q.insns) /\ Len(q.insns) <= 2 * (MaxCalls - (budget.calls - 1))
      /\ Len(q.insns) \in Nat /\ Len(q.insns) <= 2 * MaxCalls
    BY <1>1, <1>2, <1>3, AccountStep
<1>5. ~(Len(q.insns) + 6 > budget.limit)
    <2>1. budget.limit \in Nat /\ MaxCalls \in Nat /\ budget.limit >= 2 * MaxCalls + 8
        BY <1>2, InsnQueueAssumption DEF NeverCut
    <2>2. \A a, b, c \in Nat : c >= 2 * b + 8 /\ a <= 2 * b => ~(a + 6 > c)
        OBVIOUS
    <2> QED
        BY <1>4, <2>1, <2>2
<1>6. iq' = q /\ status' = status
    BY <1>5 DEF CheckInsnOverFlow
<1>7. Account(q, owed, budget.calls - 1)
    BY <1>3, <1>4 DEF Account
<1>8. status' = "host" /\ budget'.calls <= MaxCalls /\ Account(iq', owed', budget'.calls)
    <2>1. budget.calls - 1 <= MaxCalls
        BY <1>2, <1>3, InsnQueueAssumption
    <2> QED
        BY <1>1, <1>2, <1>6, <1>7, <2>1
<1> QED
    BY <1>8 DEF Uncut

LEMMA LoadAccount ==
    ASSUME NeverCut, HInv, Uncut, NEW mem \in LoadMems, LoadBuffer2D(mem)
    PROVE  Uncut'
<1>1. PICK st : st = GetMemPipelineStage(mem)
    OBVIOUS
<1>2. PICK q : q = Create(iq, st, "LOAD", mem)
    OBVIOUS
<1>3. PICK cs : cs = Append(calls, Work(st))
    OBVIOUS
<1>4. /\ Spend /\ CheckInsnOverFlow(q, cs) /\ serial' = serial /\ owed' = owed
    BY <1>1, <1>2, <1>3 DEF LoadBuffer2D
<1>5. Routed(iq) /\ Creates("LOAD", mem, st)
    BY <1>1, <1>4, InsnQueueAssumption DEF Creates, Spend, HInv, Batch
<1>6. Step(iq, q, {st}, 1) /\ Pushed(q) = Pushed(iq) /\ Popped(q) = Popped(iq)
    BY <1>2, <1>5, CreateStep
<1> QED
    BY <1>4, <1>6, WorkAccount

LEMMA StoreAccount ==
    ASSUME NeverCut, HInv, Uncut, StoreBuffer2D
    PROVE  Uncut'
<1>1. PICK q : q = Create(iq, 3, "STORE", "OUT")
    OBVIOUS
<1>2. PICK cs : cs = Append(calls, Work(3))
    OBVIOUS
<1>3. /\ Spend /\ CheckInsnOverFlow(q, cs) /\ serial' = serial /\ owed' = owed
    BY <1>1, <1>2 DEF StoreBuffer2D, StoreStage
<1>4. Routed(iq) /\ Creates("STORE", "OUT", 3)
    BY <1>3 DEF Creates, StoreStage, Spend, HInv, Batch
<1>5. Step(iq, q, {3}, 1) /\ Pushed(q) = Pushed(iq) /\ Popped(q) = Popped(iq)
    BY <1>1, <1>4, CreateStep
<1> QED
    BY <1>3, <1>5, WorkAccount

LEMMA OpAccount ==
    ASSUME NeverCut, HInv, Uncut, NEW op \in Ops, NEW uopLoad \in UopLoads, PushOp(op, uopLoad)
    PROVE  Uncut'
<1>1. PICK a : a = IF uopLoad THEN Create(iq, 2, "LOAD", "UOP") ELSE iq
    OBVIOUS
<1>2. PICK q : q = Create(a, 2, op, "UOP")
    OBVIOUS
<1>3. PICK cs : cs = Append(calls, Work(2))
    OBVIOUS
<1>4. /\ Spend /\ CheckInsnOverFlow(q, cs) /\ serial' = serial /\ owed' = owed
    BY <1>1, <1>2, <1>3 DEF PushOp, ComputeStage
<1>5. Routed(iq)
    BY <1>4 DEF Spend, HInv, Batch
<1>6. Step(iq, q, {2}, 2) /\ Pushed(q) = Pushed(iq) /\ Popped(q) = Popped(iq)
    BY <1>1, <1>2, <1>5, OpStep
<1> QED
    BY <1>4, <1>6, WorkAccount

\* One token more or less on the link of k, pushed or popped.
LEMMA OweMore ==
    \A o \in [Link -> Nat], k \in Queue, d \in {1, -1} :
        \A p : p = [o EXCEPT ![LinkOf[k]] = @ + d] =>
            /\ p[LinkOf[k]] = o[LinkOf[k]] + d
            /\ \A m \in Queue : m # k => p[LinkOf[m]] = o[LinkOf[m]]
<1> TAKE o \in [Link -> Nat], k \in Queue, d \in {1, -1}
<1> TAKE p
<1> HAVE p = [o EXCEPT ![LinkOf[k]] = @ + d]
<1>1. \A m \in Queue : LinkOf[m] \in Link
    BY Links
<1>2. \A m \in Queue : m # k => LinkOf[m] # LinkOf[k]
    <2>1. \A m \in Queue : LinkOf[m] = <<From[m], To[m]>>
        BY Links
    <2>2. \A m \in Queue : From[m] = From[k] /\ To[m] = To[k] => m = k
        BY Links
    <2> QED
        BY <2>1, <2>2
<1> QED
    BY <1>1, <1>2

TokenMoves(k) ==
    /\ Spend /\ serial' = serial /\ status' = status
    /\ \E T, m : m \in 0..2 /\ Step(iq, iq', T, m)
    /\ \/ /\ owed' = [owed EXCEPT ![LinkOf[k]] = @ + 1]
          /\ Pushed(iq') = Plus(Pushed(iq), k) /\ Popped(iq') = Popped(iq)
       \/ /\ owed' = [owed EXCEPT ![LinkOf[k]] = @ - 1]
          /\ Pushed(iq') = Pushed(iq) /\ Popped(iq') = Plus(Popped(iq), k)

\* What is owed, with the pops and without the pushes of the batch, stays the same.
LEMMA OwedMoves ==
    ASSUME HInv, NEW k \in Queue, TokenMoves(k)
    PROVE  \A j \in Queue : /\ owed[LinkOf[j]] \in Nat /\ Popped(iq)[j] \in Nat /\ Pushed(iq)[j] \in Nat
                            /\ owed'[LinkOf[j]] + Popped(iq')[j] - Pushed(iq')[j]
                                  = owed[LinkOf[j]] + Popped(iq)[j] - Pushed(iq)[j]
<1>1. Routed(iq) /\ owed \in [Link -> Nat]
    BY DEF TokenMoves, Spend, HInv, Batch, HostTypes
<1>2. Pushed(iq) \in [Queue -> Nat] /\ Popped(iq) \in [Queue -> Nat]
    BY <1>1, TokenCounts
<1>3. \A j \in Queue : owed[LinkOf[j]] \in Nat /\ Popped(iq)[j] \in Nat /\ Pushed(iq)[j] \in Nat
    BY <1>1, <1>2, Links
<1>4. \A j \in Queue : owed'[LinkOf[j]] + Popped(iq')[j] - Pushed(iq')[j]
                          = owed[LinkOf[j]] + Popped(iq)[j] - Pushed(iq)[j]
    <2>1. CASE /\ owed' = [owed EXCEPT ![LinkOf[k]] = @ + 1]
               /\ Pushed(iq') = Plus(Pushed(iq), k) /\ Popped(iq') = Popped(iq)
        <3>1. /\ owed'[LinkOf[k]] = owed[LinkOf[k]] + 1
              /\ \A j \in Queue : j # k => owed'[LinkOf[j]] = owed[LinkOf[j]]
            BY <1>1, <2>1, OweMore
        <3>2. \A j \in Queue : Pushed(iq')[j] = Pushed(iq)[j] + (IF j = k THEN 1 ELSE 0)
            BY <1>2, <2>1, PlusValues
        <3> QED
            BY <1>3, <2>1, <3>1, <3>2
    <2>2. CASE /\ owed' = [owed EXCEPT ![LinkOf[k]] = @ - 1]
               /\ Pushed(iq') = Pushed(iq) /\ Popped(iq') = Plus(Popped(iq), k)
        <3>1. /\ owed'[LinkOf[k]] = owed[LinkOf[k]] + (-1)
              /\ \A j \in Queue : j # k => owed'[LinkOf[j]] = owed[LinkOf[j]]
            <4>1. owed' = [owed EXCEPT ![LinkOf[k]] = @ + (-1)]
                <5>1. owed[LinkOf[k]] - 1 = owed[LinkOf[k]] + (-1)
                    BY <1>3
                <5> QED
                    BY <2>2, <5>1
            <4> QED
                BY <1>1, <4>1, OweMore
        <3>2. \A j \in Queue : Popped(iq')[j] = Popped(iq)[j] + (IF j = k THEN 1 ELSE 0)
            BY <1>2, <2>2, PlusValues
        <3> QED
            BY <1>3, <2>2, <3>1, <3>2
    <2> QED
        BY <2>1, <2>2 DEF TokenMoves
<1> QED
    BY <1>3, <1>4

LEMMA TokenAccount ==
    ASSUME HInv, Uncut, NEW k \in Queue, TokenMoves(k)
    PROVE  Uncut'
<1>0. PICK T, m : m \in 0..2 /\ Step(iq, iq', T, m)
    BY DEF TokenMoves
<1>1. /\ status = "host" /\ HostTypes /\ Routed(iq) /\ budget.calls > 0 /\ status' = status
      /\ budget' = [budget EXCEPT !.calls = @ - 1]
    BY DEF TokenMoves, Spend, HInv, Batch
<1>2. budget.calls \in Nat /\ budget'.calls = budget.calls - 1 /\ owed \in [Link -> Nat]
    BY <1>1 DEF HostTypes
<1>3. Account(iq, owed, budget.calls) /\ budget.calls <= MaxCalls
    BY <1>1 DEF Uncut
<1>4. /\ PopsFollowPushes(iq'.insns) /\ Len(iq'.insns) <= 2 * (MaxCalls - (budget.calls - 1))
    BY <1>0, <1>1, <1>2, <1>3, AccountStep
<1>5. \A j \in Queue : owed[LinkOf[j]] + Popped(iq)[j] = Pushed(iq)[j]
    BY <1>3 DEF Account
<1>6. \A j \in Queue : owed'[LinkOf[j]] + Popped(iq')[j] = Pushed(iq')[j]
    <2>1. owed' \in [Link -> Int] /\ Pushed(iq') \in [Queue -> Nat] /\ Popped(iq') \in [Queue -> Nat]
        BY <1>0, <1>2, TokenCounts DEF Step, TokenMoves
    <2>2. \A j \in Queue : owed'[LinkOf[j]] \in Int /\ Pushed(iq')[j] \in Nat /\ Popped(iq')[j] \in Nat
        BY <2>1, Links
    <2> QED
        BY <1>5, <2>2, OwedMoves
<1>7. budget'.calls <= MaxCalls
    BY <1>2, <1>3, InsnQueueAssumption
<1> QED
    BY <1>1, <1>2, <1>4, <1>6, <1>7 DEF Uncut, Account

LEMMA DepMoves ==
    ASSUME HInv, NEW k \in Queue, NEW from, NEW to, from = From[k], to = To[k],
           DepPush(from, to) \/ DepPop(from, to)
    PROVE  TokenMoves(k)
<1>1. LinkOf[k] = <<from, to>>
    BY Links
<1>2. Spend /\ serial' = serial /\ status' = status
    BY DEF DepPush, DepPop
<1>3. Routed(iq)
    BY <1>2 DEF Spend, HInv, Batch
<1>4. CASE DepPush(from, to)
    <2>1. iq' = DepPushOp(iq, from, to) /\ owed' = [owed EXCEPT ![LinkOf[k]] = @ + 1]
        BY <1>1, <1>4 DEF DepPush
    <2>2. Step(iq, iq', {from}, 2) /\ Pushed(iq') = Plus(Pushed(iq), k) /\ Popped(iq') = Popped(iq)
        BY <1>3, <2>1, PushStep
    <2> QED
        BY <1>2, <2>1, <2>2 DEF TokenMoves
<1>5. CASE DepPop(from, to)
    <2>1. iq' = DepPopOp(iq, from, to) /\ owed' = [owed EXCEPT ![LinkOf[k]] = @ - 1]
        BY <1>1, <1>5 DEF DepPop
    <2>2. Step(iq, iq', {to}, 1) /\ Pushed(iq') = Pushed(iq) /\ Popped(iq') = Plus(Popped(iq), k)
        BY <1>3, <2>1, PopStep
    <2> QED
        BY <1>2, <2>1, <2>2 DEF TokenMoves
<1> QED
    BY <1>4, <1>5

\* Synchronize, with every token popped.
LEMMA SyncAccount ==
    ASSUME NeverCut, Balanced, HInv, Uncut, Synchronize
    PROVE  Uncut'
<1>1. /\ HostTypes /\ status = "host" /\ Routed(iq) /\ Owed = 0 /\ Launch(iq, calls)
      /\ serial' = serial /\ owed' = owed /\ budget' = [budget EXCEPT !.syncs = @ - 1]
    BY DEF Synchronize, HInv, Batch
<1>2. owed \in [Link -> Nat] /\ budget.calls \in Nat /\ budget.limit \in Limits /\ budget'.calls = budget.calls
    BY <1>1 DEF HostTypes
<1>3. Account(iq, owed, budget.calls) /\ budget.calls <= MaxCalls
    BY <1>1 DEF Uncut
<1>4. \A l \in Link : owed[l] = 0
    <2>1. \A l \in Link : l \in {<<1, 2>>, <<2, 1>>, <<2, 3>>, <<3, 2>>} /\ owed[l] \in Nat
        BY <1>2 DEF Link
    <2>2. /\ owed[<<1, 2>>] \in Nat /\ owed[<<2, 1>>] \in Nat
          /\ owed[<<2, 3>>] \in Nat /\ owed[<<3, 2>>] \in Nat
        BY <1>2 DEF Link
    <2>3. \A a, b, c, d \in Nat : a + b + c + d = 0 => a = 0 /\ b = 0 /\ c = 0 /\ d = 0
        OBVIOUS
    <2>4. /\ owed[<<1, 2>>] = 0 /\ owed[<<2, 1>>] = 0
          /\ owed[<<2, 3>>] = 0 /\ owed[<<3, 2>>] = 0
        BY <1>1, <2>2, <2>3 DEF Owed
    <2> QED
        BY <2>1, <2>4
<1>5. Pushed(iq) \in [Queue -> Nat] /\ Popped(iq) \in [Queue -> Nat]
    BY <1>1, TokenCounts
<1>6. \A k \in Queue : Popped(iq)[k] = Pushed(iq)[k]
    <2>1. \A k \in Queue : owed[LinkOf[k]] = 0
        BY <1>4, Links
    <2> QED
        BY <1>3, <1>5, <2>1 DEF Account
<1>7. Popped(iq) = Pushed(iq)
    BY <1>5, <1>6
<1>8. status' \in {"device", "aborted"}
    BY <1>1 DEF Launch
<1>9. CASE serial
    BY <1>1, <1>2, <1>3, <1>4, <1>8, <1>9 DEF Uncut
<1>10. CASE ~serial
    <2>1. PICK p : p = WaitForAllOp(iq)
        OBVIOUS
    <2>2. PICK r : r = Create(p, 2, "FINISH", "UOP")
        OBVIOUS
    <2>3. iq' = r /\ status' = IF SyncChecks(r) THEN "device" ELSE "aborted"
        BY <1>1, <1>10, <2>1, <2>2 DEF Launch, Sealed, ComputeStage
    <2>4. PopsFollowPushes(iq.insns)
        BY <1>3 DEF Account
    <2>5. WellFormed(r.insns) /\ ~PendingPop(r) /\ Len(r.insns) \in Nat /\ Len(r.insns) <= Len(iq.insns) + 8
        BY <1>1, <1>7, <2>1, <2>2, <2>4, SealedRuns
    <2>6. Len(r.insns) <= budget.limit
        <3>1. Len(iq.insns) \in Nat /\ Len(iq.insns) <= 2 * (MaxCalls - budget.calls)
            BY <1>1, <1>3, Lengths DEF Account
        <3>2. budget.limit \in Nat /\ MaxCalls \in Nat /\ budget.limit >= 2 * MaxCalls + 8
            BY <1>2, InsnQueueAssumption DEF NeverCut
        <3>3. \A a, b, c, d, e \in Nat : a <= b + 8 /\ b <= 2 * (c - d) /\ e >= 2 * c + 8 => a <= e
            OBVIOUS
        <3> QED
            BY <1>2, <2>5, <3>1, <3>2, <3>3
    <2>7. status' = "device"
        BY <2>3, <2>5, <2>6 DEF SyncChecks
    <2> QED
        BY <1>1, <1>2, <1>3, <1>4, <2>3, <2>5, <2>7 DEF Uncut
<1> QED
    BY <1>9, <1>10

LEMMA Returned ==
    ASSUME HInv, DeviceReturns
    PROVE  /\ iq' \in QueueT /\ iq'.insns = <<>> /\ ~PendingPop(iq')
           /\ PopsFollowPushes(iq'.insns) /\ \A k \in Queue : Pushed(iq')[k] = 0 /\ Popped(iq')[k] = 0
<1>1. iq \in QueueT /\ ~PendingPop(iq) /\ iq' = [iq EXCEPT !.insns = <<>>]
    BY DEF DeviceReturns, HInv, Batch, Sent
<1>2. iq' \in QueueT /\ iq'.insns = <<>> /\ iq'.popPrev = iq.popPrev /\ iq'.popNext = iq.popNext
    <2>1. \A q \in QueueT, t \in Seq(Insn) :
             /\ [q EXCEPT !.insns = t] \in QueueT /\ [q EXCEPT !.insns = t].insns = t
             /\ [q EXCEPT !.insns = t].popPrev = q.popPrev /\ [q EXCEPT !.insns = t].popNext = q.popNext
        BY DEF QueueT
    <2>2. <<>> \in Seq(Insn)
        OBVIOUS
    <2> QED
        BY <1>1, <2>1, <2>2
<1>3. ~PendingPop(iq')
    BY <1>1, <1>2 DEF PendingPop
<1> QED
    BY <1>2, <1>3, NothingYet

LEMMA ReturnAccount ==
    ASSUME HInv, Uncut, DeviceReturns
    PROVE  Uncut'
<1>1. /\ HostTypes /\ status = "device" /\ status' = "host" /\ owed' = owed /\ budget' = budget
    BY DEF DeviceReturns, HInv
<1>2. /\ iq'.insns = <<>> /\ PopsFollowPushes(iq'.insns)
      /\ \A k \in Queue : Pushed(iq')[k] = 0 /\ Popped(iq')[k] = 0
    BY Returned
<1>3. \A k \in Queue : owed[LinkOf[k]] = 0
    BY <1>1, Links DEF Uncut
<1>4. Len(iq'.insns) = 0 /\ budget.calls \in Nat /\ budget.calls <= MaxCalls
    BY <1>1, <1>2 DEF HostTypes, Uncut
<1>5. Len(iq'.insns) <= 2 * (MaxCalls - budget.calls)
    BY <1>4, InsnQueueAssumption
<1>6. Account(iq', owed', budget'.calls)
    BY <1>1, <1>2, <1>3, <1>5 DEF Account
<1> QED
    BY <1>1, <1>4, <1>6 DEF Uncut

LEMMA UncutInit == HostInit => Uncut
<1> SUFFICES ASSUME HostInit
             PROVE  Uncut
    OBVIOUS
<1>1. iq = EmptyQueue /\ status = "host" /\ owed = [l \in Link |-> 0] /\ budget.calls = MaxCalls
    BY DEF HostInit
<1>2. PopsFollowPushes(iq.insns) /\ \A k \in Queue : Pushed(iq)[k] = 0 /\ Popped(iq)[k] = 0
    <2>1. Routed(EmptyQueue) /\ EmptyQueue.insns = <<>> /\ ~PendingPop(EmptyQueue)
        BY NothingYet
    <2>2. EmptyQueue \in QueueT
        BY <2>1 DEF Routed
    <2> QED
        BY <1>1, <2>1, <2>2, NothingYet
<1>3. \A k \in Queue : owed[LinkOf[k]] = 0
    BY <1>1, Links
<1>4. Len(iq.insns) = 0 /\ 0 <= 2 * (MaxCalls - MaxCalls) /\ MaxCalls <= MaxCalls
    BY <1>1, InsnQueueAssumption DEF EmptyQueue
<1>5. Account(iq, owed, budget.calls)
    BY <1>1, <1>2, <1>3, <1>4 DEF Account
<1> QED
    BY <1>1, <1>4, <1>5 DEF Uncut

LEMMA UncutNext ==
    ASSUME NeverCut, Balanced, HInv, Uncut, [HostNext]_hostVars
    PROVE  Uncut'
<1>1. ASSUME NEW mem \in LoadMems, LoadBuffer2D(mem)
      PROVE  Uncut'
    BY <1>1, LoadAccount
<1>2. CASE StoreBuffer2D
    BY <1>2, StoreAccount
<1>3. ASSUME NEW op \in Ops, NEW uopLoad \in UopLoads, PushOp(op, uopLoad)
      PROVE  Uncut'
    BY <1>3, OpAccount
<1>4. ASSUME NEW l \in Link, DepPush(l[1], l[2]) \/ DepPop(l[1], l[2])
      PROVE  Uncut'
    <2>1. PICK k \in Queue : l = <<From[k], To[k]>>
        BY Links
    <2>2. l[1] = From[k] /\ l[2] = To[k]
        BY <2>1
    <2> QED
        BY <1>4, <2>2, DepMoves, TokenAccount
<1>5. ASSUME NEW mode \in SerialModes, SetDebugMode(mode)
      PROVE  Uncut'
    <2>1. /\ HostTypes /\ status = "host" /\ iq' = iq /\ status' = status /\ owed' = owed
          /\ budget.calls > 0 /\ budget' = [budget EXCEPT !.calls = @ - 1] /\ Routed(iq)
        BY <1>5 DEF SetDebugMode, Spend, HInv, Batch
    <2>2. budget.calls \in Nat /\ budget'.calls = budget.calls - 1
        BY <2>1 DEF HostTypes
    <2>3. Account(iq, owed, budget.calls) /\ budget.calls <= MaxCalls
        BY <2>1 DEF Uncut
    <2>4. Len(iq.insns) <= 2 * (MaxCalls - (budget.calls - 1)) /\ budget.calls - 1 <= MaxCalls
        <3>1. Len(iq.insns) \in Nat /\ Len(iq.insns) <= 2 * (MaxCalls - budget.calls)
            BY <2>1, <2>3, Lengths DEF Account
        <3> QED
            BY <2>2, <2>3, <3>1, InsnQueueAssumption
    <2>5. Account(iq, owed, budget.calls - 1)
        BY <2>3, <2>4 DEF Account
    <2> QED
        BY <2>1, <2>2, <2>4, <2>5 DEF Uncut
<1>6. CASE Synchronize
    BY <1>6, SyncAccount
<1>7. CASE DeviceReturns
    BY <1>7, ReturnAccount
<1>8. CASE UNCHANGED hostVars
    BY <1>8 DEF hostVars, Uncut
<1> QED
    BY <1>1, <1>2, <1>3, <1>4, <1>5, <1>6, <1>7, <1>8 DEF HostNext, HostCall

\* The limit is the build's: a batch that cannot be cut stays so.
LEMMA LimitKept ==
    ASSUME HInv, [HostNext]_hostVars
    PROVE  budget'.limit = budget.limit
<1>1. budget \in [calls : Nat, syncs : Nat, limit : Limits]
    BY DEF HInv, HostTypes
<1>2. \/ budget' = budget
      \/ budget' = [budget EXCEPT !.calls = @ - 1]
      \/ budget' = [budget EXCEPT !.syncs = @ - 1]
    BY DEF HostNext, HostCall, LoadBuffer2D, StoreBuffer2D, PushOp, DepPush, DepPop, SetDebugMode,
                Synchronize, DeviceReturns, Spend, hostVars
<1> QED
    BY <1>1, <1>2

LEMMA UncutAlways ==
    ASSUME Balanced
    PROVE  HostSpec => [](HInv /\ (NeverCut => Uncut))
<1>1. HInv /\ (NeverCut => Uncut) /\ [HostNext]_hostVars => (NeverCut => Uncut)'
    BY LimitKept, UncutNext DEF NeverCut
<1>2. HInv /\ [HostNext]_hostVars => HInv'
    BY HNext
<1> QED
    BY <1>1, <1>2, HInit, UncutInit, PTL DEF HostSpec

\* A kernel that pops what it pushes gets a stream that runs to its end,
\* however its pushes were merged and its pops deferred: every pop behind its
\* push, every token popped, FINISH last, every load and store announced to
\* the compute core.  Balanced and NeverCut are what the code leaves to its
\* callers: CheckInsnOverFlow cuts a batch wherever it is.
THEOREM UncutStreamsRun == Balanced => (HostSpec => [](NeverCut => LaunchedStreamsRun))
<1> SUFFICES ASSUME Balanced
             PROVE  HostSpec => [](NeverCut => LaunchedStreamsRun)
    OBVIOUS
<1>1. Uncut => LaunchedStreamsRun
    BY DEF Uncut, LaunchedStreamsRun
<1> QED
    BY <1>1, UncutAlways, PTL

\* The CHECKs of Synchronize: outside serial mode such a kernel passes them,
\* so that no pop is left without an instruction and the stream fits in one
\* transfer, with the eight instructions that wait and finish.
THEOREM UncutStreamsLaunch == Balanced => (HostSpec => [](NeverCut /\ status = "aborted" => serial))
<1> SUFFICES ASSUME Balanced
             PROVE  HostSpec => [](NeverCut /\ status = "aborted" => serial)
    OBVIOUS
<1>1. Uncut => (status = "aborted" => serial)
    BY DEF Uncut
<1> QED
    BY <1>1, UncutAlways, PTL

--------------------------------------------------------------------------------
(* Batches that may be cut.  Left are the tokens the batch finds in the        *)
(* queues: what the kernels owe, without what the batch has added to it.       *)

Left == [k \in Queue |-> owed[LinkOf[k]] + Popped(iq)[k] - Pushed(iq)[k]]
LeftInv == Left \in Base /\ Ordered(iq.insns, Left)

\* A pop of a call finds its push in the batch or a token that was left.
LEMMA LeftKept ==
    ASSUME HInv, Routed(iq), LeftInv, StaysOrdered(iq, iq'),
           \A k \in Queue : owed'[LinkOf[k]] + Popped(iq')[k] - Pushed(iq')[k]
                              = owed[LinkOf[k]] + Popped(iq)[k] - Pushed(iq)[k]
    PROVE  Left' = Left /\ LeftInv'
<1>1. Left' = Left
    BY DEF Left
<1>2. Behind(iq, Left)
    <2>1. Pushed(iq) \in [Queue -> Nat] /\ Popped(iq) \in [Queue -> Nat]
        BY TokenCounts
    <2>2. \A k \in Queue : owed[LinkOf[k]] \in Nat
        BY Links DEF HInv, HostTypes
    <2> QED
        BY <2>1, <2>2 DEF Behind, Left
<1>3. Ordered(iq'.insns, Left)
    BY <1>2 DEF LeftInv, StaysOrdered
<1> QED
    BY <1>1, <1>3 DEF LeftInv

\* The calls that create instructions, and Synchronize: what they append
\* themselves moves no token that stays.
LEMMA WorkLeft ==
    ASSUME HInv, LeftInv, ~serial, Routed(iq), owed' = owed, NEW q, Routed(q), StaysOrdered(iq, q),
           Pushed(q) = Pushed(iq), Popped(q) = Popped(iq), NEW cs, Launch(q, cs) \/ iq' = q
    PROVE  Left' = Left /\ LeftInv'
<1>1. CASE iq' = q
    BY <1>1, LeftKept
<1>2. CASE Launch(q, cs)
    <2>1. PICK p : p = WaitForAllOp(q)
        OBVIOUS
    <2>2. iq' = Create(p, 2, "FINISH", "UOP")
        BY <1>2, <2>1 DEF Launch, Sealed, ComputeStage
    <2>3. /\ StaysOrdered(q, iq')
          /\ Pushed(iq') = Plus(Plus(Pushed(iq), "s2g"), "l2g")
          /\ Popped(iq') = Plus(Plus(Popped(iq), "s2g"), "l2g")
        BY <2>1, <2>2, SealedOrder
    <2>4. StaysOrdered(iq, iq')
        BY <2>3, SameBehind DEF StaysOrdered, StaysBehind
    <2>5. /\ Pushed(iq) \in [Queue -> Nat] /\ Popped(iq) \in [Queue -> Nat]
          /\ "s2g" \in Queue /\ "l2g" \in Queue
          /\ \A k \in Queue : owed[LinkOf[k]] \in Nat
        BY TokenCounts, Links DEF HInv, HostTypes, Queue
    <2>6. ASSUME NEW f \in [Queue -> Nat], NEW k \in Queue
          PROVE  Plus(Plus(f, "s2g"), "l2g")[k]
                    = f[k] + (IF k = "s2g" THEN 1 ELSE 0) + (IF k = "l2g" THEN 1 ELSE 0)
        <3>1. PICK g \in [Queue -> Nat] : g = Plus(f, "s2g")
            BY <2>5, PlusValues
        <3>2. g[k] = f[k] + (IF k = "s2g" THEN 1 ELSE 0)
            BY <2>5, <3>1, PlusValues
        <3>3. Plus(g, "l2g")[k] = g[k] + (IF k = "l2g" THEN 1 ELSE 0)
            BY <2>5, PlusValues
        <3> QED
            BY <3>1, <3>2, <3>3
    <2>7. \A k \in Queue : owed'[LinkOf[k]] + Popped(iq')[k] - Pushed(iq')[k]
                              = owed[LinkOf[k]] + Popped(iq)[k] - Pushed(iq)[k]
        BY <2>3, <2>5, <2>6
    <2> QED
        BY <2>4, <2>7, LeftKept
<1> QED
    BY <1>1, <1>2

\* The two that move tokens.
LEMMA TokenLeft ==
    ASSUME HInv, LeftInv, NEW k \in Queue, TokenMoves(k)
    PROVE  Left' = Left /\ LeftInv'
<1>1. Routed(iq) /\ StaysOrdered(iq, iq')
    BY DEF TokenMoves, Spend, HInv, Batch, Step
<1> QED
    BY <1>1, OwedMoves, LeftKept

\* A call, launching or not.
LEMMA CallLeft ==
    ASSUME HInv, LeftInv, ~serial, HostCall
    PROVE  Left' = Left /\ LeftInv'
<1>1. status = "host" /\ Routed(iq)
    BY DEF HostCall, LoadBuffer2D, StoreBuffer2D, PushOp, DepPush, DepPop, SetDebugMode, Synchronize, Spend,
           HInv, Batch
<1>2. ASSUME NEW q, NEW T, NEW n, Step(iq, q, T, n), Pushed(q) = Pushed(iq), Popped(q) = Popped(iq),
             NEW cs, CheckInsnOverFlow(q, cs), owed' = owed
      PROVE  Left' = Left /\ LeftInv'
    BY <1>1, <1>2, WorkLeft DEF Step, CheckInsnOverFlow
<1>3. ASSUME NEW mem \in LoadMems, LoadBuffer2D(mem)
      PROVE  Left' = Left /\ LeftInv'
    <2>1. PICK st : st = GetMemPipelineStage(mem)
        OBVIOUS
    <2>2. PICK q : q = Create(iq, st, "LOAD", mem)
        OBVIOUS
    <2>3. CheckInsnOverFlow(q, Append(calls, Work(st))) /\ owed' = owed
        BY <1>3, <2>1, <2>2 DEF LoadBuffer2D
    <2>4. Creates("LOAD", mem, st)
        BY <2>1, InsnQueueAssumption DEF Creates
    <2>5. Step(iq, q, {st}, 1) /\ Pushed(q) = Pushed(iq) /\ Popped(q) = Popped(iq)
        BY <1>1, <2>2, <2>4, CreateStep
    <2> QED
        BY <1>2, <2>3, <2>5
<1>4. CASE StoreBuffer2D
    <2>1. PICK q : q = Create(iq, 3, "STORE", "OUT")
        OBVIOUS
    <2>2. CheckInsnOverFlow(q, Append(calls, Work(3))) /\ owed' = owed
        BY <1>4, <2>1 DEF StoreBuffer2D, StoreStage
    <2>3. Creates("STORE", "OUT", 3)
        BY DEF Creates, StoreStage
    <2>4. Step(iq, q, {3}, 1) /\ Pushed(q) = Pushed(iq) /\ Popped(q) = Popped(iq)
        BY <1>1, <2>1, <2>3, CreateStep
    <2> QED
        BY <1>2, <2>2, <2>4
<1>5. ASSUME NEW op \in Ops, NEW uopLoad \in UopLoads, PushOp(op, uopLoad)
      PROVE  Left' = Left /\ LeftInv'
    <2>1. PICK a : a = IF uopLoad THEN Create(iq, 2, "LOAD", "UOP") ELSE iq
        OBVIOUS
    <2>2. PICK q : q = Create(a, 2, op, "UOP")
        OBVIOUS
    <2>3. CheckInsnOverFlow(q, Append(calls, Work(2))) /\ owed' = owed
        BY <1>5, <2>1, <2>2 DEF PushOp, ComputeStage
    <2>4. Step(iq, q, {2}, 2) /\ Pushed(q) = Pushed(iq) /\ Popped(q) = Popped(iq)
        BY <1>1, <2>1, <2>2, OpStep
    <2> QED
        BY <1>2, <2>3, <2>4
<1>6. ASSUME NEW l \in Link, DepPush(l[1], l[2]) \/ DepPop(l[1], l[2])
      PROVE  Left' = Left /\ LeftInv'
    <2>1. PICK k \in Queue : l = <<From[k], To[k]>>
        BY Links
    <2>2. l[1] = From[k] /\ l[2] = To[k]
        BY <2>1
    <2> QED
        BY <1>6, <2>2, DepMoves, TokenLeft
<1>7. ASSUME NEW mode \in SerialModes, SetDebugMode(mode)
      PROVE  Left' = Left /\ LeftInv'
    <2>1. iq' = iq /\ owed' = owed
        BY <1>7 DEF SetDebugMode
    <2> QED
        BY <2>1 DEF Left, LeftInv
<1>8. CASE Synchronize
    <2>1. Launch(iq, calls) /\ owed' = owed
        BY <1>8 DEF Synchronize
    <2>2. StaysOrdered(iq, iq)
        BY DEF StaysOrdered
    <2> QED
        BY <1>1, <2>1, <2>2, WorkLeft
<1> QED
    BY <1>3, <1>4, <1>5, <1>6, <1>7, <1>8 DEF HostCall

\* The device returns: the next batch finds what is owed then.
LEMMA ReturnLeft ==
    ASSUME HInv, DeviceReturns
    PROVE  /\ LeftInv'
           /\ \A k \in Queue : /\ Left'[k] = owed[LinkOf[k]] /\ owed[LinkOf[k]] \in Nat
                               /\ Left[k] = owed[LinkOf[k]] + Cardinality(Poppers(iq.insns, k))
                                                             - Cardinality(Pushers(iq.insns, k))
<1>1. owed \in [Link -> Nat] /\ iq \in QueueT /\ ~PendingPop(iq) /\ owed' = owed
    BY DEF DeviceReturns, HInv, HostTypes, Batch, Sent
<1>2. \A k \in Queue : owed[LinkOf[k]] \in Nat
    BY <1>1, Links
<1>3. /\ iq' \in QueueT /\ iq'.insns = <<>>
      /\ \A k \in Queue : Pushed(iq')[k] = 0 /\ Popped(iq')[k] = 0
    BY Returned
<1>4. \A k \in Queue : Left'[k] = owed[LinkOf[k]]
    BY <1>1, <1>2, <1>3 DEF Left
<1>5. \A k \in Queue : ~Pend(iq, k)
    BY <1>1, Links DEF Pend, PendingPop
<1>6. \A k \in Queue : /\ Pushed(iq)[k] = Cardinality(Pushers(iq.insns, k))
                        /\ Popped(iq)[k] = Cardinality(Poppers(iq.insns, k))
    BY <1>1, <1>5, Positions DEF QueueT, Pushed, Popped
<1>7. \A k \in Queue : Left[k] = owed[LinkOf[k]] + Cardinality(Poppers(iq.insns, k))
                                                  - Cardinality(Pushers(iq.insns, k))
    BY <1>6 DEF Left
<1>8. Left' \in Base
    <2>1. Left' = [k \in Queue |-> Left'[k]]
        BY DEF Left
    <2> QED
        BY <1>2, <1>4, <2>1 DEF Base
<1>9. \A k \in Queue : Poppers(iq'.insns, k) = {}
    BY <1>3 DEF Poppers
<1>10. LeftInv'
    BY <1>8, <1>9 DEF LeftInv, Ordered
<1> QED
    BY <1>2, <1>4, <1>7, <1>10

--------------------------------------------------------------------------------
(* The simulated device behind the queue: Tlpp_proofs, of any streams.         *)

Dev == INSTANCE Tlpp_proofs WITH Streams <- Seq(Insn)

LEMMA SameInsns ==
    /\ Dev!Insn = Insn /\ Dev!Queue = Queue /\ Dev!Core = Core
    /\ \A insn : /\ Dev!GetCoreType(insn) = GetCoreType(insn)
                 /\ Dev!PopQueues(insn) = PopQueues(insn) /\ Dev!PushQueues(insn) = PushQueues(insn)
    /\ \A s : Dev!WellFormed(s) <=> WellFormed(s)
<1>1. Dev!Insn = Insn /\ Dev!Queue = Queue /\ Dev!Core = Core
    BY DEF Dev!Insn, Dev!Queue, Dev!Core, Insn, Queue, Core, Opcode, MemType, Dev!Opcode, Dev!MemType
<1>2. ASSUME NEW insn
      PROVE  Dev!GetCoreType(insn) = GetCoreType(insn)
    BY DEF Dev!GetCoreType, GetCoreType
<1>3. ASSUME NEW insn
      PROVE  Dev!PopQueues(insn) = PopQueues(insn) /\ Dev!PushQueues(insn) = PushQueues(insn)
    BY <1>1, <1>2 DEF Dev!PopQueues, PopQueues, Dev!PushQueues, PushQueues,
         PopPrevQueue, PopNextQueue, PushPrevQueue, PushNextQueue,
         Dev!PopPrevQueue, Dev!PopNextQueue, Dev!PushPrevQueue, Dev!PushNextQueue
<1>4. ASSUME NEW s
      PROVE  Dev!WellFormed(s) <=> WellFormed(s)
    <2>1. \A k : Dev!Pushers(s, k) = Pushers(s, k) /\ Dev!Poppers(s, k) = Poppers(s, k)
        BY <1>3 DEF Dev!Pushers, Dev!Poppers, Pushers, Poppers
    <2>2. \A S, i : Dev!Before(S, i) = Before(S, i)
        BY DEF Dev!Before, Before
    <2>7. \A S : Dev!Cardinality(S) = Cardinality(S)
        BY DEF Dev!Cardinality, Cardinality, Dev!IsFiniteSet, IsFiniteSet
    <2>3. Dev!PopsFollowPushes(s) <=> PopsFollowPushes(s)
        BY <1>1, <2>1, <2>2, <2>7 DEF Dev!PopsFollowPushes, PopsFollowPushes
    <2>4. Dev!TokensBalance(s) <=> TokensBalance(s)
        BY <1>1, <2>1, <2>7 DEF Dev!TokensBalance, TokensBalance
    <2>5. Dev!FinishEnds(s) <=> FinishEnds(s)
        BY <1>3 DEF Dev!FinishEnds, FinishEnds
    <2>6. Dev!WorkIsAnnounced(s) <=> WorkIsAnnounced(s)
        BY <1>2, <2>1 DEF Dev!WorkIsAnnounced, WorkIsAnnounced
    <2> QED
        BY <2>3, <2>4, <2>5, <2>6 DEF Dev!WellFormed, WellFormed
<1> QED
    BY <1>1, <1>2, <1>3, <1>4

LEMMA SameOrder ==
    /\ \A s, b : Dev!OrderedFrom(s, b) <=> Ordered(s, b)
    /\ \A b : Dev!Pending = {} /\ Dev!AccountedFrom(b) =>
          \A k \in Queue : tok[k] + Cardinality(Poppers(stream, k)) = b[k] + Cardinality(Pushers(stream, k))
<1>1. \A s, k : Dev!Pushers(s, k) = Pushers(s, k) /\ Dev!Poppers(s, k) = Poppers(s, k)
    BY SameInsns DEF Dev!Pushers, Dev!Poppers, Pushers, Poppers
<1>2. \A S, i : Dev!Before(S, i) = Before(S, i)
    BY DEF Dev!Before, Before
<1>3. \A S : Dev!Cardinality(S) = Cardinality(S)
    BY DEF Dev!Cardinality, Cardinality, Dev!IsFiniteSet, IsFiniteSet
<1>4. \A s, b : Dev!OrderedFrom(s, b) <=> Ordered(s, b)
    BY <1>1, <1>2, <1>3, SameInsns DEF Dev!OrderedFrom, Ordered
<1>5. \A S : S \ {} = S
    OBVIOUS
<1>6. ASSUME NEW b, Dev!Pending = {}, Dev!AccountedFrom(b), NEW k \in Queue
      PROVE  tok[k] + Cardinality(Poppers(stream, k)) = b[k] + Cardinality(Pushers(stream, k))
    BY <1>1, <1>3, <1>5, <1>6, SameInsns DEF Dev!AccountedFrom
<1> QED
    BY <1>4, <1>6

LEMMA SameRuns ==
    /\ \A c : Sim!Front(c) = Dev!Front(c)
    /\ \A insn : /\ Sim!Ready(insn) <=> Dev!Ready(insn)
                 /\ Sim!TokAfter(insn) = Dev!TokAfter(insn) /\ Sim!Wakes(insn) = Dev!Wakes(insn)
<1>1. \A c : Sim!Front(c) = Dev!Front(c)
    BY DEF Sim!Front, Dev!Front
<1>2. \A insn : /\ Sim!PopQueues(insn) = Dev!PopQueues(insn) /\ Sim!PushQueues(insn) = Dev!PushQueues(insn)
                /\ Sim!GetCoreType(insn) = Dev!GetCoreType(insn)
    BY DEF Sim!PopQueues, Dev!PopQueues, Sim!PushQueues, Dev!PushQueues,
           Sim!GetCoreType, Dev!GetCoreType, Sim!Queue, Dev!Queue,
           Sim!PopPrevQueue, Sim!PopNextQueue, Sim!PushPrevQueue, Sim!PushNextQueue,
           Dev!PopPrevQueue, Dev!PopNextQueue, Dev!PushPrevQueue, Dev!PushNextQueue
<1>3. \A insn : Sim!Ready(insn) <=> Dev!Ready(insn)
    BY <1>2 DEF Sim!Ready, Dev!Ready
<1>4. \A insn : Sim!TokAfter(insn) = Dev!TokAfter(insn)
    BY <1>2 DEF Sim!TokAfter, Dev!TokAfter, Sim!Queue, Dev!Queue
<1>5. \A insn : Sim!Wakes(insn) = Dev!Wakes(insn)
    BY <1>2 DEF Sim!Wakes, Dev!Wakes
<1> QED
    BY <1>1, <1>3, <1>4, <1>5
LEMMA SameSteps ==
    /\ Sim!Init <=> Dev!Init
    /\ \A s : Sim!Run(s) <=> Dev!Run(s)
    /\ Sim!Step <=> Dev!Step
    /\ Sim!Pending = Dev!Pending /\ simVars = Dev!vars
<1>1. Sim!Init <=> Dev!Init
    BY DEF Sim!Init, Dev!Init, Sim!NoInsns, Dev!NoInsns, Sim!Queue, Dev!Queue, Sim!Core, Dev!Core
<1>2. \A s : Sim!Run(s) <=> Dev!Run(s)
    BY DEF Sim!Run, Dev!Run, Sim!Core, Dev!Core, Sim!GetCoreType, Dev!GetCoreType, Sim!Rotations, Dev!Rotations
<1>3. Sim!Step <=> Dev!Step
    <2>1. Sim!Execute <=> Dev!Execute
        BY SameRuns DEF Sim!Execute, Dev!Execute
    <2>2. Sim!Yield <=> Dev!Yield
        BY SameRuns DEF Sim!Yield, Dev!Yield
    <2>3. Sim!Wake <=> Dev!Wake
      BY DEF Sim!Wake, Dev!Wake
    <2>4. Sim!Rescan <=> Dev!Rescan
      BY DEF Sim!Rescan, Dev!Rescan, Sim!Rotations, Dev!Rotations
    <2>5. Sim!Return <=> Dev!Return
      BY DEF Sim!Return, Dev!Return, Sim!NoInsns, Dev!NoInsns, Sim!Core, Dev!Core
    <2> QED
      BY <2>1, <2>2, <2>3, <2>4, <2>5 DEF Sim!Step, Dev!Step
<1>4. Sim!Pending = Dev!Pending /\ simVars = Dev!vars
    BY DEF Sim!Pending, Dev!Pending, Sim!Core, Dev!Core, simVars, Dev!vars
<1> QED
    BY <1>1, <1>2, <1>3, <1>4
LEMMA DevStreams == Seq(Insn) \subseteq Seq(Dev!Insn)
BY SameInsns

\* The properties of the device are those of VtaSim's own instance of it.
LEMMA SameProperties ==
    /\ Sim!InOrder <=> Dev!InOrder
    /\ Sim!NoMissedWake <=> Dev!NoMissedWake
    /\ Sim!SomeCoreCanRun <=> Dev!SomeCoreCanRun
<1>1. /\ Sim!Core = Dev!Core /\ \A insn : Sim!GetCoreType(insn) = Dev!GetCoreType(insn)
    BY DEF Sim!Core, Dev!Core, Sim!GetCoreType, Dev!GetCoreType
<1>2. \A c : Sim!CanRun(c) <=> Dev!CanRun(c)
    BY SameRuns DEF Sim!CanRun, Dev!CanRun
<1>3. \A s : Sim!Items(s) = Dev!Items(s)
    BY DEF Sim!Items, Dev!Items
<1> QED
    BY <1>1, <1>2, <1>3, SameSteps DEF Sim!InOrder, Dev!InOrder, Sim!NoMissedWake, Dev!NoMissedWake,
                                       Sim!SomeCoreCanRun, Dev!SomeCoreCanRun

--------------------------------------------------------------------------------
(* The two together. *)

LEMMA HostStep == [Next]_allVars => [HostNext]_hostVars
BY DEF Next, Call, DeviceStep, HostNext, allVars

LEMMA HostSide == Spec => HostSpec
BY HostStep, PTL DEF Spec, Init, HostSpec

\* A step is one of the device, which is given the batch that was launched, or
\* leaves it alone.
LEMMA DeviceSide ==
    ASSUME HInv', [Next]_allVars
    PROVE  \/ status' = "device" /\ iq'.insns \in Seq(Insn) /\ Dev!Run(iq'.insns)
           \/ [Dev!Step]_Dev!vars
<1>1. CASE Call /\ status' = "device"
    <2>1. iq'.insns \in Seq(Insn)
        BY DEF HInv, Batch, Sent, QueueT
    <2> QED
        BY <1>1, <2>1, SameSteps DEF Call
<1>2. CASE Call /\ status' # "device"
    <2>1. UNCHANGED simVars
        BY <1>2 DEF Call
    <2> QED
        BY <2>1 DEF simVars, Dev!vars
<1>3. CASE DeviceStep
    BY <1>3, SameSteps DEF DeviceStep
<1>4. CASE UNCHANGED allVars
    BY <1>4 DEF allVars, simVars, Dev!vars
<1> QED
    BY <1>1, <1>2, <1>3, <1>4 DEF Next

\* Of every batch, cut or not, serialized or not: the cores keep the order of
\* their instructions and no wake-up is lost.
THEOREM BatchesKeepOrder == Spec => [](Sim!InOrder /\ Sim!NoMissedWake)
<1> DEFINE J == Dev!TypeOK /\ Dev!Idle /\ Dev!InOrder /\ Dev!NoMissedWake
<1>1. Init => J
    <2>1. Init => Dev!Init
        BY SameSteps DEF Init
    <2>2. Dev!Init => Dev!TypeOK /\ Dev!Idle
        BY DevStreams, Dev!TypeInit
    <2>3. Dev!Init => Dev!InOrder /\ Dev!NoMissedWake
        BY DEF Dev!Init, Dev!InOrder, Dev!NoMissedWake
    <2> QED
        BY <2>1, <2>2, <2>3
<1>2. HInv' /\ J /\ [Next]_allVars => J'
    <2> SUFFICES ASSUME HInv', J, [Next]_allVars
                 PROVE  J'
        OBVIOUS
    <2>1. [Dev!Next]_Dev!vars
        BY DeviceSide DEF Dev!Next
    <2> QED
        BY <2>1, DevStreams, Dev!TypeStep, Dev!OrderStep, Dev!WakeStep
<1>3. J => Sim!InOrder /\ Sim!NoMissedWake
    BY SameProperties
<1>4. HostSpec => []HInv
    BY HAlways
<1> QED
    BY <1>1, <1>2, <1>3, <1>4, HostSide, PTL DEF Spec

LEMMA NeverSerial ==
    ASSUME TRUE \notin SerialModes
    PROVE  HostSpec => []~serial
<1>1. HostInit => ~serial
    BY DEF HostInit
<1>2. ~serial /\ [HostNext]_hostVars => ~serial'
    BY InsnQueueAssumption DEF HostNext, HostCall, LoadBuffer2D, StoreBuffer2D, PushOp, DepPush, DepPop,
                               SetDebugMode, Synchronize, DeviceReturns, hostVars
<1> QED
    BY <1>1, <1>2, PTL DEF HostSpec

\* What the device is given and does, when no batch is cut or serialized.
LEMMA DeviceAlways ==
    ASSUME Balanced, TRUE \notin SerialModes
    PROVE  Spec => [](NeverCut => Dev!Inv)
<1>3. HostSpec => []~serial
    BY NeverSerial
<1>4. HostSpec => [](HInv /\ (NeverCut => Uncut))
    BY UncutAlways
<1>5. Init => Dev!Inv
    BY SameSteps, DevStreams, Dev!InvInit DEF Init
<1>6. ASSUME HInv', (NeverCut => Uncut)', ~serial', [Next]_allVars, NeverCut => Dev!Inv, NeverCut' => NeverCut
      PROVE  (NeverCut => Dev!Inv)'
    <2> SUFFICES ASSUME NeverCut'
                 PROVE  Dev!Inv'
        OBVIOUS
    <2>1. Uncut' /\ Dev!Inv
        BY <1>6
    <2>2. CASE status' = "device" /\ iq'.insns \in Seq(Insn) /\ Dev!Run(iq'.insns)
        <3>1. WellFormed(iq'.insns)
            BY <1>6, <2>1, <2>2 DEF Uncut
        <3> QED
            BY <2>1, <2>2, <3>1, SameInsns, DevStreams, Dev!InvRun
    <2>3. CASE [Dev!Step]_Dev!vars
        BY <2>1, <2>3, DevStreams, Dev!InvWithin
    <2> QED
        BY <1>6, <2>2, <2>3, DeviceSide
<1>7. HInv /\ [Next]_allVars => (NeverCut' => NeverCut)
    BY LimitKept, HostStep DEF NeverCut
<1> QED
    BY <1>3, <1>4, <1>5, <1>6, <1>7, HostSide, PTL DEF Spec

\* "This will issue finish after last store finishes" (runtime.cc:1112): when
\* FINISH has run, so have the loads and stores it waits for on tokens only.
THEOREM FinishAwaitsStores == Balanced /\ TRUE \notin SerialModes => (Spec => []FinishAfterLastStore)
<1> SUFFICES ASSUME Balanced, TRUE \notin SerialModes
             PROVE  Spec => []FinishAfterLastStore
    OBVIOUS
<1>1. Dev!Inv => FinishAfterLastStore
    <2> SUFFICES ASSUME Dev!Inv, running, Len(stream) \in Executed
                 PROVE  \A i \in DOMAIN stream : i \in Executed
        BY DEF FinishAfterLastStore
    <2>1. Dev!FinishLast
        BY DevStreams, Dev!FinishedMeansAll DEF Dev!Inv
    <2>2. Len(stream) \notin Dev!Pending
        BY SameSteps DEF Executed
    <2>3. Dev!Pending = {}
        BY <2>1, <2>2 DEF Dev!FinishLast
    <2> QED
        BY <2>3, SameSteps DEF Executed
<1>2. (NeverCut => FinishAfterLastStore) => FinishAfterLastStore
    BY DEF FinishAfterLastStore
<1> QED
    BY <1>1, <1>2, DeviceAlways, PTL

\* The tokens of the device: between batches those the next one finds, and
\* during one those it found, with what has been pushed and popped since.
Tokens ==
    /\ Dev!TypeOK /\ Dev!Idle /\ Dev!InOrder /\ Dev!NoMissedWake
    /\ running <=> status = "device"
    /\ running => stream = iq.insns /\ \E b \in Base : b = Left /\ Dev!AccountedFrom(b)
    /\ ~running => tok = Left

LEMMA TokensCanRun ==
    ASSUME LeftInv, Tokens
    PROVE  Dev!SomeCoreCanRun
<1>1. CASE running
    <2>1. PICK b \in Base : b = Left /\ Dev!AccountedFrom(b)
        BY <1>1 DEF Tokens
    <2>2. Ordered(stream, b)
        BY <1>1, <2>1 DEF Tokens, LeftInv
    <2>3. Dev!OrderedFrom(stream, b)
        BY <2>2, SameOrder
    <2>4. b \in [Dev!Queue -> Nat]
        BY SameInsns DEF Base
    <2> QED
        BY <1>1, <2>1, <2>3, <2>4, DevStreams, Dev!OldestCanRun DEF Tokens
<1>2. CASE ~running
    BY <1>2 DEF Dev!SomeCoreCanRun
<1> QED
    BY <1>1, <1>2

LEMMA TokensInit == Init => LeftInv /\ Tokens
<1> SUFFICES ASSUME Init
             PROVE  LeftInv /\ Tokens
    OBVIOUS
<1>1. Dev!Init /\ HostInit
    BY SameSteps DEF Init
<1>2. Dev!TypeOK /\ Dev!Idle
    BY <1>1, DevStreams, Dev!TypeInit
<1>3. Dev!InOrder /\ Dev!NoMissedWake /\ ~running /\ status = "host"
    BY <1>1 DEF Dev!Init, Dev!InOrder, Dev!NoMissedWake, HostInit
<1>4. iq.insns = <<>> /\ \A k \in Queue : Pushed(iq)[k] = 0 /\ Popped(iq)[k] = 0
    BY <1>1, NothingYet DEF HostInit, Routed
<1>5. \A k \in Queue : owed[LinkOf[k]] = 0
    BY <1>1, Links DEF HostInit
<1>6. Left = Empty
    BY <1>4, <1>5 DEF Left, Empty
<1>7. LeftInv
    BY <1>4, <1>6, OrderedFromEmpty DEF LeftInv, Ordered, Poppers
<1>8. tok = Left
    BY <1>1, <1>6, SameInsns DEF Dev!Init, Empty
<1> QED
    BY <1>2, <1>3, <1>7, <1>8 DEF Tokens

LEMMA TokensNext ==
    ASSUME HInv, HInv', ~serial, LeftInv, Tokens, [Next]_allVars
    PROVE  LeftInv' /\ Tokens'
<1>1. Dev!TypeOK' /\ Dev!Idle' /\ Dev!InOrder' /\ Dev!NoMissedWake'
    <2>1. [Dev!Next]_Dev!vars
        BY DeviceSide DEF Dev!Next
    <2> QED
        BY <2>1, DevStreams, Dev!TypeStep, Dev!OrderStep, Dev!WakeStep DEF Tokens
<1>2. ASSUME Call
      PROVE  LeftInv' /\ Tokens'
    <2>1. Left' = Left /\ LeftInv'
        BY <1>2, CallLeft DEF Call
    <2>2. ~running
        BY <1>2 DEF Call, HostCall, LoadBuffer2D, StoreBuffer2D, PushOp, DepPush, DepPop, SetDebugMode,
                    Synchronize, Spend, Tokens
    <2>3. tok = Left
        BY <2>2 DEF Tokens
    <2>4. CASE status' = "device"
        <3>1. Dev!Run(iq'.insns)
            BY <1>2, <2>4, SameSteps DEF Call
        <3>2. iq'.insns \in Seq(Insn)
            BY DEF HInv, Batch, Sent, QueueT
        <3>3. PICK b \in Base : b = Left
            BY DEF LeftInv
        <3>4. b \in [Dev!Queue -> Nat]
            BY SameInsns DEF Base
        <3>5. Dev!AccountedFrom(b)'
            BY <2>3, <3>1, <3>2, <3>3, <3>4, DevStreams, Dev!CountRun DEF Tokens
        <3>6. running' /\ stream' = iq'.insns
            BY <3>1 DEF Dev!Run
        <3>7. \E z \in Base : z = Left' /\ Dev!AccountedFrom(z)'
            BY <2>1, <3>3, <3>5
        <3> QED
            BY <1>1, <2>1, <2>4, <3>6, <3>7 DEF Tokens
    <2>5. CASE status' # "device"
        <3>1. tok' = tok /\ ~running'
            BY <1>2, <2>2, <2>5 DEF Call, simVars
        <3> QED
            BY <1>1, <2>1, <2>3, <2>5, <3>1 DEF Tokens
    <2> QED
        BY <2>4, <2>5
<1>3. ASSUME DeviceStep
      PROVE  LeftInv' /\ Tokens'
    <2>1. status = "device" /\ running /\ Dev!Step /\ stream = iq.insns
        BY <1>3, SameSteps DEF DeviceStep, Tokens
    <2>2. PICK b \in Base : b = Left /\ Dev!AccountedFrom(b)
        BY <2>1 DEF Tokens
    <2>3. b \in [Dev!Queue -> Nat]
        BY SameInsns DEF Base
    <2>4. CASE running'
        <3>1. UNCHANGED hostVars
            BY <1>3, <2>4 DEF DeviceStep
        <3>2. Left' = Left /\ LeftInv' /\ status' = status /\ iq' = iq
            BY <3>1 DEF hostVars, Left, LeftInv
        <3>3. Dev!AccountedFrom(b)' /\ stream' = stream
            <4>1. CASE Dev!Execute
                BY <2>2, <2>3, <4>1, DevStreams, Dev!CountStep DEF Tokens, Dev!Execute
            <4>2. CASE Dev!Yield \/ Dev!Wake \/ Dev!Rescan
                <5>1. UNCHANGED <<stream, insnq, tok>>
                    BY <4>2 DEF Dev!Yield, Dev!Wake, Dev!Rescan
                <5> QED
                    BY <2>2, <5>1 DEF Dev!AccountedFrom, Dev!Pending
            <4>3. ~Dev!Return
                BY <2>4 DEF Dev!Return
            <4> QED
                BY <2>1, <4>1, <4>2, <4>3 DEF Dev!Step
        <3>4. \E z \in Base : z = Left' /\ Dev!AccountedFrom(z)'
            BY <2>2, <3>2, <3>3
        <3> QED
            BY <1>1, <2>1, <2>4, <3>2, <3>3, <3>4 DEF Tokens
    <2>5. CASE ~running'
        <3>1. DeviceReturns
            BY <1>3, <2>5 DEF DeviceStep
        <3>2. LeftInv' /\ status' = "host"
            BY <3>1, ReturnLeft DEF DeviceReturns
        <3>3. Dev!Return
            BY <2>1, <2>5 DEF Dev!Step, Dev!Execute, Dev!Yield, Dev!Wake, Dev!Rescan
        <3>4. agenda = <<>> /\ event = <<>> /\ tok' = tok
            BY <3>3 DEF Dev!Return
        <3>5. Dev!Pending = {}
            <4>1. Dev!Items(<<>>) = {}
                BY DEF Dev!Items
            <4>2. \A c \in Dev!Core : ~Dev!CanRun(c)
                BY <2>1, <3>4, <4>1 DEF Tokens, Dev!NoMissedWake
            <4> QED
                BY <2>1, <4>2, TokensCanRun DEF Dev!SomeCoreCanRun
        <3>6. ASSUME NEW k \in Queue
              PROVE  tok[k] = Left'[k]
            <4>1. tok[k] + Cardinality(Poppers(stream, k)) = b[k] + Cardinality(Pushers(stream, k))
                BY <2>2, <3>5, SameOrder
            <4>2. /\ Left'[k] = owed[LinkOf[k]] /\ owed[LinkOf[k]] \in Nat
                  /\ b[k] = owed[LinkOf[k]] + Cardinality(Poppers(stream, k)) - Cardinality(Pushers(stream, k))
                BY <2>1, <2>2, <3>1, ReturnLeft
            <4>3. tok[k] \in Nat
                BY SameInsns DEF Tokens, Dev!TypeOK
            <4>4. stream \in Seq(Insn)
                BY <2>1 DEF HInv, Batch, Sent, QueueT
            <4>5. Cardinality(Poppers(stream, k)) \in Nat /\ Cardinality(Pushers(stream, k)) \in Nat
                BY <4>4, Positions
            <4> QED
                BY <4>1, <4>2, <4>3, <4>5
        <3>7. tok' = Left'
            <4>1. tok \in [Queue -> Nat]
                BY SameInsns DEF Tokens, Dev!TypeOK
            <4>2. Left' \in [Queue -> Nat]
                BY <3>2 DEF LeftInv, Base
            <4> QED
                BY <3>4, <3>6, <4>1, <4>2
        <3> QED
            BY <1>1, <2>5, <3>2, <3>7 DEF Tokens
    <2> QED
        BY <2>4, <2>5
<1>4. ASSUME UNCHANGED allVars
      PROVE  LeftInv' /\ Tokens'
    <2>1. UNCHANGED <<iq, owed, status, stream, insnq, tok, running>>
        BY <1>4 DEF allVars, hostVars, simVars
    <2>2. Left' = Left /\ LeftInv'
        BY <2>1 DEF Left, LeftInv
    <2>3. CASE running
        <3>1. PICK b \in Base : b = Left /\ Dev!AccountedFrom(b)
            BY <2>3 DEF Tokens
        <3>2. Dev!AccountedFrom(b)'
            BY <2>1, <3>1 DEF Dev!AccountedFrom, Dev!Pending
        <3>3. \E z \in Base : z = Left' /\ Dev!AccountedFrom(z)'
            BY <2>2, <3>1, <3>2
        <3> QED
            BY <1>1, <2>1, <2>2, <2>3, <3>3 DEF Tokens
    <2>4. CASE ~running
        BY <1>1, <2>1, <2>2, <2>4 DEF Tokens
    <2> QED
        BY <2>3, <2>4
<1> QED
    BY <1>2, <1>3, <1>4 DEF Next

\* AutoSync may cut a kernel anywhere, whether its tokens balance or not: what
\* a batch leaves in the token queues is what the next one still pops, so the
\* three cores never wait for each other.
THEOREM CutBatchesProgress == TRUE \notin SerialModes => (Spec => []CutStreamsProgress)
<1> SUFFICES ASSUME TRUE \notin SerialModes
             PROVE  Spec => []CutStreamsProgress
    OBVIOUS
<1>1. HostSpec => []~serial
    BY NeverSerial
<1>2. HostSpec => []HInv
    BY HAlways
<1>3. HInv /\ HInv' /\ ~serial /\ LeftInv /\ Tokens /\ [Next]_allVars => (LeftInv /\ Tokens)'
    BY TokensNext
<1>4. LeftInv /\ Tokens => CutStreamsProgress
    BY TokensCanRun, SameProperties DEF Tokens, CutStreamsProgress
<1> QED
    BY <1>1, <1>2, <1>3, <1>4, TokensInit, HostSide, PTL DEF Spec

--------------------------------------------------------------------------------
(* The calls of a batch and the instructions that carry them out: every call   *)
(* has its place in an instruction of its stage or, a pop, may wait for one.   *)

KernelCall == {Work(s) : s \in Stage} \cup {Push(From[k], To[k]) : k \in Queue} \cup {Pop(From[k], To[k]) : k \in Queue}

\* What carries out a call; what of it is at an instruction, or pending (0).
Thing(c) == IF c.kind = "work" THEN "work"
            ELSE IF c.kind = "pop" THEN IF c.link[1] < c.link[2] THEN "popPrev" ELSE "popNext"
            ELSE IF c.link[1] < c.link[2] THEN "pushNext" ELSE "pushPrev"
PendingOf(q, s) == {f \in {"popPrev"} : q.popPrev[s]} \cup {f \in {"popNext"} : q.popNext[s]}
Stand(q, s, i) == IF i = 0 THEN PendingOf(q, s)
                  ELSE IF On(q.insns[i], s) THEN StandsFor(q.insns[i]) ELSE {}

\* h gives every call its place, each place to one call; no call of a stage is
\* carried out before an earlier one.
Home(q, cs, h) ==
    /\ h \in [1..Len(cs) -> 0..Len(q.insns)]
    /\ \A k \in 1..Len(cs) : Thing(cs[k]) \in Stand(q, cs[k].stage, h[k])
    /\ \A j, k \in 1..Len(cs) : cs[j].stage = cs[k].stage /\ h[j] = h[k] /\ Thing(cs[j]) = Thing(cs[k]) => j = k
    /\ \A s \in Stage : \A i \in 0..Len(q.insns) : \A x \in Stand(q, s, i) :
          \E k \in 1..Len(cs) : cs[k].stage = s /\ h[k] = i /\ Thing(cs[k]) = x
    /\ \A j, k \in 1..Len(cs) : j < k /\ cs[j].stage = cs[k].stage /\ h[k] # 0 => h[j] # 0 /\ h[j] <= h[k]
Housed(q, cs) == cs \in Seq(KernelCall) /\ \E h : Home(q, cs, h)

\* An instruction more, which takes over the pending pops of its stage.
LEMMA Gathered ==
    ASSUME NEW q, NEW r, NEW cs, Housed(q, cs), NEW n \in Nat, Len(q.insns) = n, Len(r.insns) = n + 1,
           NEW st \in Stage, Stand(r, st, n + 1) = Stand(q, st, 0), Stand(r, st, 0) = {},
           \A s \in Stage : \A i \in 0..n : s # st \/ i # 0 => Stand(r, s, i) = Stand(q, s, i),
           \A s \in Stage : s # st => Stand(r, s, n + 1) = {}
    PROVE  Housed(r, cs)
<1>1. PICK h : Home(q, cs, h)
    BY DEF Housed
<1>2. cs \in Seq(KernelCall) /\ Len(cs) \in Nat /\ \A k \in 1..Len(cs) : cs[k] \in KernelCall
    BY ElementOfSeq, LenProperties DEF Housed
<1>3. \A c \in KernelCall : c.stage \in Stage
    BY Links DEF KernelCall, Work, Push, Pop
<1>4. PICK g : g = [k \in 1..Len(cs) |-> IF cs[k].stage = st /\ h[k] = 0 THEN n + 1 ELSE h[k]]
    OBVIOUS
<1>5. /\ h \in [1..Len(cs) -> 0..n]
      /\ \A k \in 1..Len(cs) : Thing(cs[k]) \in Stand(q, cs[k].stage, h[k])
      /\ \A j, k \in 1..Len(cs) : cs[j].stage = cs[k].stage /\ h[j] = h[k] /\ Thing(cs[j]) = Thing(cs[k]) => j = k
      /\ \A s \in Stage : \A i \in 0..n : \A x \in Stand(q, s, i) :
            \E k \in 1..Len(cs) : cs[k].stage = s /\ h[k] = i /\ Thing(cs[k]) = x
      /\ \A j, k \in 1..Len(cs) : j < k /\ cs[j].stage = cs[k].stage /\ h[k] # 0 => h[j] # 0 /\ h[j] <= h[k]
    BY <1>1 DEF Home
<1>6. \A k \in 1..Len(cs) : /\ h[k] \in 0..n /\ cs[k].stage \in Stage
                           /\ g[k] = IF cs[k].stage = st /\ h[k] = 0 THEN n + 1 ELSE h[k]
    BY <1>2, <1>3, <1>4, <1>5
<1>7. g \in [1..Len(cs) -> 0..n + 1]
    BY <1>4, <1>6
<1>8. \A k \in 1..Len(cs) : Thing(cs[k]) \in Stand(r, cs[k].stage, g[k])
    BY <1>5, <1>6
<1>9. \A j, k \in 1..Len(cs) : cs[j].stage = cs[k].stage /\ g[j] = g[k] /\ Thing(cs[j]) = Thing(cs[k]) => j = k
    BY <1>5, <1>6
<1>10. ASSUME NEW s \in Stage, NEW i \in 0..n + 1, NEW x \in Stand(r, s, i)
       PROVE  \E k \in 1..Len(cs) : cs[k].stage = s /\ g[k] = i /\ Thing(cs[k]) = x
    <2>1. CASE i = n + 1
        <3>1. s = st /\ x \in Stand(q, s, 0)
            BY <1>10, <2>1
        <3>2. PICK k \in 1..Len(cs) : cs[k].stage = s /\ h[k] = 0 /\ Thing(cs[k]) = x
            BY <1>5, <3>1
        <3> QED
            BY <1>6, <2>1, <3>1, <3>2
    <2>2. CASE i # n + 1
        <3>1. i \in 0..n /\ (s # st \/ i # 0) /\ x \in Stand(q, s, i)
            BY <1>10, <2>2
        <3>2. PICK k \in 1..Len(cs) : cs[k].stage = s /\ h[k] = i /\ Thing(cs[k]) = x
            BY <1>5, <3>1
        <3> QED
            BY <1>6, <3>1, <3>2
    <2> QED
        BY <2>1, <2>2
<1>11. ASSUME NEW j \in 1..Len(cs), NEW k \in 1..Len(cs), j < k, cs[j].stage = cs[k].stage, g[k] # 0
       PROVE  g[j] # 0 /\ g[j] <= g[k]
    <2>1. CASE h[k] # 0
        BY <1>5, <1>6, <1>11, <2>1
    <2>2. CASE h[k] = 0
        BY <1>6, <1>11, <2>2
    <2> QED
        BY <2>1, <2>2
<1>12. Home(r, cs, g)
    BY <1>7, <1>8, <1>9, <1>10, <1>11 DEF Home
<1> QED
    BY <1>2, <1>12 DEF Housed

\* A call more, carried out at p: by the last instruction if no pop of its stage waits.
Adds(q, r, c, p) ==
    /\ Len(q.insns) \in Nat /\ Len(r.insns) = Len(q.insns) /\ p \in 0..Len(q.insns)
    /\ Thing(c) \notin Stand(q, c.stage, p) /\ Stand(r, c.stage, p) = Stand(q, c.stage, p) \cup {Thing(c)}
    /\ \A s \in Stage : \A i \in 0..Len(q.insns) : s # c.stage \/ i # p => Stand(r, s, i) = Stand(q, s, i)
    /\ p = 0 \/ (p = Len(q.insns) /\ Stand(q, c.stage, 0) = {})

LEMMA Joined ==
    ASSUME NEW q, NEW r, NEW cs, Housed(q, cs), NEW c \in KernelCall, NEW ds, Extends(ds, cs, c),
           NEW p, Adds(q, r, c, p)
    PROVE  Housed(r, ds)
<1>0. PICK n : n = Len(q.insns)
    OBVIOUS
<1>n. /\ n \in Nat /\ Len(q.insns) = n /\ Len(r.insns) = n /\ p \in 0..n
      /\ Thing(c) \notin Stand(q, c.stage, p) /\ Stand(r, c.stage, p) = Stand(q, c.stage, p) \cup {Thing(c)}
      /\ \A s \in Stage : \A i \in 0..n : s # c.stage \/ i # p => Stand(r, s, i) = Stand(q, s, i)
      /\ p = 0 \/ (p = n /\ Stand(q, c.stage, 0) = {})
    BY <1>0 DEF Adds
<1>1. PICK h : Home(q, cs, h)
    BY DEF Housed
<1>2. cs \in Seq(KernelCall) /\ Len(cs) \in Nat /\ \A k \in 1..Len(cs) : cs[k] \in KernelCall
    BY ElementOfSeq, LenProperties DEF Housed
<1>3. \A d \in KernelCall : d.stage \in Stage
    BY Links DEF KernelCall, Work, Push, Pop
<1>4. PICK m \in Nat : m = Len(cs) + 1
    BY <1>2
<1>5. /\ ds \in Seq(KernelCall) /\ Len(ds) = m /\ ds[m] = c /\ \A k \in 1..Len(cs) : ds[k] = cs[k]
    BY <1>2, <1>4, AppendProperties DEF Extends
<1>6. PICK g : g = [k \in 1..m |-> IF k = m THEN p ELSE h[k]]
    OBVIOUS
<1>7. /\ h \in [1..Len(cs) -> 0..n]
      /\ \A k \in 1..Len(cs) : Thing(cs[k]) \in Stand(q, cs[k].stage, h[k])
      /\ \A j, k \in 1..Len(cs) : cs[j].stage = cs[k].stage /\ h[j] = h[k] /\ Thing(cs[j]) = Thing(cs[k]) => j = k
      /\ \A s \in Stage : \A i \in 0..n : \A x \in Stand(q, s, i) :
            \E k \in 1..Len(cs) : cs[k].stage = s /\ h[k] = i /\ Thing(cs[k]) = x
      /\ \A j, k \in 1..Len(cs) : j < k /\ cs[j].stage = cs[k].stage /\ h[k] # 0 => h[j] # 0 /\ h[j] <= h[k]
    BY <1>1, <1>n DEF Home
<1>8. \A k \in 1..m : \/ k = m /\ ds[k] = c /\ g[k] = p
                      \/ k \in 1..Len(cs) /\ k < m /\ ds[k] = cs[k] /\ g[k] = h[k] /\ h[k] \in 0..n /\ cs[k].stage \in Stage
    BY <1>2, <1>3, <1>4, <1>5, <1>6, <1>7
<1>9. \A k \in 1..Len(cs) : k \in 1..m
    BY <1>2, <1>4
<1>10. c.stage \in Stage /\ m \in 1..m /\ ds[m] = c /\ g[m] = p
    BY <1>2, <1>3, <1>4, <1>5, <1>6
<1>11. g \in [1..m -> 0..n]
    BY <1>n, <1>6, <1>8
<1>12. \A k \in 1..m : Thing(ds[k]) \in Stand(r, ds[k].stage, g[k])
    <2> TAKE k \in 1..m
    <2>1. CASE k = m
        BY <1>n, <1>8, <2>1
    <2>2. CASE k # m
        <3>1. k \in 1..Len(cs) /\ ds[k] = cs[k] /\ g[k] = h[k] /\ h[k] \in 0..n /\ cs[k].stage \in Stage
            BY <1>8, <2>2
        <3>2. Thing(cs[k]) \in Stand(q, cs[k].stage, h[k])
            BY <1>7, <3>1
        <3> QED
            BY <1>n, <3>1, <3>2
    <2> QED
        BY <2>1, <2>2
<1>13. ASSUME NEW j \in 1..m, NEW k \in 1..m, ds[j].stage = ds[k].stage, g[j] = g[k], Thing(ds[j]) = Thing(ds[k])
       PROVE  j = k
    <2>1. \A i \in 1..Len(cs) : ~(cs[i].stage = c.stage /\ h[i] = p /\ Thing(cs[i]) = Thing(c))
        BY <1>n, <1>7
    <2>2. CASE j # m /\ k # m
        BY <1>7, <1>8, <1>13, <2>2
    <2>3. CASE j = m \/ k = m
        BY <1>8, <1>13, <2>1, <2>3
    <2> QED
        BY <2>2, <2>3
<1>14. ASSUME NEW s \in Stage, NEW i \in 0..n, NEW x \in Stand(r, s, i)
       PROVE  \E k \in 1..m : ds[k].stage = s /\ g[k] = i /\ Thing(ds[k]) = x
    <2>1. CASE s = c.stage /\ i = p /\ x = Thing(c)
        BY <1>10, <2>1
    <2>2. CASE ~(s = c.stage /\ i = p /\ x = Thing(c))
        <3>1. x \in Stand(q, s, i)
            BY <1>n, <1>14, <2>2
        <3>2. PICK k \in 1..Len(cs) : cs[k].stage = s /\ h[k] = i /\ Thing(cs[k]) = x
            BY <1>7, <3>1
        <3>3. k \in 1..m /\ k # m
            BY <1>2, <1>4
        <3> QED
            BY <1>8, <3>2, <3>3
    <2> QED
        BY <2>1, <2>2
<1>15. ASSUME NEW j \in 1..m, NEW k \in 1..m, j < k, ds[j].stage = ds[k].stage, g[k] # 0
       PROVE  g[j] # 0 /\ g[j] <= g[k]
    <2>1. j \in 1..Len(cs) /\ ds[j] = cs[j] /\ g[j] = h[j] /\ h[j] \in 0..n
        BY <1>4, <1>8, <1>15
    <2>2. CASE k = m
        <3>1. p = n /\ Stand(q, c.stage, 0) = {} /\ cs[j].stage = c.stage
            BY <1>n, <1>8, <1>15, <2>1, <2>2
        <3>2. h[j] # 0
            BY <1>7, <2>1, <3>1
        <3> QED
            BY <1>8, <2>1, <2>2, <3>1, <3>2
    <2>3. CASE k # m
        BY <1>7, <1>8, <1>15, <2>1, <2>3
    <2> QED
        BY <2>2, <2>3
<1>16. Home(r, ds, g)
    <2>1. Len(r.insns) = n /\ Len(ds) = m
        BY <1>n, <1>5
    <2>2. \A s \in Stage : \A i \in 0..n : \A x \in Stand(r, s, i) :
             \E k \in 1..m : ds[k].stage = s /\ g[k] = i /\ Thing(ds[k]) = x
        BY <1>14
    <2>3. /\ \A j, k \in 1..m : ds[j].stage = ds[k].stage /\ g[j] = g[k] /\ Thing(ds[j]) = Thing(ds[k]) => j = k
          /\ \A j, k \in 1..m : j < k /\ ds[j].stage = ds[k].stage /\ g[k] # 0 => g[j] # 0 /\ g[j] <= g[k]
        BY <1>13, <1>15
    <2> QED
        BY <1>11, <1>12, <2>1, <2>2, <2>3 DEF Home
<1> QED
    BY <1>5, <1>16 DEF Housed

\* The flags of an instruction, and its work.
LEMMA Things ==
    /\ \A insn, x : x \in StandsFor(insn) <=>
          \/ (x = "popPrev" /\ insn.popPrev) \/ (x = "popNext" /\ insn.popNext)
          \/ (x = "pushPrev" /\ insn.pushPrev) \/ (x = "pushNext" /\ insn.pushNext)
          \/ x = "work" /\ IsWork(insn)
    /\ \A q, s, x : x \in PendingOf(q, s) <=> (x = "popPrev" /\ q.popPrev[s]) \/ (x = "popNext" /\ q.popNext[s])
<1>1. ASSUME NEW insn, NEW x
      PROVE  x \in StandsFor(insn) <=>
                \/ (x = "popPrev" /\ insn.popPrev) \/ (x = "popNext" /\ insn.popNext)
                \/ (x = "pushPrev" /\ insn.pushPrev) \/ (x = "pushNext" /\ insn.pushNext)
                \/ x = "work" /\ IsWork(insn)
    <2>1. x \in StandsFor(insn) <=> (x \in Flag /\ insn[x]) \/ (x = "work" /\ IsWork(insn))
        BY DEF StandsFor
    <2>2. x \in Flag <=> x = "popPrev" \/ x = "popNext" \/ x = "pushPrev" \/ x = "pushNext"
        BY DEF Flag
    <2> QED
        BY <2>1, <2>2
<1>2. ASSUME NEW q, NEW s, NEW x
      PROVE  x \in PendingOf(q, s) <=> (x = "popPrev" /\ q.popPrev[s]) \/ (x = "popNext" /\ q.popNext[s])
    BY DEF PendingOf
<1> QED
    BY <1>1, <1>2

LEMMA CallThings ==
    /\ \A s \in Stage : /\ Work(s) \in KernelCall /\ Work(s).stage = s /\ Work(s).kind = "work"
                        /\ Thing(Work(s)) = "work"
    /\ \A k \in Queue : /\ Push(From[k], To[k]) \in KernelCall /\ Push(From[k], To[k]).stage = From[k]
                        /\ Push(From[k], To[k]).kind = "push" /\ Push(From[k], To[k]).link = LinkOf[k]
                        /\ Thing(Push(From[k], To[k])) = IF Forward(k) THEN "pushNext" ELSE "pushPrev"
                        /\ Pop(From[k], To[k]) \in KernelCall /\ Pop(From[k], To[k]).stage = To[k]
                        /\ Pop(From[k], To[k]).kind = "pop" /\ Pop(From[k], To[k]).link = LinkOf[k]
                        /\ Thing(Pop(From[k], To[k])) = IF Forward(k) THEN "popPrev" ELSE "popNext"
<1>1. ASSUME NEW s \in Stage
      PROVE  /\ Work(s) \in KernelCall /\ Work(s).stage = s /\ Work(s).kind = "work"
             /\ Thing(Work(s)) = "work"
    BY DEF KernelCall, Work, Thing
<1>2. ASSUME NEW k \in Queue
      PROVE  /\ Push(From[k], To[k]) \in KernelCall /\ Push(From[k], To[k]).stage = From[k]
             /\ Push(From[k], To[k]).kind = "push" /\ Push(From[k], To[k]).link = LinkOf[k]
             /\ Thing(Push(From[k], To[k])) = IF Forward(k) THEN "pushNext" ELSE "pushPrev"
    <2>1. Push(From[k], To[k]) \in KernelCall
        BY DEF KernelCall
    <2>2. PICK c : c = Push(From[k], To[k])
        OBVIOUS
    <2>3. c.stage = From[k] /\ c.kind = "push" /\ c.link = <<From[k], To[k]>> /\ c.link = LinkOf[k]
        BY <2>2, Links DEF Push
    <2>4. c.link[1] = From[k] /\ c.link[2] = To[k]
        BY <2>3
    <2>5. Thing(c) = IF Forward(k) THEN "pushNext" ELSE "pushPrev"
        BY <2>3, <2>4 DEF Thing, Forward
    <2> QED
        BY <2>1, <2>2, <2>3, <2>5
<1>3. ASSUME NEW k \in Queue
      PROVE  /\ Pop(From[k], To[k]) \in KernelCall /\ Pop(From[k], To[k]).stage = To[k]
             /\ Pop(From[k], To[k]).kind = "pop" /\ Pop(From[k], To[k]).link = LinkOf[k]
             /\ Thing(Pop(From[k], To[k])) = IF Forward(k) THEN "popPrev" ELSE "popNext"
    <2>1. Pop(From[k], To[k]) \in KernelCall
        BY DEF KernelCall
    <2>2. PICK c : c = Pop(From[k], To[k])
        OBVIOUS
    <2>3. c.stage = To[k] /\ c.kind = "pop" /\ c.link = <<From[k], To[k]>> /\ c.link = LinkOf[k]
        BY <2>2, Links DEF Pop
    <2>4. c.link[1] = From[k] /\ c.link[2] = To[k]
        BY <2>3
    <2>5. Thing(c) = IF Forward(k) THEN "popPrev" ELSE "popNext"
        BY <2>3, <2>4 DEF Thing, Forward
    <2> QED
        BY <2>1, <2>2, <2>3, <2>5
<1> QED
    BY <1>1, <1>2, <1>3

LEMMA OneStage ==
    ASSUME NEW x, NEW s \in Stage, NEW u \in Stage, On(x, s), On(x, u)
    PROVE  s = u
BY DEF On, CoreOf, Stage, LoadStage, StoreStage

LEMMA StandAfter ==
    ASSUME NEW q, Routed(q), NEW x \in Insn, NEW st \in Stage, On(x, st), NEW r, r = After(q, x, st),
           NEW n, n = Len(q.insns)
    PROVE  /\ n \in Nat /\ Len(r.insns) = n + 1
           /\ Stand(r, st, n + 1) = StandsFor(x) /\ Stand(r, st, 0) = {}
           /\ \A s \in Stage : s # st => Stand(r, s, n + 1) = {} /\ Stand(r, s, 0) = Stand(q, s, 0)
           /\ \A s \in Stage : \A i \in 1..n : Stand(r, s, i) = Stand(q, s, i)
<1>1. /\ q.insns \in Seq(Insn) /\ q.popPrev \in [Stage -> BOOLEAN] /\ q.popNext \in [Stage -> BOOLEAN]
    BY DEF Routed, QueueT
<1>2. /\ r.insns = Append(q.insns, x) /\ r.popPrev = [q.popPrev EXCEPT ![st] = FALSE]
      /\ r.popNext = [q.popNext EXCEPT ![st] = FALSE]
    BY DEF After
<1>3. /\ n \in Nat /\ Len(r.insns) = n + 1 /\ r.insns[n + 1] = x /\ \A i \in 1..n : r.insns[i] = q.insns[i]
    BY <1>1, <1>2, AppendProperties, LenProperties
<1>4. Stand(r, st, n + 1) = StandsFor(x)
    BY <1>3 DEF Stand
<1>5. \A s \in Stage : s # st => Stand(r, s, n + 1) = {}
    BY <1>3, OneStage DEF Stand
<1>6. /\ ~r.popPrev[st] /\ ~r.popNext[st]
      /\ \A s \in Stage : s # st => r.popPrev[s] = q.popPrev[s] /\ r.popNext[s] = q.popNext[s]
    BY <1>1, <1>2
<1>7. \A s : Stand(r, s, 0) = PendingOf(r, s) /\ Stand(q, s, 0) = PendingOf(q, s)
    BY DEF Stand
<1>8. PendingOf(r, st) = {}
    BY <1>6, Things
<1>9. ASSUME NEW s \in Stage, s # st
      PROVE  PendingOf(r, s) = PendingOf(q, s)
    <2>1. \A x1 : x1 \in PendingOf(r, s) <=> x1 \in PendingOf(q, s)
        BY <1>6, <1>9, Things
    <2> QED
        BY <2>1
<1>10. \A s \in Stage : \A i \in 1..n : Stand(r, s, i) = Stand(q, s, i)
    BY <1>3 DEF Stand
<1> QED
    BY <1>3, <1>4, <1>5, <1>7, <1>8, <1>9, <1>10

\* An instruction that carries the pending pops of its stage and nothing else,
\* and one that carries a call besides.
LEMMA Carried ==
    ASSUME NEW q, Routed(q), NEW cs, Housed(q, cs), NEW x \in Insn, NEW st \in Stage, On(x, st),
           StandsFor(x) = PendingOf(q, st)
    PROVE  Housed(After(q, x, st), cs)
<1>1. PICK r : r = After(q, x, st)
    OBVIOUS
<1>2. PICK n : n = Len(q.insns)
    OBVIOUS
<1>3. /\ n \in Nat /\ Len(r.insns) = n + 1
      /\ Stand(r, st, n + 1) = StandsFor(x) /\ Stand(r, st, 0) = {}
      /\ \A s \in Stage : s # st => Stand(r, s, n + 1) = {} /\ Stand(r, s, 0) = Stand(q, s, 0)
      /\ \A s \in Stage : \A i \in 1..n : Stand(r, s, i) = Stand(q, s, i)
    BY <1>1, <1>2, StandAfter
<1>4. Stand(r, st, n + 1) = Stand(q, st, 0)
    BY <1>3 DEF Stand
<1>5. \A s \in Stage : \A i \in 0..n : s # st \/ i # 0 => Stand(r, s, i) = Stand(q, s, i)
    <2> TAKE s \in Stage
    <2> TAKE i \in 0..n
    <2>1. i = 0 \/ i \in 1..n
        BY <1>3
    <2> QED
        BY <1>3, <2>1
<1> QED
    BY <1>1, <1>2, <1>3, <1>4, <1>5, Gathered

LEMMA CarriedWith ==
    ASSUME NEW q, Routed(q), NEW cs, Housed(q, cs), NEW x \in Insn, NEW st \in Stage, On(x, st),
           x.popPrev = q.popPrev[st], x.popNext = q.popNext[st],
           NEW c \in KernelCall, c.stage = st, NEW ds, Extends(ds, cs, c),
           Thing(c) \in {"work", "pushPrev", "pushNext"},
           StandsFor(x) = PendingOf(q, st) \cup {Thing(c)}
    PROVE  Housed(After(q, x, st), ds)
<1>1. PICK y : y = [x EXCEPT !.noop = TRUE, !.pushPrev = FALSE, !.pushNext = FALSE]
    OBVIOUS
<1>2. /\ y \in Insn /\ y.op = x.op /\ y.mem = x.mem /\ y.popPrev = x.popPrev /\ y.popNext = x.popNext
      /\ y.noop = TRUE /\ ~y.pushPrev /\ ~y.pushNext
    BY <1>1 DEF Insn
<1>3. On(y, st) /\ ~IsWork(y)
    BY <1>2 DEF On, GetCoreType, IsWork
<1>4. StandsFor(y) = PendingOf(q, st)
    BY <1>2, <1>3, Things
<1>5. PICK u : u = After(q, y, st)
    OBVIOUS
<1>6. PICK r : r = After(q, x, st)
    OBVIOUS
<1>7. PICK n : n = Len(q.insns)
    OBVIOUS
<1>8. /\ n \in Nat /\ Len(r.insns) = n + 1
      /\ Stand(r, st, n + 1) = StandsFor(x) /\ Stand(r, st, 0) = {}
      /\ \A s \in Stage : s # st => Stand(r, s, n + 1) = {} /\ Stand(r, s, 0) = Stand(q, s, 0)
      /\ \A s \in Stage : \A i \in 1..n : Stand(r, s, i) = Stand(q, s, i)
    BY <1>6, <1>7, StandAfter
<1>9. /\ Len(u.insns) = n + 1
      /\ Stand(u, st, n + 1) = StandsFor(y) /\ Stand(u, st, 0) = {}
      /\ \A s \in Stage : s # st => Stand(u, s, n + 1) = {} /\ Stand(u, s, 0) = Stand(q, s, 0)
      /\ \A s \in Stage : \A i \in 1..n : Stand(u, s, i) = Stand(q, s, i)
    BY <1>2, <1>3, <1>5, <1>7, StandAfter
<1>10. Housed(u, cs)
    BY <1>2, <1>3, <1>4, <1>5, Carried
<1>11. PICK p \in Nat : p = n + 1
    BY <1>8
<1>12. \A s \in Stage : \A i \in 0..p : s # st \/ i # p => Stand(r, s, i) = Stand(u, s, i)
    <2> TAKE s \in Stage
    <2> TAKE i \in 0..p
    <2>1. i = 0 \/ i \in 1..n \/ i = p
        BY <1>8, <1>11
    <2>2. CASE i = 0
        BY <1>8, <1>9, <2>2
    <2>3. CASE i \in 1..n
        BY <1>8, <1>9, <2>3
    <2>4. CASE i = p /\ s # st
        BY <1>8, <1>9, <1>11, <2>4
    <2> QED
        BY <2>1, <2>2, <2>3, <2>4
<1>13. Thing(c) \notin StandsFor(y)
    BY <1>4, Things
<1>14. /\ Thing(c) \notin Stand(u, st, p) /\ Stand(r, st, p) = Stand(u, st, p) \cup {Thing(c)}
       /\ Stand(u, st, 0) = {} /\ p \in 0..p /\ Len(u.insns) = p /\ Len(r.insns) = p
    BY <1>4, <1>8, <1>9, <1>11, <1>13
<1>15. Adds(u, r, c, p)
    BY <1>11, <1>12, <1>14 DEF Adds
<1>16. Housed(r, ds)
    BY <1>10, <1>15, Joined
<1> QED
    BY <1>6, <1>16

LEMMA CommitHoused ==
    ASSUME NEW q, Routed(q), NEW cs, Housed(q, cs), NEW st \in Stage
    PROVE  Housed(CommitPendingPop(q, st), cs)
<1>1. /\ q \in QueueT /\ q.popPrev[st] \in BOOLEAN /\ q.popNext[st] \in BOOLEAN
      /\ (st = 1 => ~q.popPrev[st]) /\ (st = 3 => ~q.popNext[st])
    BY DEF Routed, QueueT
<1>2. CASE NoPops(q, st)
    BY <1>2 DEF CommitPendingPop, NoPops
<1>3. CASE ~NoPops(q, st)
    <2>1. PICK x : x = [op |-> IF st = StoreStage THEN "STORE" ELSE "LOAD",
                        mem |-> IF st = LoadStage THEN "INP" ELSE "UOP", noop |-> TRUE,
                        popPrev |-> q.popPrev[st], popNext |-> q.popNext[st],
                        pushPrev |-> FALSE, pushNext |-> FALSE]
        OBVIOUS
    <2>2. CommitPendingPop(q, st) = After(q, x, st)
        <3>1. CommitPendingPop(q, st) = ClearPending([q EXCEPT !.insns = Append(@, x)], st)
            BY <1>1, <1>3, <2>1 DEF CommitPendingPop, NoPops, PushNoop
        <3> QED
            BY <1>1, <3>1 DEF ClearPending, After, QueueT
    <2>3. /\ x \in Insn /\ x.op = Noop(st).op /\ x.mem = Noop(st).mem /\ x.noop = TRUE
          /\ x.popPrev = q.popPrev[st] /\ x.popNext = q.popNext[st] /\ ~x.pushPrev /\ ~x.pushNext
        BY <1>1, <2>1 DEF Insn, Noop, Opcode, MemType
    <2>4. On(x, st)
        BY <1>1, <2>3, NoopFits
    <2>5. \A y : y \in StandsFor(x) <=> y \in PendingOf(q, st)
        BY <2>3, Things DEF IsWork
    <2>6. StandsFor(x) = PendingOf(q, st)
        BY <2>5
    <2> QED
        BY <2>2, <2>3, <2>4, <2>6, Carried
<1> QED
    BY <1>2, <1>3

\* A new instruction is the work of its stage, unless it loads micro-ops.
LEMMA CreateHoused ==
    ASSUME NEW q, Routed(q), NEW cs, Housed(q, cs), NEW op \in Opcode, NEW mem \in MemType,
           NEW st \in Stage, On(PlainInsn(op, mem), st), NEW ds, Extends(ds, cs, Work(st))
    PROVE  Housed(Create(q, st, op, mem), IF op = "LOAD" /\ mem = "UOP" THEN cs ELSE ds)
<1>1. q \in QueueT /\ q.popPrev[st] \in BOOLEAN /\ q.popNext[st] \in BOOLEAN
    BY DEF Routed, QueueT
<1>2. PICK x : x = [PlainInsn(op, mem) EXCEPT !.popPrev = q.popPrev[st], !.popNext = q.popNext[st]]
    OBVIOUS
<1>3. /\ x \in Insn /\ x.op = op /\ x.mem = mem /\ x.noop = FALSE
      /\ x.popPrev = q.popPrev[st] /\ x.popNext = q.popNext[st] /\ ~x.pushPrev /\ ~x.pushNext
    BY <1>1, <1>2 DEF PlainInsn, Insn
<1>4. On(x, st)
    BY <1>3 DEF On, GetCoreType, PlainInsn
<1>5. Create(q, st, op, mem) = After(q, x, st)
    <2>1. Create(q, st, op, mem) = ClearPending([q EXCEPT !.insns = Append(@, x)], st)
        BY <1>2 DEF Create
    <2> QED
        BY <1>1, <2>1 DEF ClearPending, After, QueueT
<1>6. CASE op = "LOAD" /\ mem = "UOP"
    <2>1. \A y : y \in StandsFor(x) <=> y \in PendingOf(q, st)
        BY <1>3, <1>6, Things DEF IsWork
    <2>2. StandsFor(x) = PendingOf(q, st)
        BY <2>1
    <2> QED
        BY <1>3, <1>4, <1>5, <1>6, <2>2, Carried
<1>7. CASE ~(op = "LOAD" /\ mem = "UOP")
    <2>1. \A y : y \in StandsFor(x) <=> y \in PendingOf(q, st) \/ y = "work"
        BY <1>3, <1>7, Things DEF IsWork
    <2>2. StandsFor(x) = PendingOf(q, st) \cup {"work"}
        BY <2>1
    <2>3. Housed(After(q, x, st), ds)
        BY <1>3, <1>4, <2>2, CallThings, CarriedWith
    <2> QED
        BY <1>5, <1>7, <2>3
<1> QED
    BY <1>6, <1>7

LEMMA PushNoopHoused ==
    ASSUME NEW c, Routed(c), NEW k \in Queue, NoPops(c, From[k]), NEW cs, Housed(c, cs),
           NEW ds, Extends(ds, cs, Push(From[k], To[k]))
    PROVE  Housed(PushedNoop(c, k), ds)
<1>1. From[k] \in Stage /\ (From[k] = 1 => Forward(k)) /\ (From[k] = 3 => ~Forward(k))
    BY Links DEF Forward
<1>2. c \in QueueT /\ c.popPrev[From[k]] = FALSE /\ c.popNext[From[k]] = FALSE
    BY <1>1 DEF Routed, QueueT, NoPops
<1>3. PICK x : x = NoopPush(k)
    OBVIOUS
<1>4. /\ x \in Insn /\ x.op = Noop(From[k]).op /\ x.mem = Noop(From[k]).mem /\ x.noop = TRUE
      /\ x.popPrev = c.popPrev[From[k]] /\ x.popNext = c.popNext[From[k]]
      /\ ~x.popPrev /\ ~x.popNext
      /\ IF Forward(k) THEN x.pushNext /\ ~x.pushPrev ELSE x.pushPrev /\ ~x.pushNext
    <2>1. CASE Forward(k)
        BY <1>2, <1>3, <2>1 DEF NoopPush, Insn, Noop, Opcode, MemType
    <2>2. CASE ~Forward(k)
        BY <1>2, <1>3, <2>2 DEF NoopPush, Insn, Noop, Opcode, MemType
    <2> QED
        BY <2>1, <2>2
<1>5. On(x, From[k])
    <2>1. (From[k] = 1 => ~x.popPrev /\ ~x.pushPrev) /\ (From[k] = 3 => ~x.popNext /\ ~x.pushNext)
        BY <1>1, <1>4
    <2> QED
        BY <1>1, <1>4, <2>1, NoopFits
<1>6. PICK d : d = Push(From[k], To[k])
    OBVIOUS
<1>7. d \in KernelCall /\ d.stage = From[k] /\ Thing(d) = IF Forward(k) THEN "pushNext" ELSE "pushPrev"
    BY <1>6, CallThings
<1>8. \A y : y \in StandsFor(x) <=> y \in PendingOf(c, From[k]) \/ y = Thing(d)
    <2>1. ~IsWork(x)
        BY <1>4 DEF IsWork
    <2> QED
        BY <1>2, <1>4, <1>7, <2>1, Things
<1>9. StandsFor(x) = PendingOf(c, From[k]) \cup {Thing(d)}
    BY <1>8
<1>10. Housed(After(c, x, From[k]), ds)
    BY <1>1, <1>4, <1>5, <1>6, <1>7, <1>9, CarriedWith
<1> QED
    BY <1>3, <1>10 DEF PushedNoop

LEMMA PushMarkHoused ==
    ASSUME NEW c, Routed(c), NEW k \in Queue, NoPops(c, From[k]), NEW cs, Housed(c, cs),
           NEW ds, Extends(ds, cs, Push(From[k], To[k])),
           NEW n, n = Len(c.insns), n > 0, GetPipelineStage(c.insns[n]) = From[k],
           IF Forward(k) THEN ~c.insns[n].pushNext ELSE ~c.insns[n].pushPrev
    PROVE  Housed(SetFlag(c, k, n), ds)
<1>1. /\ c \in QueueT /\ c.insns \in Seq(Insn) /\ n \in Nat /\ n \in 1..n /\ DOMAIN c.insns = 1..n
      /\ c.insns[n] \in Insn /\ Fits(c.insns[n]) /\ \A i \in 1..n : c.insns[i] \in Insn
    BY Lengths, ElementOfSeq DEF Routed
<1>2. PICK y : y = c.insns[n]
    OBVIOUS
<1>3. PICK x : x = IF Forward(k) THEN [y EXCEPT !.pushNext = TRUE] ELSE [y EXCEPT !.pushPrev = TRUE]
    OBVIOUS
<1>4. /\ x \in Insn /\ x.op = y.op /\ x.mem = y.mem /\ x.noop = y.noop
      /\ x.popPrev = y.popPrev /\ x.popNext = y.popNext
      /\ Forward(k) => x.pushNext /\ ~y.pushNext /\ x.pushPrev = y.pushPrev
      /\ ~Forward(k) => x.pushPrev /\ ~y.pushPrev /\ x.pushNext = y.pushNext
    BY <1>1, <1>2, <1>3 DEF Insn
<1>5. On(y, From[k]) /\ On(x, From[k]) /\ From[k] \in Stage /\ From[k] # 0
    <2>1. From[k] \in Stage /\ From[k] # 0
        BY Links DEF Stage, LoadStage, StoreStage
    <2>2. GetPipelineStageAll(y) = From[k]
        BY <1>2, <2>1 DEF GetPipelineStageAll, NoneStage
    <2> QED
        BY <1>1, <1>2, <1>4, <2>1, <2>2 DEF Fits, On, GetCoreType
<1>6. PICK t : t = [c.insns EXCEPT ![n] = x]
    OBVIOUS
<1>7. PICK r : r = SetFlag(c, k, n)
    OBVIOUS
<1>8. r.insns = t /\ r.popPrev = c.popPrev /\ r.popNext = c.popNext
    <2>1. r = [c EXCEPT !.insns = t]
        <3>1. CASE Forward(k)
            BY <1>1, <1>2, <1>3, <1>6, <1>7, <3>1 DEF QueueT, SetFlag
        <3>2. CASE ~Forward(k)
            BY <1>1, <1>2, <1>3, <1>6, <1>7, <3>2 DEF QueueT, SetFlag
        <3> QED
            BY <3>1, <3>2
    <2> QED
        BY <1>1, <2>1 DEF QueueT
<1>9. Len(t) = n /\ t[n] = x /\ \A i \in 1..n : i # n => t[i] = c.insns[i]
    BY <1>1, <1>6, ExceptSeq
<1>10. PICK d : d = Push(From[k], To[k])
    OBVIOUS
<1>11. d \in KernelCall /\ d.stage = From[k] /\ Thing(d) = IF Forward(k) THEN "pushNext" ELSE "pushPrev"
    BY <1>10, CallThings
<1>12. (\A z : z \in StandsFor(x) <=> z \in StandsFor(y) \/ z = Thing(d)) /\ Thing(d) \notin StandsFor(y)
    <2>1. IsWork(x) <=> IsWork(y)
        BY <1>4 DEF IsWork
    <2> QED
        BY <1>4, <1>11, <2>1, Things
<1>13. Stand(r, d.stage, n) = Stand(c, d.stage, n) \cup {Thing(d)} /\ Thing(d) \notin Stand(c, d.stage, n)
    <2>1. Stand(r, d.stage, n) = StandsFor(x)
        BY <1>5, <1>8, <1>9, <1>11 DEF Stand
    <2>2. Stand(c, d.stage, n) = StandsFor(y)
        BY <1>2, <1>5, <1>11 DEF Stand
    <2> QED
        BY <1>12, <2>1, <2>2
<1>14. \A s \in Stage : \A i \in 0..n : s # d.stage \/ i # n => Stand(r, s, i) = Stand(c, s, i)
    <2> TAKE s \in Stage
    <2> TAKE i \in 0..n
    <2>1. CASE i = 0
        BY <1>8, <2>1 DEF Stand, PendingOf
    <2>2. CASE i # 0 /\ i # n
        BY <1>1, <1>8, <1>9, <2>2 DEF Stand
    <2>3. CASE i = n /\ s # d.stage
        <3>1. ~On(x, s) /\ ~On(y, s)
            BY <1>5, <1>11, <2>3, OneStage
        <3> QED
            BY <1>1, <1>2, <1>8, <1>9, <2>3, <3>1 DEF Stand
    <2> QED
        BY <2>1, <2>2, <2>3
<1>15. Stand(c, d.stage, 0) = {}
    BY <1>11, Things DEF Stand, NoPops
<1>16. Adds(c, r, d, n)
    BY <1>1, <1>8, <1>9, <1>13, <1>14, <1>15 DEF Adds
<1> QED
    BY <1>7, <1>10, <1>11, <1>16, Joined

LEMMA PushHoused ==
    ASSUME NEW q, Routed(q), NEW k \in Queue, NEW from, NEW to, from = From[k], to = To[k],
           NEW cs, Housed(q, cs)
    PROVE  Housed(DepPushOp(q, from, to), Append(cs, Push(from, to)))
<1>1. PICK c : c = CommitPendingPop(q, from)
    OBVIOUS
<1>2. PICK ds : ds = Append(cs, Push(from, to))
    OBVIOUS
<1>3. from \in Stage /\ Extends(ds, cs, Push(From[k], To[k]))
    BY <1>2, Links DEF Extends
<1>4. Routed(c) /\ NoPops(c, From[k])
    BY <1>1, <1>3, CommitStep DEF Step
<1>5. Housed(c, cs)
    BY <1>1, <1>3, CommitHoused
<1>6. DepPushOp(q, from, to) = PushInto(c, k)
    BY <1>1 DEF PushInto, DepPushOp, Forward
<1>7. PICK n : n = Len(c.insns)
    OBVIOUS
<1>8. CASE /\ n > 0 /\ GetPipelineStage(c.insns[n]) = From[k]
           /\ IF Forward(k) THEN ~c.insns[n].pushNext ELSE ~c.insns[n].pushPrev
    <2>1. PushInto(c, k) = SetFlag(c, k, n)
        BY <1>7, <1>8 DEF PushInto, SetFlag
    <2>2. Housed(SetFlag(c, k, n), ds)
        BY <1>3, <1>4, <1>5, <1>7, <1>8, PushMarkHoused
    <2> QED
        BY <1>2, <1>6, <2>1, <2>2
<1>9. CASE ~(/\ n > 0 /\ GetPipelineStage(c.insns[n]) = From[k]
             /\ IF Forward(k) THEN ~c.insns[n].pushNext ELSE ~c.insns[n].pushPrev)
    <2>1. PushInto(c, k) = [c EXCEPT !.insns = Append(@, NoopPush(k))]
        BY <1>7, <1>9 DEF PushInto, PushNoop, NoopPush
    <2>2. c \in QueueT /\ c.popPrev[From[k]] = FALSE /\ c.popNext[From[k]] = FALSE
        BY <1>4, Links DEF Routed, QueueT, NoPops
    <2>3. PushInto(c, k) = PushedNoop(c, k)
        BY <2>1, <2>2 DEF PushedNoop, After, QueueT
    <2>4. Housed(PushedNoop(c, k), ds)
        BY <1>3, <1>4, <1>5, PushNoopHoused
    <2> QED
        BY <1>2, <1>6, <2>3, <2>4
<1> QED
    BY <1>8, <1>9

LEMMA PendHoused ==
    ASSUME NEW c, Routed(c), NEW k \in Queue, ~Pend(c, k), NEW cs, Housed(c, cs),
           NEW ds, Extends(ds, cs, Pop(From[k], To[k]))
    PROVE  Housed(PendToo(c, k), ds)
<1>1. PICK r : r = PendToo(c, k)
    OBVIOUS
<1>2. c \in QueueT /\ To[k] \in Stage /\ Len(c.insns) \in Nat
    BY Links, Lengths DEF Routed
<1>3. /\ r.insns = c.insns
      /\ \A s \in Stage \ {To[k]} : r.popPrev[s] = c.popPrev[s] /\ r.popNext[s] = c.popNext[s]
      /\ Forward(k) => r.popPrev[To[k]] /\ r.popNext = c.popNext
      /\ ~Forward(k) => r.popNext[To[k]] /\ r.popPrev = c.popPrev
    <2>1. CASE Forward(k)
        BY <1>1, <1>2, <2>1 DEF PendToo, QueueT
    <2>2. CASE ~Forward(k)
        BY <1>1, <1>2, <2>2 DEF PendToo, QueueT
    <2> QED
        BY <2>1, <2>2
<1>4. PICK d : d = Pop(From[k], To[k])
    OBVIOUS
<1>5. d \in KernelCall /\ d.stage = To[k] /\ Thing(d) = IF Forward(k) THEN "popPrev" ELSE "popNext"
    BY <1>4, CallThings
<1>6. \A q, s : Stand(q, s, 0) = PendingOf(q, s)
    BY DEF Stand
<1>7. (\A x : x \in PendingOf(r, To[k]) <=> x \in PendingOf(c, To[k]) \/ x = Thing(d)) /\ Thing(d) \notin PendingOf(c, To[k])
    BY <1>3, <1>5, Things DEF Pend
<1>8. /\ Stand(r, d.stage, 0) = Stand(c, d.stage, 0) \cup {Thing(d)}
      /\ Thing(d) \notin Stand(c, d.stage, 0)
    BY <1>5, <1>6, <1>7
<1>9. \A s \in Stage : \A i \in 0..Len(c.insns) : s # d.stage \/ i # 0 => Stand(r, s, i) = Stand(c, s, i)
    <2> TAKE s \in Stage
    <2> TAKE i \in 0..Len(c.insns)
    <2>1. CASE i # 0
        BY <1>3, <2>1 DEF Stand
    <2>2. CASE i = 0 /\ s # d.stage
        <3>1. r.popPrev[s] = c.popPrev[s] /\ r.popNext[s] = c.popNext[s]
            BY <1>3, <1>5, <2>2
        <3>2. PendingOf(r, s) = PendingOf(c, s)
            BY <3>1 DEF PendingOf
        <3> QED
            BY <1>6, <2>2, <3>2
    <2> QED
        BY <2>1, <2>2
<1>10. Adds(c, r, d, 0)
    BY <1>2, <1>3, <1>8, <1>9 DEF Adds
<1> QED
    BY <1>1, <1>4, <1>5, <1>10, Joined

LEMMA PopHoused ==
    ASSUME NEW q, Routed(q), NEW k \in Queue, NEW from, NEW to, from = From[k], to = To[k],
           NEW cs, Housed(q, cs)
    PROVE  Housed(DepPopOp(q, from, to), Append(cs, Pop(from, to)))
<1>1. PICK c : c = IF Pend(q, k) THEN CommitPendingPop(q, to) ELSE q
    OBVIOUS
<1>2. to \in Stage
    BY Links
<1>3. Routed(c) /\ ~Pend(c, k) /\ Housed(c, cs)
    <2>1. CASE Pend(q, k)
        <3>1. c = CommitPendingPop(q, to)
            BY <1>1, <2>1
        <3>2. Routed(c) /\ NoPops(c, to)
            BY <1>2, <3>1, CommitStep DEF Step
        <3>3. Housed(c, cs)
            BY <1>2, <3>1, CommitHoused
        <3> QED
            BY <3>2, <3>3 DEF NoPops, Pend
    <2>2. CASE ~Pend(q, k)
        BY <1>1, <2>2
    <2> QED
        BY <2>1, <2>2
<1>4. DepPopOp(q, from, to) = PendToo(c, k)
    BY <1>1 DEF PendToo, DepPopOp, Forward, Pend
<1>5. Extends(Append(cs, Pop(from, to)), cs, Pop(From[k], To[k]))
    BY DEF Extends
<1> QED
    BY <1>3, <1>4, <1>5, PendHoused

\* Synchronize asks for what it inserts, FINISH included.
LEMMA SealedHoused ==
    ASSUME ~serial, NEW q, Routed(q), NEW cs, Housed(q, cs)
    PROVE  Housed(Sealed(q), cs \o SyncCalls)
<1>1. PICK a : a = DepPushOp(q, 3, 2)
    OBVIOUS
<1>2. PICK b : b = DepPushOp(a, 1, 2)
    OBVIOUS
<1>3. PICK c : c = DepPopOp(b, 3, 2)
    OBVIOUS
<1>4. PICK d : d = DepPopOp(c, 1, 2)
    OBVIOUS
<1>5. PICK e : e = CommitPendingPop(d, 2)
    OBVIOUS
<1>6. Sealed(q) = Create(e, 2, "FINISH", "UOP")
    BY <1>1, <1>2, <1>3, <1>4, <1>5 DEF Sealed, WaitForAllOp, LoadStage, ComputeStage, StoreStage
<1>7. /\ "s2g" \in Queue /\ "l2g" \in Queue /\ From["s2g"] = 3 /\ To["s2g"] = 2
      /\ From["l2g"] = 1 /\ To["l2g"] = 2 /\ 2 \in Stage
    BY DEF Queue, From, To, Stage, LoadStage, StoreStage
<1>8. PICK c1 : c1 = Append(cs, Push(3, 2))
    OBVIOUS
<1>9. PICK c2 : c2 = Append(c1, Push(1, 2))
    OBVIOUS
<1>10. PICK c3 : c3 = Append(c2, Pop(3, 2))
    OBVIOUS
<1>11. PICK c4 : c4 = Append(c3, Pop(1, 2))
    OBVIOUS
<1>12. PICK c5 : c5 = Append(c4, Work(2))
    OBVIOUS
<1>13. Routed(a) /\ Housed(a, c1)
    BY <1>1, <1>7, <1>8, PushStep, PushHoused DEF Step
<1>14. Routed(b) /\ Housed(b, c2)
    BY <1>2, <1>7, <1>9, <1>13, PushStep, PushHoused DEF Step
<1>15. Routed(c) /\ Housed(c, c3)
    BY <1>3, <1>7, <1>10, <1>14, PopStep, PopHoused DEF Step
<1>16. Routed(d) /\ Housed(d, c4)
    BY <1>4, <1>7, <1>11, <1>15, PopStep, PopHoused DEF Step
<1>17. Routed(e) /\ Housed(e, c4)
    BY <1>5, <1>7, <1>16, CommitStep, CommitHoused DEF Step
<1>18. Housed(Create(e, 2, "FINISH", "UOP"), c5)
    <2>1. On(PlainInsn("FINISH", "UOP"), 2)
        BY DEF On, CoreOf, GetCoreType, PlainInsn
    <2>2. "FINISH" \in Opcode /\ "UOP" \in MemType
        BY DEF Opcode, MemType
    <2>3. Extends(c5, c4, Work(2))
        BY <1>12 DEF Extends
    <2>4. Housed(Create(e, 2, "FINISH", "UOP"), IF "FINISH" = "LOAD" /\ "UOP" = "UOP" THEN c4 ELSE c5)
        BY <1>7, <1>17, <2>1, <2>2, <2>3, CreateHoused
    <2> QED
        BY <2>4
<1>19. cs \o SyncCalls = c5
    <2>1. SyncCalls = <<Push(3, 2), Push(1, 2), Pop(3, 2), Pop(1, 2), Work(2)>>
        BY DEF SyncCalls, ComputeStage
    <2>2. /\ Push(3, 2) \in ApiCall /\ Push(1, 2) \in ApiCall /\ Pop(3, 2) \in ApiCall
          /\ Pop(1, 2) \in ApiCall /\ Work(2) \in ApiCall
        BY DEF Push, Pop, Work, ApiCall, Link, Stage, LoadStage, StoreStage
    <2>3. cs \in Seq(ApiCall)
        <3>1. KernelCall \subseteq ApiCall
            BY Links DEF KernelCall, ApiCall, Work, Push, Pop
        <3>2. cs \in Seq(KernelCall)
            BY DEF Housed
        <3> QED
            BY <3>1, <3>2
    <2>4. cs \o <<Push(3, 2), Push(1, 2), Pop(3, 2), Pop(1, 2), Work(2)>>
             = Append(Append(Append(Append(Append(cs, Push(3, 2)), Push(1, 2)), Pop(3, 2)), Pop(1, 2)), Work(2))
        BY <2>2, <2>3, FiveMore
    <2> QED
        BY <1>8, <1>9, <1>10, <1>11, <1>12, <2>1, <2>4
<1> QED
    BY <1>6, <1>18, <1>19

\* Every call finds its place, whatever was merged, deferred or inserted.
LEMMA LaunchHoused ==
    ASSUME ~serial, NEW q, Routed(q), NEW cs, Housed(q, cs), Launch(q, cs)
    PROVE  Housed(iq', calls')
BY SealedHoused DEF Launch

LEMMA CallHoused ==
    ASSUME ~serial, NEW q, Routed(q), NEW cs, Housed(q, cs), CheckInsnOverFlow(q, cs)
    PROVE  Housed(iq', calls')
BY LaunchHoused DEF CheckInsnOverFlow

\* A queue with nothing in it, at the start and after a batch.
LEMMA HousedAgain ==
    ASSUME NEW q \in QueueT, q.insns = <<>>, ~PendingPop(q)
    PROVE  Housed(q, <<>>)
<1>2. Len(q.insns) = 0 /\ (\A s \in Stage : PendingOf(q, s) = {})
    BY Things DEF PendingPop
<1>1. PICK cs : cs = <<>>
    OBVIOUS
<1>3. cs \in Seq(KernelCall) /\ Len(cs) = 0
    BY <1>1
<1>4. PICK h : h = [k \in 1..Len(cs) |-> 0]
    OBVIOUS
<1>5. \A k : k \notin 1..Len(cs)
    BY <1>3
<1>6. \A s \in Stage : \A i \in 0..Len(q.insns) : Stand(q, s, i) = {}
    BY <1>2 DEF Stand
<1>7. h \in [1..Len(cs) -> 0..Len(q.insns)]
    BY <1>4, <1>5
<1>8. Home(q, cs, h)
    BY <1>5, <1>6, <1>7 DEF Home
<1> QED
    BY <1>1, <1>3, <1>8 DEF Housed

LEMMA HousedInit == HostInit => Housed(iq, calls)
<1>1. EmptyQueue \in QueueT /\ EmptyQueue.insns = <<>> /\ ~PendingPop(EmptyQueue)
    BY NothingYet DEF Routed
<1> QED
    BY <1>1, HousedAgain DEF HostInit

LEMMA WorkHoused ==
    ASSUME NEW q, Routed(q), NEW cs, Housed(q, cs), NEW op, NEW mem, NEW st, Creates(op, mem, st),
           ~(op = "LOAD" /\ mem = "UOP")
    PROVE  Housed(Create(q, st, op, mem), Append(cs, Work(st)))
<1>1. op \in Opcode /\ mem \in MemType /\ st \in Stage
    BY DEF Creates, Opcode, MemType, GetMemPipelineStage, Stage, LoadStage, ComputeStage, StoreStage
<1>2. On(PlainInsn(op, mem), st)
    BY DEF On, CoreOf, GetCoreType, PlainInsn, Creates, GetMemPipelineStage, LoadStage, ComputeStage, StoreStage
<1>3. PICK ds : ds = Append(cs, Work(st))
    OBVIOUS
<1>4. Housed(Create(q, st, op, mem), IF op = "LOAD" /\ mem = "UOP" THEN cs ELSE ds)
    BY <1>1, <1>2, <1>3, CreateHoused DEF Extends
<1> QED
    BY <1>3, <1>4

LEMMA UopHoused ==
    ASSUME NEW q, Routed(q), NEW cs, Housed(q, cs)
    PROVE  Housed(Create(q, 2, "LOAD", "UOP"), cs)
<1>1. "LOAD" \in Opcode /\ "UOP" \in MemType /\ 2 \in Stage
    BY DEF Opcode, MemType, Stage, LoadStage, StoreStage
<1>2. On(PlainInsn("LOAD", "UOP"), 2)
    BY DEF On, CoreOf, GetCoreType, PlainInsn
<1>3. PICK ds : ds = Append(cs, Work(2))
    OBVIOUS
<1>4. Housed(Create(q, 2, "LOAD", "UOP"), IF "LOAD" = "LOAD" /\ "UOP" = "UOP" THEN cs ELSE ds)
    BY <1>1, <1>2, <1>3, CreateHoused DEF Extends
<1> QED
    BY <1>4

LEMMA HousedNext ==
    ASSUME HInv, ~serial, Housed(iq, calls), [HostNext]_hostVars
    PROVE  Housed(iq', calls')
<1>1. status = "host" => Routed(iq)
    BY DEF HInv, Batch
<1>2. ASSUME NEW mem \in LoadMems, LoadBuffer2D(mem)
      PROVE  Housed(iq', calls')
    <2>1. PICK st : st = GetMemPipelineStage(mem)
        OBVIOUS
    <2>2. PICK q : q = Create(iq, st, "LOAD", mem)
        OBVIOUS
    <2>3. PICK cs : cs = Append(calls, Work(st))
        OBVIOUS
    <2>4. Routed(iq) /\ CheckInsnOverFlow(q, cs)
        BY <1>1, <1>2, <2>1, <2>2, <2>3 DEF LoadBuffer2D, Spend
    <2>5. Creates("LOAD", mem, st) /\ mem # "UOP"
        BY <2>1, InsnQueueAssumption DEF Creates
    <2>6. Routed(q)
        BY <2>2, <2>4, <2>5, CreateStep DEF Step
    <2>7. Housed(q, cs)
        BY <2>2, <2>3, <2>4, <2>5, WorkHoused
    <2> QED
        BY <2>4, <2>6, <2>7, CallHoused
<1>3. CASE StoreBuffer2D
    <2>2. PICK q : q = Create(iq, 3, "STORE", "OUT")
        OBVIOUS
    <2>3. PICK cs : cs = Append(calls, Work(3))
        OBVIOUS
    <2>4. Routed(iq) /\ CheckInsnOverFlow(q, cs)
        BY <1>1, <1>3, <2>2, <2>3 DEF StoreBuffer2D, Spend, StoreStage
    <2>5. Creates("STORE", "OUT", 3)
        BY DEF Creates, StoreStage
    <2>6. Routed(q)
        BY <2>2, <2>4, <2>5, CreateStep DEF Step
    <2>7. Housed(q, cs)
        BY <2>2, <2>3, <2>4, <2>5, WorkHoused
    <2> QED
        BY <2>4, <2>6, <2>7, CallHoused
<1>4. ASSUME NEW op \in Ops, NEW uopLoad \in UopLoads, PushOp(op, uopLoad)
      PROVE  Housed(iq', calls')
    <2>1. PICK a : a = IF uopLoad THEN Create(iq, 2, "LOAD", "UOP") ELSE iq
        OBVIOUS
    <2>2. PICK q : q = Create(a, 2, op, "UOP")
        OBVIOUS
    <2>3. PICK cs : cs = Append(calls, Work(2))
        OBVIOUS
    <2>4. Routed(iq) /\ CheckInsnOverFlow(q, cs)
        BY <1>1, <1>4, <2>1, <2>2, <2>3 DEF PushOp, Spend, ComputeStage
    <2>5. Creates("LOAD", "UOP", 2) /\ Creates(op, "UOP", 2) /\ op # "LOAD"
        BY InsnQueueAssumption DEF Creates, GetMemPipelineStage, ComputeStage
    <2>6. Routed(a) /\ Housed(a, calls)
        <3>1. CASE uopLoad
            BY <2>1, <2>4, <2>5, <3>1, CreateStep, UopHoused DEF Step
        <3>2. CASE ~uopLoad
            BY <2>1, <2>4, <3>2
        <3> QED
            BY <3>1, <3>2
    <2>7. Routed(q)
        BY <2>2, <2>5, <2>6, CreateStep DEF Step
    <2>8. Housed(q, cs)
        BY <2>2, <2>3, <2>5, <2>6, WorkHoused
    <2> QED
        BY <2>4, <2>7, <2>8, CallHoused
<1>5. ASSUME NEW l \in Link, DepPush(l[1], l[2]) \/ DepPop(l[1], l[2])
      PROVE  Housed(iq', calls')
    <2>1. PICK k \in Queue : l = <<From[k], To[k]>>
        BY Links
    <2>2. l[1] = From[k] /\ l[2] = To[k]
        BY <2>1
    <2>3. Routed(iq)
        BY <1>1, <1>5 DEF DepPush, DepPop, Spend
    <2>4. CASE DepPush(l[1], l[2])
        BY <2>2, <2>3, <2>4, PushHoused DEF DepPush
    <2>5. CASE DepPop(l[1], l[2])
        BY <2>2, <2>3, <2>5, PopHoused DEF DepPop
    <2> QED
        BY <1>5, <2>4, <2>5
<1>6. ASSUME NEW mode \in SerialModes, SetDebugMode(mode)
      PROVE  Housed(iq', calls')
    BY <1>6 DEF SetDebugMode
<1>7. CASE Synchronize
    BY <1>1, <1>7, LaunchHoused DEF Synchronize
<1>8. CASE DeviceReturns
    <2>1. iq \in QueueT /\ ~PendingPop(iq) /\ iq' = [iq EXCEPT !.insns = <<>>] /\ calls' = <<>>
        BY <1>8 DEF HInv, Batch, Sent, DeviceReturns
    <2>2. iq' \in QueueT /\ iq'.insns = <<>> /\ iq'.popPrev = iq.popPrev /\ iq'.popNext = iq.popNext
        <3>1. <<>> \in Seq(Insn)
            OBVIOUS
        <3> QED
            BY <2>1, <3>1 DEF QueueT
    <2>3. ~PendingPop(iq')
        BY <2>1, <2>2 DEF PendingPop
    <2> QED
        BY <2>1, <2>2, <2>3, HousedAgain
<1>9. CASE UNCHANGED hostVars
    BY <1>9 DEF hostVars
<1> QED
    BY <1>2, <1>3, <1>4, <1>5, <1>6, <1>7, <1>8, <1>9 DEF HostNext, HostCall

--------------------------------------------------------------------------------
(* What has been done: the calls whose instructions have executed.             *)

Upto(cs, k) == {j \in 1..k : cs[j].stage = cs[k].stage}
Carry(s, E, st) == UNION {{i} \X StandsFor(s[i]) : i \in {j \in E : GetCoreType(s[j]) = CoreOf[st]}}
AskingIn(cs, k) == [stage |-> cs[k].stage, at |-> k, kind |-> cs[k].kind, link |-> cs[k].link]
DoneCalls(s, cs, E) ==
    {AskingIn(cs, k) : k \in {j \in DOMAIN cs : Cardinality(Upto(cs, j)) <= Cardinality(Carry(s, E, cs[j].stage))}}
Placed(cs, h, E, st) == {k \in 1..Len(cs) : cs[k].stage = st /\ h[k] \in E}
CallsIn(cs, h, E) == {AskingIn(cs, k) : k \in {j \in 1..Len(cs) : h[j] \in E}}
Whole(q, cs, h) == Home(q, cs, h) /\ \A k \in 1..Len(cs) : h[k] # 0
Closed(E, s) == \A i \in E : \A j \in DOMAIN s : j < i /\ GetCoreType(s[j]) = GetCoreType(s[i]) => j \in E

LEMMA Uptos ==
    ASSUME NEW cs \in Seq(KernelCall), NEW j \in 1..Len(cs)
    PROVE  /\ Len(cs) \in Nat /\ j \in Upto(cs, j) /\ Upto(cs, j) \subseteq 1..Len(cs) /\ IsFiniteSet(Upto(cs, j))
           /\ Cardinality(Upto(cs, j)) \in Nat /\ Cardinality(Upto(cs, j)) > 0
<1>1. Len(cs) \in Nat /\ j \in Upto(cs, j) /\ Upto(cs, j) \subseteq 1..Len(cs)
    BY LenProperties DEF Upto
<1>2. IsFiniteSet(Upto(cs, j))
    <2>1. IsFiniteSet(1..Len(cs))
        BY <1>1, FS_Interval
    <2> QED
        BY <1>1, <2>1, FS_Subset
<1>3. Cardinality(Upto(cs, j)) \in Nat /\ Cardinality(Upto(cs, j)) # 0
    BY <1>1, <1>2, FS_CardinalityType, FS_EmptySet
<1> QED
    BY <1>1, <1>2, <1>3

\* As many calls of a stage are placed in E as its instructions in E stand for.
LEMMA AsMany ==
    ASSUME NEW q, q.insns \in Seq(Insn), NEW cs \in Seq(KernelCall), NEW h, Home(q, cs, h),
           NEW E, E \subseteq 1..Len(q.insns), NEW st \in Stage
    PROVE  /\ IsFiniteSet(Placed(cs, h, E, st))
           /\ Cardinality(Placed(cs, h, E, st)) = Cardinality(Carry(q.insns, E, st))
<1>0. PICK K : K = Placed(cs, h, E, st)
    OBVIOUS
<1>k. K = {k \in 1..Len(cs) : cs[k].stage = st /\ h[k] \in E}
    BY <1>0 DEF Placed
<1>1. PICK U : U = Carry(q.insns, E, st)
    OBVIOUS
<1>2. Len(cs) \in Nat /\ Len(q.insns) \in Nat /\ IsFiniteSet(K)
    <2>1. Len(cs) \in Nat /\ Len(q.insns) \in Nat /\ K \subseteq 1..Len(cs)
        BY <1>k, LenProperties
    <2>2. IsFiniteSet(1..Len(cs))
        BY <2>1, FS_Interval
    <2> QED
        BY <2>1, <2>2, FS_Subset
<1>3. \A i \in E : i # 0 /\ i \in 0..Len(q.insns)
    BY <1>2
<1>4. \A i \in E : Stand(q, st, i) = IF GetCoreType(q.insns[i]) = CoreOf[st] THEN StandsFor(q.insns[i]) ELSE {}
    BY <1>3 DEF Stand, On
<1>5. \A u : u \in U <=> \E i \in E : \E x \in Stand(q, st, i) : u = <<i, x>>
    <2>1. PICK J : J = {i \in E : GetCoreType(q.insns[i]) = CoreOf[st]}
        OBVIOUS
    <2>2. \A u : u \in U <=> \E i \in J : u \in {i} \X StandsFor(q.insns[i])
        BY <1>1, <2>1 DEF Carry
    <2>3. \A i \in J : \A u : u \in {i} \X StandsFor(q.insns[i]) <=> \E x \in Stand(q, st, i) : u = <<i, x>>
        BY <1>4, <2>1
    <2>4. \A i \in E : i \notin J => Stand(q, st, i) = {}
        BY <1>4, <2>1
    <2> QED
        BY <2>1, <2>2, <2>3, <2>4
<1>6. PICK f : f = [k \in K |-> <<h[k], Thing(cs[k])>>]
    OBVIOUS
<1>7. /\ \A k \in 1..Len(cs) : Thing(cs[k]) \in Stand(q, cs[k].stage, h[k])
      /\ \A j, k \in 1..Len(cs) : cs[j].stage = cs[k].stage /\ h[j] = h[k] /\ Thing(cs[j]) = Thing(cs[k]) => j = k
      /\ \A i \in 0..Len(q.insns) : \A x \in Stand(q, st, i) :
            \E k \in 1..Len(cs) : cs[k].stage = st /\ h[k] = i /\ Thing(cs[k]) = x
    BY DEF Home
<1>8. f \in [K -> U]
    <2>1. \A k \in K : <<h[k], Thing(cs[k])>> \in U
        BY <1>k, <1>5, <1>7
    <2> QED
        BY <1>6, <2>1
<1>9. \A j, k \in K : f[j] = f[k] => j = k
    <2>1. \A k \in K : f[k] = <<h[k], Thing(cs[k])>>
        BY <1>6
    <2>2. \A j, k \in K : f[j] = f[k] => h[j] = h[k] /\ Thing(cs[j]) = Thing(cs[k])
        BY <2>1
    <2> QED
        BY <1>k, <1>7, <2>2
<1>10. \A u \in U : \E k \in K : f[k] = u
    <2> TAKE u \in U
    <2>0. PICK i \in E : \E x \in Stand(q, st, i) : u = <<i, x>>
        BY <1>5
    <2>1. PICK x \in Stand(q, st, i) : u = <<i, x>>
        BY <2>0
    <2>2. PICK k \in 1..Len(cs) : cs[k].stage = st /\ h[k] = i /\ Thing(cs[k]) = x
        BY <1>3, <1>7, <2>1
    <2> QED
        BY <1>k, <1>6, <2>1, <2>2
<1>11. f \in Bijection(K, U)
    BY <1>8, <1>9, <1>10 DEF Bijection, Injection, Surjection, IsInjective
<1> QED
    BY <1>0, <1>1, <1>2, <1>11, FS_Bijection DEF ExistsBijection

\* The first calls of a stage, as many as that, are those placed in E.
LEMMA DoneAre ==
    ASSUME NEW q, q.insns \in Seq(Insn), NEW cs \in Seq(KernelCall), NEW h, Home(q, cs, h),
           \A k \in 1..Len(cs) : h[k] # 0,
           NEW E, E \subseteq 1..Len(q.insns), Closed(E, q.insns), NEW j \in 1..Len(cs)
    PROVE  Cardinality(Upto(cs, j)) <= Cardinality(Carry(q.insns, E, cs[j].stage)) <=> h[j] \in E
<1>1. PICK st : st = cs[j].stage
    OBVIOUS
<1>k. PICK K : K = Placed(cs, h, E, st)
    OBVIOUS
<1>2. K = {k \in 1..Len(cs) : cs[k].stage = st /\ h[k] \in E}
    BY <1>k DEF Placed
<1>3. \A k \in 1..Len(cs) : cs[k] \in KernelCall /\ cs[k].stage \in Stage
    <2>1. \A c \in KernelCall : c.stage \in Stage
        BY Links DEF KernelCall, Work, Push, Pop
    <2> QED
        BY <2>1, ElementOfSeq
<1>4. IsFiniteSet(K) /\ Cardinality(K) = Cardinality(Carry(q.insns, E, st))
    <2>1. st \in Stage
        BY <1>1, <1>3
    <2> QED
        BY <1>k, <2>1, AsMany
<1>5. PICK U : U = Upto(cs, j)
    OBVIOUS
<1>6. /\ j \in U /\ U \subseteq 1..Len(cs) /\ IsFiniteSet(U) /\ Cardinality(U) \in Nat
      /\ \A k \in U : k <= j /\ cs[k].stage = st
      /\ \A k \in 1..Len(cs) : k <= j /\ cs[k].stage = st => k \in U
    <2>1. Len(cs) \in Nat /\ \A k \in 1..j : k <= j
        BY Uptos
    <2>2. \A k \in 1..Len(cs) : k <= j => k \in 1..j
        BY <2>1
    <2> QED
        BY <1>1, <1>5, <2>1, <2>2, Uptos DEF Upto
<1>7. Len(q.insns) \in Nat /\ DOMAIN q.insns = 1..Len(q.insns) /\ Len(cs) \in Nat
    BY LenProperties
<1>8. \A k \in 1..Len(cs) : /\ h[k] \in DOMAIN q.insns
                            /\ cs[k].stage = st => GetCoreType(q.insns[h[k]]) = CoreOf[st]
    <2> TAKE k \in 1..Len(cs)
    <2>1. h[k] \in 0..Len(q.insns) /\ h[k] # 0 /\ Thing(cs[k]) \in Stand(q, cs[k].stage, h[k])
        BY DEF Home
    <2> QED
        BY <1>7, <2>1 DEF Stand, On
<1>9. \A a \in 1..Len(cs) : \A b \in 1..Len(cs) : a <= b /\ cs[a].stage = st /\ cs[b].stage = st /\ h[b] \in E => h[a] \in E
    <2> TAKE a \in 1..Len(cs)
    <2> TAKE b \in 1..Len(cs)
    <2> HAVE a <= b /\ cs[a].stage = st /\ cs[b].stage = st /\ h[b] \in E
    <2>1. CASE a = b
        BY <2>1
    <2>2. CASE a < b
        <3>1. h[a] <= h[b]
            BY <2>2 DEF Home
        <3>2. h[a] \in Nat /\ h[b] \in Nat /\ h[a] \in DOMAIN q.insns
            BY <1>7, <1>8
        <3>3. h[a] = h[b] \/ h[a] < h[b]
            BY <3>1, <3>2
        <3>4. GetCoreType(q.insns[h[a]]) = GetCoreType(q.insns[h[b]])
            BY <1>8
        <3> QED
            BY <3>2, <3>3, <3>4 DEF Closed
    <2> QED
        BY <1>7, <2>1, <2>2
<1>10. CASE h[j] \in E
    <2>1. U \subseteq K
        BY <1>1, <1>2, <1>6, <1>9, <1>10
    <2>2. Cardinality(U) <= Cardinality(K)
        BY <1>4, <2>1, FS_Subset
    <2> QED
        BY <1>1, <1>4, <1>5, <1>10, <2>2
<1>11. CASE h[j] \notin E
    <2>1. K \subseteq U \ {j}
        <3> SUFFICES ASSUME NEW k \in K
                     PROVE  k \in U \ {j}
            OBVIOUS
        <3>1. k \in 1..Len(cs) /\ cs[k].stage = st /\ h[k] \in E
            BY <1>2
        <3>2. ~(j <= k)
            BY <1>1, <1>9, <1>11, <3>1
        <3>3. k <= j /\ k # j
            BY <1>7, <3>1, <3>2
        <3> QED
            BY <1>6, <3>1, <3>3
    <2>2. IsFiniteSet(U \ {j}) /\ Cardinality(U \ {j}) = Cardinality(U) - 1
        BY <1>6, FS_RemoveElement
    <2>3. Cardinality(K) <= Cardinality(U \ {j})
        BY <2>1, <2>2, FS_Subset
    <2>4. Cardinality(K) \in Nat
        BY <1>4, FS_CardinalityType
    <2> QED
        BY <1>1, <1>4, <1>5, <1>6, <1>11, <2>2, <2>3, <2>4
<1> QED
    BY <1>10, <1>11

LEMMA DoneCallsAre ==
    ASSUME NEW q, q.insns \in Seq(Insn), NEW cs \in Seq(KernelCall), NEW h, Whole(q, cs, h),
           NEW E, E \subseteq 1..Len(q.insns), Closed(E, q.insns)
    PROVE  DoneCalls(q.insns, cs, E) = CallsIn(cs, h, E)
<1>1. DOMAIN cs = 1..Len(cs)
    BY LenProperties
<1>2. \A j \in 1..Len(cs) : Cardinality(Upto(cs, j)) <= Cardinality(Carry(q.insns, E, cs[j].stage)) <=> h[j] \in E
    BY DoneAre DEF Whole
<1>3. {j \in DOMAIN cs : Cardinality(Upto(cs, j)) <= Cardinality(Carry(q.insns, E, cs[j].stage))}
         = {j \in 1..Len(cs) : h[j] \in E}
    BY <1>1, <1>2
<1> QED
    BY <1>3 DEF DoneCalls, CallsIn

\* Nothing is done before the device runs.
LEMMA DoneNone ==
    ASSUME NEW s, NEW cs \in Seq(KernelCall)
    PROVE  DoneCalls(s, cs, {}) = {}
<1>1. \A st : Carry(s, {}, st) = {}
    BY DEF Carry
<1>2. Cardinality({}) = 0
    BY FS_EmptySet
<1>3. DOMAIN cs = 1..Len(cs)
    BY LenProperties
<1>4. \A j \in DOMAIN cs : ~(Cardinality(Upto(cs, j)) <= Cardinality(Carry(s, {}, cs[j].stage)))
    <2> TAKE j \in DOMAIN cs
    <2>1. Cardinality(Upto(cs, j)) \in Nat /\ Cardinality(Upto(cs, j)) > 0
        BY <1>3, Uptos
    <2>2. Cardinality(Carry(s, {}, cs[j].stage)) = 0
        BY <1>1, <1>2
    <2> QED
        BY <2>1, <2>2
<1> QED
    BY <1>4 DEF DoneCalls
--------------------------------------------------------------------------------
(* The promise (TokenPipeline), seen in the host and the device. *)

CallsAt(cs, h, i) == {AskingIn(cs, m) : m \in {m \in 1..Len(cs) : h[m] = i}}

LEMMA SameCount == \A S : Promise!Cardinality(S) = Cardinality(S)
BY DEF Promise!Cardinality, Cardinality

LEMMA CallsAre ==
    ASSUME calls \in Seq(KernelCall)
    PROVE  /\ CallsMade = {AskingIn(calls, k) : k \in 1..Len(calls)}
           /\ CallsDone = DoneCalls(stream, calls, Executed)
<1>1. DOMAIN calls = 1..Len(calls) /\ \A k : AskingIn(calls, k) = Asking(k)
    BY LenProperties DEF AskingIn, Asking
<1>2. CallsMade = {AskingIn(calls, k) : k \in 1..Len(calls)}
    BY <1>1 DEF CallsMade
<1>3. \A k \in 1..Len(calls) : calls[k].stage \in Stage
    <2>1. \A c \in KernelCall : c.stage \in Stage
        BY Links DEF KernelCall, Work, Push, Pop
    <2> QED
        BY <2>1, ElementOfSeq
<1>4. PICK sofar : sofar = [s \in Stage |-> Done(s)]
    OBVIOUS
<1>5. \A j \in DOMAIN calls : sofar[calls[j].stage] = Cardinality(Carry(stream, Executed, calls[j].stage))
    BY <1>1, <1>3, <1>4 DEF Done, Carry
<1>6. \A j : CallsBefore(j) = Upto(calls, j)
    BY DEF CallsBefore, Upto
<1>7. {j \in DOMAIN calls : Cardinality(CallsBefore(j)) <= sofar[calls[j].stage]}
         = {j \in DOMAIN calls : Cardinality(Upto(calls, j)) <= Cardinality(Carry(stream, Executed, calls[j].stage))}
    BY <1>5, <1>6
<1>8. CallsDone = {Asking(k) : k \in {j \in DOMAIN calls : Cardinality(CallsBefore(j)) <= sofar[calls[j].stage]}}
    BY <1>4 DEF CallsDone
<1>9. CallsDone = DoneCalls(stream, calls, Executed)
    BY <1>1, <1>7, <1>8 DEF DoneCalls
<1> QED
    BY <1>2, <1>9

\* The same in the next state.
LEMMA CallsAreNext ==
    ASSUME calls' \in Seq(KernelCall)
    PROVE  /\ CallsMade' = {AskingIn(calls', k) : k \in 1..Len(calls')}
           /\ CallsDone' = DoneCalls(stream', calls', Executed')
<1>1. (calls \in Seq(KernelCall) =>
          /\ CallsMade = {AskingIn(calls, k) : k \in 1..Len(calls)}
          /\ CallsDone = DoneCalls(stream, calls, Executed))'
    BY CallsAre, PTL
<1> QED
    BY <1>1 DEF DoneCalls, AskingIn, Upto, Carry

\* A call more, or several.
Grown(cs, ds) ==
    /\ cs \in Seq(KernelCall) /\ ds \in Seq(KernelCall)
    /\ ds = cs \/ (Len(ds) > Len(cs) /\ \A k \in 1..Len(cs) : ds[k] = cs[k])

LEMMA CallsGrow ==
    ASSUME HostCall, ~serial, calls \in Seq(KernelCall), calls' \in Seq(KernelCall)
    PROVE  Grown(calls, calls')
<1>1. Len(calls) \in Nat
    BY LenProperties
<1>2. \A c : Len(Append(calls, c)) = Len(calls) + 1 /\ \A k \in 1..Len(calls) : Append(calls, c)[k] = calls[k]
    BY <1>1, AppendProperties
<1>3. PICK t : t = SyncCalls
    OBVIOUS
<1>4. t \in Seq(KernelCall) /\ Len(t) = 5
    <2>1. KernelCall # {} /\ Push(3, 2) \in KernelCall /\ Push(1, 2) \in KernelCall /\ Pop(3, 2) \in KernelCall
          /\ Pop(1, 2) \in KernelCall /\ Work(ComputeStage) \in KernelCall
        <3>1. /\ "l2g" \in Queue /\ "s2g" \in Queue /\ From["l2g"] = 1 /\ From["s2g"] = 3
              /\ To["l2g"] = 2 /\ To["s2g"] = 2
            BY DEF Queue, From, To
        <3>2. Push(From["l2g"], To["l2g"]) \in KernelCall /\ Push(From["s2g"], To["s2g"]) \in KernelCall
              /\ Pop(From["l2g"], To["l2g"]) \in KernelCall /\ Pop(From["s2g"], To["s2g"]) \in KernelCall
            BY <3>1, CallThings
        <3>3. Work(ComputeStage) \in KernelCall
            BY CallThings DEF ComputeStage, Stage, LoadStage, StoreStage
        <3> QED
            BY <3>1, <3>2, <3>3
    <2>2. t = <<Push(3, 2), Push(1, 2), Pop(3, 2), Pop(1, 2), Work(ComputeStage)>>
        BY <1>3 DEF SyncCalls
    <2> QED
        BY <2>1, <2>2
<1>5. ASSUME NEW cs \in Seq(KernelCall)
      PROVE  Len(cs) \in Nat /\ Len(cs \o t) = Len(cs) + 5 /\ \A k \in 1..Len(cs) : (cs \o t)[k] = cs[k]
    <2>1. Len(cs) \in Nat /\ Len(cs \o t) = Len(cs) + 5
        <3>1. Len(cs \o t) = Len(cs) + Len(t)
            BY <1>4, ConcatProperties
        <3> QED
            BY <1>4, <3>1, LenProperties
    <2>2. \A k \in 1..Len(cs) : k \in 1..Len(cs) + Len(t) /\ k <= Len(cs)
        BY <1>4, <2>1
    <2>3. \A k \in 1..Len(cs) : (cs \o t)[k] = cs[k]
        BY <1>4, <2>2, ConcatProperties
    <2> QED
        BY <2>1, <2>3
<1>6. ASSUME NEW q, NEW c \in KernelCall, CheckInsnOverFlow(q, Append(calls, c))
      PROVE  Len(calls') > Len(calls) /\ \A k \in 1..Len(calls) : calls'[k] = calls[k]
    <2>1. PICK cs : cs = Append(calls, c)
        OBVIOUS
    <2>2. cs \in Seq(KernelCall) /\ Len(cs) = Len(calls) + 1 /\ \A k \in 1..Len(calls) : k \in 1..Len(cs) /\ cs[k] = calls[k]
        BY <1>1, <1>2, <2>1, AppendProperties
    <2>3. calls' = cs \/ calls' = cs \o t
        BY <1>3, <1>6, <2>1 DEF CheckInsnOverFlow, Launch
    <2> QED
        BY <1>1, <1>5, <2>2, <2>3
<1>7. ASSUME NEW mem \in LoadMems, LoadBuffer2D(mem)
      PROVE  Grown(calls, calls')
    <2>1. GetMemPipelineStage(mem) \in Stage
        BY DEF GetMemPipelineStage, LoadStage, ComputeStage, Stage, StoreStage
    <2>2. Work(GetMemPipelineStage(mem)) \in KernelCall
        BY <2>1, CallThings
    <2> QED
        BY <1>6, <1>7, <2>2 DEF LoadBuffer2D, Grown
<1>8. CASE StoreBuffer2D
    <2>1. Work(StoreStage) \in KernelCall
        BY CallThings DEF Stage, LoadStage, StoreStage
    <2> QED
        BY <1>6, <1>8, <2>1 DEF StoreBuffer2D, Grown
<1>9. ASSUME NEW op \in Ops, NEW uopLoad \in UopLoads, PushOp(op, uopLoad)
      PROVE  Grown(calls, calls')
    <2>1. Work(ComputeStage) \in KernelCall
        BY CallThings DEF Stage, LoadStage, ComputeStage, StoreStage
    <2> QED
        BY <1>6, <1>9, <2>1 DEF PushOp, Grown
<1>10. ASSUME NEW l \in Link, DepPush(l[1], l[2]) \/ DepPop(l[1], l[2])
       PROVE  Grown(calls, calls')
    <2>1. PICK c : calls' = Append(calls, c)
        BY <1>10 DEF DepPush, DepPop
    <2>2. Len(calls') = Len(calls) + 1 /\ \A k \in 1..Len(calls) : calls'[k] = calls[k]
        BY <1>2, <2>1
    <2> QED
        BY <1>1, <2>2 DEF Grown
<1>11. ASSUME NEW mode \in SerialModes, SetDebugMode(mode)
       PROVE  Grown(calls, calls')
    BY <1>11 DEF SetDebugMode, Grown
<1>12. CASE Synchronize
    <2>1. calls' = calls \o t
        BY <1>3, <1>12 DEF Synchronize, Launch
    <2> QED
        BY <1>1, <1>5, <2>1 DEF Grown
<1> QED
    BY <1>7, <1>8, <1>9, <1>10, <1>11, <1>12 DEF HostCall

AsksMore(U, V) == U \subseteq V /\ V # U /\ \A o \in U : \A n \in V \ U : o.at < n.at

\* The kernel asks for more: what it asks comes after what it has asked.
LEMMA GrownIssue ==
    ASSUME NEW cs, NEW ds, Grown(cs, ds), ds # cs,
           NEW U, U = {AskingIn(cs, k) : k \in 1..Len(cs)}, NEW V, V = {AskingIn(ds, k) : k \in 1..Len(ds)}
    PROVE  AsksMore(U, V)
<1>1. /\ Len(cs) \in Nat /\ Len(ds) \in Nat /\ Len(ds) > Len(cs)
      /\ \A k \in 1..Len(cs) : k \in 1..Len(ds) /\ ds[k] = cs[k]
    BY LenProperties DEF Grown
<1>2. \A k \in 1..Len(cs) : AskingIn(ds, k) = AskingIn(cs, k)
    BY <1>1 DEF AskingIn
<1>3. \A k : AskingIn(ds, k).at = k /\ AskingIn(cs, k).at = k
    BY DEF AskingIn
<1>4. U \subseteq V
    BY <1>1, <1>2
<1>5. V # U
    <2>1. Len(ds) \in 1..Len(ds) /\ Len(ds) \notin 1..Len(cs)
        BY <1>1
    <2>2. AskingIn(ds, Len(ds)) \in V /\ AskingIn(ds, Len(ds)) \notin U
        BY <1>3, <2>1
    <2> QED
        BY <2>2
<1>6. ASSUME NEW o \in U, NEW n \in V \ U
      PROVE  o.at < n.at
    <2>1. PICK j \in 1..Len(cs) : o = AskingIn(cs, j)
        OBVIOUS
    <2>2. PICK k \in 1..Len(ds) : n = AskingIn(ds, k)
        OBVIOUS
    <2>3. k \notin 1..Len(cs)
        BY <1>2, <2>2
    <2> QED
        BY <1>1, <1>3, <2>1, <2>2, <2>3
<1> QED
    BY <1>4, <1>5, <1>6 DEF AsksMore
--------------------------------------------------------------------------------
(* What an instruction does when it executes. *)

LEMMA CallIs ==
    ASSUME NEW c \in KernelCall, NEW k \in Queue
    PROVE  /\ c.kind = "pop" /\ c.link = LinkOf[k] <=>
                 c.stage = To[k] /\ Thing(c) = IF Forward(k) THEN "popPrev" ELSE "popNext"
           /\ c.kind = "push" /\ c.link = LinkOf[k] <=>
                 c.stage = From[k] /\ Thing(c) = IF Forward(k) THEN "pushNext" ELSE "pushPrev"
<1>1. \A m \in Queue : LinkOf[m] = LinkOf[k] => m = k
    BY Links
<1>2. CASE c \in {Work(s) : s \in Stage}
    <2>1. c.kind = "work" /\ Thing(c) = "work"
        BY <1>2, CallThings
    <2> QED
        BY <2>1
<1>3. CASE c \in {Push(From[m], To[m]) : m \in Queue}
    <2>1. PICK m \in Queue : c = Push(From[m], To[m])
        BY <1>3
    <2>2. /\ c.stage = From[m] /\ c.kind = "push" /\ c.link = LinkOf[m]
          /\ Thing(c) = IF Forward(m) THEN "pushNext" ELSE "pushPrev"
        BY <2>1, CallThings
    <2> QED
        BY <1>1, <2>2, Links
<1>4. CASE c \in {Pop(From[m], To[m]) : m \in Queue}
    <2>1. PICK m \in Queue : c = Pop(From[m], To[m])
        BY <1>4
    <2>2. /\ c.stage = To[m] /\ c.kind = "pop" /\ c.link = LinkOf[m]
          /\ Thing(c) = IF Forward(m) THEN "popPrev" ELSE "popNext"
        BY <2>1, CallThings
    <2> QED
        BY <1>1, <2>2, Links
<1> QED
    BY <1>2, <1>3, <1>4 DEF KernelCall

ThingsAt(cs, h, i, st, x) ==
    {AskingIn(cs, m) : m \in {m \in 1..Len(cs) : h[m] = i /\ cs[m].stage = st /\ Thing(cs[m]) = x}}

\* Of the calls with a place i, one is a given thing to a stage if the instruction
\* stands for it, and none otherwise.
LEMMA OneThing ==
    ASSUME NEW q, NEW cs \in Seq(KernelCall), NEW h, Home(q, cs, h), NEW i \in 0..Len(q.insns), NEW st \in Stage,
           NEW x
    PROVE  Cardinality(ThingsAt(cs, h, i, st, x)) = IF x \in Stand(q, st, i) THEN 1 ELSE 0
<1>s. PICK S : S = ThingsAt(cs, h, i, st, x)
    OBVIOUS
<1>d. PICK D : D = {m \in 1..Len(cs) : h[m] = i /\ cs[m].stage = st /\ Thing(cs[m]) = x}
    OBVIOUS
<1>0. S = {AskingIn(cs, m) : m \in D}
    BY <1>s, <1>d DEF ThingsAt
<1>1. /\ \A m \in 1..Len(cs) : Thing(cs[m]) \in Stand(q, cs[m].stage, h[m])
      /\ \A a \in 1..Len(cs) : \A b \in 1..Len(cs) :
            cs[a].stage = cs[b].stage /\ h[a] = h[b] /\ Thing(cs[a]) = Thing(cs[b]) => a = b
      /\ x \in Stand(q, st, i) => \E m \in 1..Len(cs) : cs[m].stage = st /\ h[m] = i /\ Thing(cs[m]) = x
    BY DEF Home
<1>2. CASE x \in Stand(q, st, i)
    <2>1. PICK m \in 1..Len(cs) : cs[m].stage = st /\ h[m] = i /\ Thing(cs[m]) = x
        BY <1>1, <1>2
    <2>2. \A b \in D : b = m
        BY <1>d, <1>1, <2>1
    <2>3. D = {m}
        BY <1>d, <2>1, <2>2
    <2>4. S = {AskingIn(cs, m)}
        BY <1>0, <2>3
    <2> QED
        BY <1>s, <1>2, <2>4, FS_Singleton
<1>3. CASE x \notin Stand(q, st, i)
    <2>1. D = {}
        BY <1>d, <1>1, <1>3
    <2>2. S = {}
        BY <1>0, <2>1
    <2> QED
        BY <1>s, <1>3, <2>2, FS_EmptySet
<1> QED
    BY <1>2, <1>3

Moving(doing, kind, l) == Cardinality({o \in doing : o.kind = kind /\ o.link = l})

\* An instruction's calls pop its queues and push its queues.
LEMMA MovedAt ==
    ASSUME NEW q, q.insns \in Seq(Insn), NEW cs \in Seq(KernelCall), NEW h, Home(q, cs, h),
           NEW i \in DOMAIN q.insns, FlagsHaveQueues(q.insns[i]), NEW k \in Queue,
           NEW doing, doing = CallsAt(cs, h, i)
    PROVE  /\ Moving(doing, "pop", LinkOf[k]) = IF k \in PopQueues(q.insns[i]) THEN 1 ELSE 0
           /\ Moving(doing, "push", LinkOf[k]) = IF k \in PushQueues(q.insns[i]) THEN 1 ELSE 0
<1>1. /\ \A m \in 1..Len(cs) : cs[m] \in KernelCall
      /\ \A m : /\ AskingIn(cs, m).kind = cs[m].kind /\ AskingIn(cs, m).link = cs[m].link
    BY ElementOfSeq DEF AskingIn
<1>2. PICK insn : insn = q.insns[i]
    OBVIOUS
<1>3. /\ insn \in Insn /\ Len(q.insns) \in Nat /\ i \in 0..Len(q.insns) /\ i # 0
      /\ From[k] \in Stage /\ To[k] \in Stage
    BY <1>2, LenProperties, ElementOfSeq, Links
<1>4. \A st \in Stage : Stand(q, st, i) = IF On(insn, st) THEN StandsFor(insn) ELSE {}
    BY <1>2, <1>3 DEF Stand
<1>5. \E st \in Stage : On(insn, st)
    <2>1. GetCoreType(insn) \in {"LOAD", "GEMM", "STORE"}
        BY DEF GetCoreType
    <2>2. 1 \in Stage /\ 2 \in Stage /\ 3 \in Stage
        BY DEF Stage, LoadStage, StoreStage
    <2> QED
        BY <2>1, <2>2 DEF On, CoreOf
<1>6. /\ k \in PopQueues(insn) <=> On(insn, To[k]) /\ IF Forward(k) THEN insn.popPrev ELSE insn.popNext
      /\ k \in PushQueues(insn) <=> On(insn, From[k]) /\ IF Forward(k) THEN insn.pushNext ELSE insn.pushPrev
    <2>1. PICK st \in Stage : On(insn, st)
        BY <1>5
    <2>2. /\ k \in PopQueues(insn) <=> To[k] = st /\ IF Forward(k) THEN insn.popPrev ELSE insn.popNext
          /\ k \in PushQueues(insn) <=> From[k] = st /\ IF Forward(k) THEN insn.pushNext ELSE insn.pushPrev
        BY <1>2, <1>3, <2>1, Flags
    <2>3. \A u \in Stage : On(insn, u) <=> u = st
        BY <2>1, OneStage
    <2> QED
        BY <1>3, <2>2, <2>3
<1>7. Cardinality({o \in doing : o.kind = "pop" /\ o.link = LinkOf[k]})
         = IF k \in PopQueues(insn) THEN 1 ELSE 0
    <2>1. PICK x : x = IF Forward(k) THEN "popPrev" ELSE "popNext"
        OBVIOUS
    <2>2. PICK S : S = ThingsAt(cs, h, i, To[k], x)
        OBVIOUS
    <2>4. \A m \in 1..Len(cs) : cs[m].kind = "pop" /\ cs[m].link = LinkOf[k] <=> cs[m].stage = To[k] /\ Thing(cs[m]) = x
        BY <1>1, <2>1, CallIs
    <2>5. \A z : z \in {o \in doing : o.kind = "pop" /\ o.link = LinkOf[k]} <=> z \in S
        BY <1>1, <2>2, <2>4 DEF CallsAt, ThingsAt
    <2>6. {o \in doing : o.kind = "pop" /\ o.link = LinkOf[k]} = S
        BY <2>5
    <2>7. Cardinality(S) = IF x \in Stand(q, To[k], i) THEN 1 ELSE 0
        BY <1>3, <2>2, OneThing
    <2>8. x \in Stand(q, To[k], i) <=> k \in PopQueues(insn)
        BY <1>3, <1>4, <1>6, <2>1, Things
    <2> QED
        BY <2>6, <2>7, <2>8
<1>8. Cardinality({o \in doing : o.kind = "push" /\ o.link = LinkOf[k]})
         = IF k \in PushQueues(insn) THEN 1 ELSE 0
    <2>1. PICK x : x = IF Forward(k) THEN "pushNext" ELSE "pushPrev"
        OBVIOUS
    <2>2. PICK S : S = ThingsAt(cs, h, i, From[k], x)
        OBVIOUS
    <2>4. \A m \in 1..Len(cs) : cs[m].kind = "push" /\ cs[m].link = LinkOf[k] <=> cs[m].stage = From[k] /\ Thing(cs[m]) = x
        BY <1>1, <2>1, CallIs
    <2>5. \A z : z \in {o \in doing : o.kind = "push" /\ o.link = LinkOf[k]} <=> z \in S
        BY <1>1, <2>2, <2>4 DEF CallsAt, ThingsAt
    <2>6. {o \in doing : o.kind = "push" /\ o.link = LinkOf[k]} = S
        BY <2>5
    <2>7. Cardinality(S) = IF x \in Stand(q, From[k], i) THEN 1 ELSE 0
        BY <1>3, <2>2, OneThing
    <2>8. x \in Stand(q, From[k], i) <=> k \in PushQueues(insn)
        BY <1>3, <1>4, <1>6, <2>1, Things
    <2> QED
        BY <2>6, <2>7, <2>8
<1> QED
    BY <1>2, <1>7, <1>8 DEF Moving

\* All the calls are placed.
LEMMA AllIn ==
    ASSUME NEW q, q.insns \in Seq(Insn), NEW cs \in Seq(KernelCall), NEW h, Whole(q, cs, h)
    PROVE  CallsIn(cs, h, 1..Len(q.insns)) = {AskingIn(cs, k) : k \in 1..Len(cs)}
<1>1. \A k \in 1..Len(cs) : h[k] \in 1..Len(q.insns)
    BY LenProperties DEF Whole, Home
<1>2. {j \in 1..Len(cs) : h[j] \in 1..Len(q.insns)} = 1..Len(cs)
    BY <1>1
<1> QED
    BY <1>2 DEF CallsIn

InTurn(asked, before, after, doing) ==
    /\ before \subseteq after /\ after \subseteq asked /\ after \ before = doing
    /\ \A o \in after \ before : \A p \in asked \ after : p.stage = o.stage => p.at >= o.at

\* Placed in an order, the calls are done in an order.
LEMMA DoneInOrder ==
    ASSUME NEW q, q.insns \in Seq(Insn), NEW cs \in Seq(KernelCall), NEW h, Whole(q, cs, h),
           NEW E, NEW i \in DOMAIN q.insns, i \notin E, Closed(E \cup {i}, q.insns),
           NEW F, F = E \cup {i}
    PROVE  InTurn(CallsIn(cs, h, 1..Len(q.insns)), CallsIn(cs, h, E), CallsIn(cs, h, F), CallsAt(cs, h, i))
<1>p. PICK U : U = CallsIn(cs, h, E)
    OBVIOUS
<1>q. PICK V : V = CallsIn(cs, h, F)
    OBVIOUS
<1>r. PICK W : W = CallsIn(cs, h, 1..Len(q.insns))
    OBVIOUS
<1>1. \A k : AskingIn(cs, k).at = k /\ AskingIn(cs, k).stage = cs[k].stage
    BY DEF AskingIn
<1>u. /\ U = {AskingIn(cs, k) : k \in {j \in 1..Len(cs) : h[j] \in E}}
      /\ V = {AskingIn(cs, k) : k \in {j \in 1..Len(cs) : h[j] \in E \cup {i}}}
    BY <1>p, <1>q DEF CallsIn
<1>w. W = {AskingIn(cs, k) : k \in 1..Len(cs)}
    BY <1>r, AllIn
<1>2. U \subseteq V /\ V \subseteq W
    BY <1>u, <1>w
<1>3. V \ U = CallsAt(cs, h, i)
    <2>1. ASSUME NEW o
          PROVE  o \in V \ U <=> o \in CallsAt(cs, h, i)
        <3>1. ASSUME o \in V \ U
              PROVE  o \in CallsAt(cs, h, i)
            <4>1. PICK k \in 1..Len(cs) : o = AskingIn(cs, k) /\ h[k] \in E \cup {i}
                BY <1>u, <3>1
            <4>2. h[k] = i
                BY <1>u, <3>1, <4>1
            <4> QED
                BY <4>1, <4>2 DEF CallsAt
        <3>2. ASSUME o \in CallsAt(cs, h, i)
              PROVE  o \in V \ U
            <4>1. PICK k \in 1..Len(cs) : o = AskingIn(cs, k) /\ h[k] = i
                BY <3>2 DEF CallsAt
            <4>2. o \in V
                BY <1>u, <4>1
            <4>3. o \notin U
                <5> SUFFICES ASSUME NEW j \in 1..Len(cs), o = AskingIn(cs, j), h[j] \in E
                             PROVE  FALSE
                    BY <1>u
                <5>1. o.at = j /\ o.at = k
                    BY <1>1, <4>1
                <5> QED
                    BY <4>1, <5>1
            <4> QED
                BY <4>2, <4>3
        <3> QED
            BY <3>1, <3>2
    <2> QED
        BY <2>1
<1>4. ASSUME NEW o \in V \ U, NEW p \in W \ V, p.stage = o.stage
      PROVE  p.at >= o.at
    <2>1. PICK k \in 1..Len(cs) : o = AskingIn(cs, k) /\ h[k] = i
        BY <1>3 DEF CallsAt
    <2>2. PICK j \in 1..Len(cs) : p = AskingIn(cs, j) /\ h[j] \notin E \cup {i}
        BY <1>u, <1>w
    <2>3. cs[j].stage = cs[k].stage /\ p.at = j /\ o.at = k /\ Len(cs) \in Nat
        BY <1>1, <1>4, <2>1, <2>2, LenProperties
    <2>4. CASE j < k
        <3>1. h[j] # 0 /\ h[j] <= h[k]
            BY <2>3, <2>4 DEF Whole, Home
        <3>2. Len(q.insns) \in Nat /\ DOMAIN q.insns = 1..Len(q.insns)
            BY LenProperties
        <3>3. h[j] \in 0..Len(q.insns) /\ Thing(cs[j]) \in Stand(q, cs[j].stage, h[j])
              /\ Thing(cs[k]) \in Stand(q, cs[k].stage, h[k])
            BY DEF Whole, Home
        <3>4. h[j] \in DOMAIN q.insns /\ h[j] < i
            BY <2>1, <2>2, <3>1, <3>2, <3>3
        <3>5. GetCoreType(q.insns[h[j]]) = GetCoreType(q.insns[i])
            <4>1. i # 0 /\ h[j] # 0
                BY <3>1, <3>2
            <4> QED
                BY <2>1, <2>3, <3>3, <4>1 DEF Stand, On
        <3>6. h[j] \in E \cup {i}
            BY <3>4, <3>5 DEF Closed
        <3> QED
            BY <2>2, <3>6
    <2> QED
        BY <2>3, <2>4
<1> QED
    BY <1>p, <1>q, <1>r, <1>2, <1>3, <1>4 DEF InTurn

LEMMA LinksOfQueues == \A l \in Link : QueueOf(l) \in Queue /\ LinkOf[QueueOf(l)] = l
<1>1. \A l \in Link : \E k \in Queue : LinkOf[k] = l
    BY Links
<1> QED
    BY <1>1 DEF QueueOf

\* What has executed comes before what has not, on each core.
LEMMA ExecutedFirst == Tokens /\ running => Closed(Executed, stream) /\ Executed \subseteq DOMAIN stream
<1> SUFFICES ASSUME Tokens, running
             PROVE  Closed(Executed, stream) /\ Executed \subseteq DOMAIN stream
    OBVIOUS
<1>1. Executed = DOMAIN stream \ Dev!Pending
    BY SameSteps DEF Executed
<1>2. \A c \in Dev!Core : \A i \in insnq[c] : \A j \in DOMAIN stream :
          /\ GetCoreType(stream[i]) = c
          /\ GetCoreType(stream[j]) = c /\ j > i => j \in insnq[c]
    BY SameInsns DEF Tokens, Dev!InOrder
<1>3. stream \in Seq(Insn) /\ DOMAIN stream = 1..Len(stream) /\ Len(stream) \in Nat
    <2>1. stream \in Seq(Insn)
        BY SameInsns DEF Tokens, Dev!TypeOK
    <2> QED
        BY <2>1, LenProperties
<1>4. ASSUME NEW i \in Executed, NEW j \in DOMAIN stream, j < i, GetCoreType(stream[j]) = GetCoreType(stream[i])
      PROVE  j \in Executed
    <2> SUFFICES ASSUME j \in Dev!Pending
                 PROVE  FALSE
        BY <1>1
    <2>1. PICK c \in Dev!Core : j \in insnq[c]
        BY DEF Dev!Pending
    <2>2. i \in DOMAIN stream /\ i > j
        BY <1>1, <1>3, <1>4
    <2>3. i \in insnq[c]
        BY <1>2, <1>4, <2>1, <2>2
    <2> QED
        BY <1>1, <2>1, <2>3 DEF Dev!Pending
<1> QED
    BY <1>1, <1>4 DEF Closed

\* The device has a place for every call of the batch: no pop is pending.
LEMMA AllPlaced ==
    ASSUME NEW q, ~PendingPop(q), NEW cs \in Seq(KernelCall), NEW h, Home(q, cs, h)
    PROVE  Whole(q, cs, h)
<1> SUFFICES ASSUME NEW k \in 1..Len(cs), h[k] = 0
             PROVE  FALSE
    BY DEF Whole
<1>1. cs[k].stage \in Stage
    <2>1. \A c \in KernelCall : c.stage \in Stage
        BY Links DEF KernelCall, Work, Push, Pop
    <2> QED
        BY <2>1, ElementOfSeq
<1>2. Thing(cs[k]) \in PendingOf(q, cs[k].stage)
    BY DEF Home, Stand
<1> QED
    BY <1>1, <1>2, Things DEF PendingPop

\* An instruction executes: its stage does the calls the instruction stands for.
LEMMA ExecuteAdvances ==
    ASSUME HInv, ~serial, Housed(iq, calls), Tokens, Tokens', Dev!Execute, status = "device", UNCHANGED hostVars
    PROVE  Promise!Advance \/ UNCHANGED <<CallsMade, CallsDone, TokensHeld>>
<1>1. PICK i : i = Dev!Front(Head(agenda))
    OBVIOUS
<1>2. /\ i \in DOMAIN stream /\ stream[i] \in Insn /\ i \in Dev!Pending /\ Dev!Pending' = Dev!Pending \ {i}
      /\ stream' = stream /\ running /\ running' /\ Dev!Ready(stream[i]) /\ tok' = Dev!TokAfter(stream[i])
    BY <1>1, DevStreams, SameInsns, Dev!ExecuteRemovesFront DEF Tokens, Dev!Execute
<1>3. PICK E : E = Executed
    OBVIOUS
<1>4. Executed' = E \cup {i} /\ i \notin E /\ E \subseteq DOMAIN stream /\ Closed(E, stream) /\ Closed(E \cup {i}, stream)
    <2>1. Executed = DOMAIN stream \ Dev!Pending
        BY <1>2, SameSteps DEF Executed
    <2>2. Sim!Pending' = Dev!Pending'
        BY DEF Sim!Pending, Dev!Pending, Sim!Core, Dev!Core
    <2>3. Executed' = DOMAIN stream \ (Dev!Pending \ {i})
        BY <1>2, <2>2 DEF Executed
    <2>4. Executed' = E \cup {i} /\ i \notin E
        BY <1>2, <1>3, <2>1, <2>3
    <2>5. (Tokens /\ running => Closed(Executed, stream) /\ Executed \subseteq DOMAIN stream)'
        BY ExecutedFirst, PTL
    <2>6. Closed(Executed', stream')
        BY <1>2, <2>5 DEF Closed
    <2>7. Closed(E, stream) /\ E \subseteq DOMAIN stream
        BY <1>2, <1>3, ExecutedFirst
    <2> QED
        BY <1>2, <2>4, <2>6, <2>7
<1>5. /\ iq.insns = stream /\ iq.insns \in Seq(Insn) /\ ~PendingPop(iq) /\ FlagsHaveQueues(stream[i])
      /\ DOMAIN stream = 1..Len(stream) /\ calls \in Seq(KernelCall) /\ calls' = calls
    <2>1. iq.insns = stream /\ iq.insns \in Seq(Insn) /\ ~PendingPop(iq)
        BY <1>2 DEF Tokens, HInv, Batch, Sent, QueueT
    <2>2. FlagsHaveQueues(stream[i])
        BY <1>2, <2>1 DEF HInv, Batch, Sent
    <2> QED
        BY <2>1, <2>2, LenProperties DEF Housed, hostVars
<1>a. iq.insns \in Seq(Insn) /\ calls \in Seq(KernelCall)
    BY <1>5
<1>6. PICK h : Home(iq, calls, h)
    BY DEF Housed
<1>7. Whole(iq, calls, h)
    BY <1>5, <1>6, AllPlaced
<1>8. CallsDone = CallsIn(calls, h, E)
    <2>1. CallsDone = DoneCalls(stream, calls, E)
        BY <1>3, <1>5, CallsAre
    <2>2. E \subseteq 1..Len(iq.insns) /\ Closed(E, iq.insns)
        BY <1>4, <1>5
    <2>3. DoneCalls(iq.insns, calls, E) = CallsIn(calls, h, E)
        BY <1>a, <1>7, <2>2, DoneCallsAre
    <2> QED
        BY <1>5, <2>1, <2>3
<1>9. CallsDone' = CallsIn(calls, h, E \cup {i})
    <2>1. CallsDone' = DoneCalls(stream, calls, E \cup {i})
        BY <1>2, <1>4, <1>5, CallsAreNext
    <2>2. PICK F : F = E \cup {i}
        OBVIOUS
    <2>3. F \subseteq 1..Len(iq.insns) /\ Closed(F, iq.insns)
        BY <1>2, <1>4, <1>5, <2>2
    <2>4. DoneCalls(iq.insns, calls, F) = CallsIn(calls, h, F)
        BY <1>a, <1>7, <2>3, DoneCallsAre
    <2> QED
        BY <1>5, <2>1, <2>2, <2>4
<1>10. CallsMade = CallsIn(calls, h, 1..Len(iq.insns)) /\ CallsMade' = CallsMade
    <2>1. CallsMade = {AskingIn(calls, k) : k \in 1..Len(calls)}
        BY <1>5, CallsAre
    <2>2. CallsMade' = {AskingIn(calls, k) : k \in 1..Len(calls)}
        BY <1>5, CallsAreNext
    <2> QED
        BY <1>a, <1>7, <2>1, <2>2, AllIn
<1>11. PICK doing : doing = CallsAt(calls, h, i)
    OBVIOUS
<1>12. /\ CallsDone \subseteq CallsDone' /\ CallsDone' \subseteq CallsMade /\ CallsDone' \ CallsDone = doing
       /\ \A o \in CallsDone' \ CallsDone : \A p \in CallsMade \ CallsDone' : p.stage = o.stage => p.at >= o.at
    <2>1. i \in DOMAIN iq.insns /\ i \notin E /\ Closed(E \cup {i}, iq.insns)
        BY <1>2, <1>4, <1>5
    <2>2. PICK F : F = E \cup {i}
        OBVIOUS
    <2>3. InTurn(CallsIn(calls, h, 1..Len(iq.insns)), CallsIn(calls, h, E), CallsIn(calls, h, F), CallsAt(calls, h, i))
        BY <1>a, <1>7, <2>1, <2>2, DoneInOrder
    <2> QED
        BY <1>8, <1>9, <1>10, <1>11, <2>2, <2>3 DEF InTurn
<1>13. ASSUME NEW l \in Link
       PROVE  /\ TokensHeld[l] \in Nat
              /\ Moving(doing, "pop", l) <= TokensHeld[l]
              /\ TokensHeld'[l] = TokensHeld[l] - Moving(doing, "pop", l)
                                                + Moving(doing, "push", l)
    <2>1. PICK k \in Queue : k = QueueOf(l) /\ LinkOf[k] = l
        BY LinksOfQueues
    <2>2. /\ Moving(doing, "pop", l) = IF k \in PopQueues(stream[i]) THEN 1 ELSE 0
          /\ Moving(doing, "push", l) = IF k \in PushQueues(stream[i]) THEN 1 ELSE 0
        <3>1. i \in DOMAIN iq.insns /\ FlagsHaveQueues(iq.insns[i])
            BY <1>2, <1>5
        <3>2. /\ Moving(doing, "pop", LinkOf[k]) = IF k \in PopQueues(iq.insns[i]) THEN 1 ELSE 0
              /\ Moving(doing, "push", LinkOf[k]) = IF k \in PushQueues(iq.insns[i]) THEN 1 ELSE 0
            BY <1>a, <1>6, <1>11, <3>1, MovedAt
        <3> QED
            BY <1>5, <2>1, <3>2
    <2>3. TokensHeld[l] = tok[k] /\ TokensHeld'[l] = tok'[k] /\ tok[k] \in Nat
        BY <2>1, SameInsns DEF TokensHeld, Tokens, Dev!TypeOK
    <2>4. tok'[k] = LET popped == IF k \in PopQueues(stream[i]) THEN tok[k] - 1 ELSE tok[k]
                    IN  IF k \in PushQueues(stream[i]) THEN popped + 1 ELSE popped
        BY <1>2, SameInsns DEF Dev!TokAfter
    <2>5. k \in PopQueues(stream[i]) => tok[k] > 0
        BY <1>2, SameInsns DEF Dev!Ready
    <2> QED
        BY <2>2, <2>3, <2>4, <2>5
<1>14. CASE doing = {}
    <2>1. CallsDone' = CallsDone
        BY <1>12, <1>14
    <2>2. \A l \in Link : TokensHeld'[l] = TokensHeld[l]
        <3> TAKE l \in Link
        <3>1. {o \in doing : o.kind = "pop" /\ o.link = l} = {} /\ {o \in doing : o.kind = "push" /\ o.link = l} = {}
            BY <1>14
        <3>2. Cardinality({}) = 0
            BY FS_EmptySet
        <3>3. TokensHeld'[l] = TokensHeld[l] - 0 + 0 /\ TokensHeld[l] \in Nat
            BY <1>13, <3>1, <3>2 DEF Moving
        <3> QED
            BY <3>3
    <2>3. TokensHeld' = TokensHeld
        BY <2>2 DEF TokensHeld
    <2> QED
        BY <1>10, <2>1, <2>3
<1>15. CASE doing # {}
    <2>1. \A l \in Link : Moving(doing, "pop", l) <= TokensHeld[l]
        BY <1>13
    <2>2. TokensHeld' = [l \in Link |-> TokensHeld[l]
                            - Moving(doing, "pop", l)
                            + Moving(doing, "push", l)]
        <3>1. TokensHeld' = [l \in Link |-> TokensHeld'[l]]
            BY DEF TokensHeld
        <3>2. \A l \in Link : TokensHeld'[l] = TokensHeld[l]
                            - Moving(doing, "pop", l)
                            + Moving(doing, "push", l)
            BY <1>13
        <3> QED
            BY <3>1, <3>2
    <2> QED
        BY <1>10, <1>12, <1>15, <2>1, <2>2, SameCount DEF Promise!Advance, Moving
<1> QED
    BY <1>14, <1>15
--------------------------------------------------------------------------------
(* The steps of the host and the device are steps of the promise. *)

\* A call asks for more; nothing of it is done before the device runs.
LEMMA CallIssues ==
    ASSUME HInv, HInv', ~serial, Tokens, Housed(iq, calls), Housed(iq', calls'), Call
    PROVE  Promise!Issue \/ UNCHANGED <<CallsMade, CallsDone, TokensHeld>>
<1>1. ~running /\ HostCall
    BY DEF Call, HostCall, LoadBuffer2D, StoreBuffer2D, PushOp, DepPush, DepPop, SetDebugMode,
           Synchronize, Spend, Tokens
<1>2. calls \in Seq(KernelCall) /\ calls' \in Seq(KernelCall)
    BY DEF Housed
<1>3. Executed' = {} /\ tok' = tok
    <2>1. CASE status' = "device"
        <3>1. Dev!Run(iq'.insns) /\ iq'.insns \in Seq(Insn)
            BY <2>1, SameSteps DEF Call, HInv, Batch, Sent, QueueT
        <3>2. Dev!Pending' = DOMAIN stream' /\ tok' = tok
            BY <1>1, <3>1, DevStreams, Dev!RunPending DEF Tokens, Dev!Run
        <3>3. Sim!Pending' = Dev!Pending'
            BY DEF Sim!Pending, Dev!Pending, Sim!Core, Dev!Core
        <3> QED
            BY <3>2, <3>3 DEF Executed
    <2>2. CASE status' # "device"
        <3>1. tok' = tok /\ ~running'
            BY <1>1, <2>2 DEF Call, simVars
        <3> QED
            BY <3>1 DEF Executed
    <2> QED
        BY <2>1, <2>2
<1>4. CallsDone = {}
    <2>1. Executed = {}
        BY <1>1 DEF Executed
    <2> QED
        BY <1>2, <2>1, CallsAre, DoneNone
<1>5. CallsDone' = {}
    <2>1. CallsDone' = DoneCalls(stream', calls', {})
        BY <1>2, <1>3, CallsAreNext
    <2> QED
        BY <1>2, <2>1, DoneNone
<1>6. TokensHeld' = TokensHeld
    BY <1>3 DEF TokensHeld
<1>7. Grown(calls, calls')
    BY <1>1, <1>2, CallsGrow
<1>8. PICK U : U = {AskingIn(calls, k) : k \in 1..Len(calls)}
    OBVIOUS
<1>9. PICK V : V = {AskingIn(calls', k) : k \in 1..Len(calls')}
    OBVIOUS
<1>10. CallsMade = U /\ CallsMade' = V
    BY <1>2, <1>8, <1>9, CallsAre, CallsAreNext
<1>11. CASE calls' = calls
    BY <1>4, <1>5, <1>6, <1>8, <1>9, <1>10, <1>11
<1>12. CASE calls' # calls
    <2>1. AsksMore(U, V)
        BY <1>7, <1>8, <1>9, <1>12, GrownIssue
    <2> QED
        BY <1>4, <1>5, <1>6, <1>10, <2>1 DEF Promise!Issue, AsksMore
<1> QED
    BY <1>11, <1>12

\* Synchronize returns when the device has done every call.
LEMMA ReturnSettles ==
    ASSUME HInv, ~serial, LeftInv, Tokens, Housed(iq, calls), DeviceStep, ~running'
    PROVE  Promise!Settle
<1>1. status = "device" /\ running /\ Dev!Step /\ stream = iq.insns /\ DeviceReturns
    BY SameSteps DEF DeviceStep, Tokens
<1>2. agenda = <<>> /\ event = <<>> /\ tok' = tok
    BY <1>1 DEF Dev!Step, Dev!Execute, Dev!Yield, Dev!Wake, Dev!Rescan, Dev!Return
<1>3. Dev!Pending = {}
    <2>1. Dev!Items(<<>>) = {}
        BY DEF Dev!Items
    <2>2. \A c \in Dev!Core : ~Dev!CanRun(c)
        BY <1>1, <1>2, <2>1 DEF Tokens, Dev!NoMissedWake
    <2> QED
        BY <1>1, <2>2, TokensCanRun DEF Dev!SomeCoreCanRun
<1>4. PICK E : E = Executed
    OBVIOUS
<1>5. /\ iq.insns \in Seq(Insn) /\ ~PendingPop(iq) /\ calls \in Seq(KernelCall)
      /\ E = 1..Len(iq.insns) /\ Closed(E, iq.insns)
    <2>1. iq.insns \in Seq(Insn) /\ ~PendingPop(iq) /\ calls \in Seq(KernelCall)
        BY <1>1 DEF HInv, Batch, Sent, QueueT, Housed
    <2>2. E = DOMAIN iq.insns
        BY <1>1, <1>3, <1>4, SameSteps DEF Executed
    <2>3. Closed(E, iq.insns)
        BY <1>1, <1>4, ExecutedFirst
    <2> QED
        BY <2>1, <2>2, <2>3, LenProperties
<1>6. PICK h : Whole(iq, calls, h)
    BY <1>5, AllPlaced DEF Housed
<1>7. CallsDone = CallsMade
    <2>1. CallsDone = DoneCalls(iq.insns, calls, E)
        BY <1>1, <1>4, <1>5, CallsAre
    <2>2. DoneCalls(iq.insns, calls, E) = CallsIn(calls, h, E)
        BY <1>5, <1>6, DoneCallsAre
    <2>3. CallsIn(calls, h, E) = CallsMade
        BY <1>5, <1>6, AllIn, CallsAre
    <2> QED
        BY <2>1, <2>2, <2>3
<1>8. CallsMade' = {} /\ CallsDone' = {}
    <2>1. calls' = <<>>
        BY <1>1 DEF DeviceReturns
    <2>2. CallsMade' = {}
        BY <2>1 DEF CallsMade
    <2>3. CallsDone' = {}
        BY <2>1 DEF CallsDone
    <2> QED
        BY <2>2, <2>3
<1>9. TokensHeld' = TokensHeld
    BY <1>2 DEF TokensHeld
<1> QED
    BY <1>7, <1>8, <1>9 DEF Promise!Settle

\* What the promise sees depends on these only.
LEMMA Unseen ==
    ASSUME UNCHANGED <<calls, stream, insnq, tok, running>>
    PROVE  UNCHANGED <<CallsMade, CallsDone, TokensHeld>>
<1>1. Executed' = Executed
    BY DEF Executed, Sim!Pending
<1>2. \A s : Done(s)' = Done(s)
    BY <1>1 DEF Done
<1>3. \A k : Asking(k)' = Asking(k) /\ CallsBefore(k)' = CallsBefore(k)
    BY DEF Asking, CallsBefore
<1> QED
    BY <1>2, <1>3 DEF CallsMade, CallsDone, TokensHeld

LEMMA StepsKeepPromise ==
    ASSUME HInv, HInv', ~serial, LeftInv, Tokens, Tokens', Housed(iq, calls), Housed(iq', calls'), [Next]_allVars
    PROVE  [Promise!Next]_(Promise!specVars)
<1>1. CASE Call
    BY <1>1, CallIssues DEF Promise!Next, Promise!specVars
<1>2. CASE DeviceStep /\ ~running'
    BY <1>2, ReturnSettles DEF Promise!Next
<1>3. CASE DeviceStep /\ running'
    <2>1. status = "device" /\ Dev!Step /\ UNCHANGED hostVars
        BY <1>3, SameSteps DEF DeviceStep
    <2>2. CASE Dev!Execute
        BY <2>1, <2>2, ExecuteAdvances DEF Promise!Next, Promise!specVars
    <2>3. CASE Dev!Yield \/ Dev!Wake \/ Dev!Rescan
        <3>1. UNCHANGED <<calls, stream, insnq, tok, running>>
            BY <2>1, <2>3 DEF Dev!Yield, Dev!Wake, Dev!Rescan, hostVars
        <3> QED
            BY <3>1, Unseen DEF Promise!specVars
    <2>4. ~Dev!Return
        BY <1>3 DEF Dev!Return
    <2> QED
        BY <2>1, <2>2, <2>3, <2>4 DEF Dev!Step
<1>4. CASE UNCHANGED allVars
    <2>1. UNCHANGED <<calls, stream, insnq, tok, running>>
        BY <1>4 DEF allVars, hostVars, simVars
    <2> QED
        BY <2>1, Unseen DEF Promise!specVars
<1> QED
    BY <1>1, <1>2, <1>3, <1>4 DEF Next

\* The functional simulator behind the runtime's queue is the token pipeline
\* that the API promises: every stage does its calls in the order they were
\* made, finds the tokens it pops, and Synchronize returns when every stage has
\* done all; whatever was merged, deferred or filled with no-ops, and wherever
\* AutoSync cuts a kernel.  The one condition is that nothing is serialized.
THEOREM SimIsTokenPipeline == TRUE \notin SerialModes => (Spec => RefinesTokenPipeline)
<1> SUFFICES ASSUME TRUE \notin SerialModes
             PROVE  Spec => RefinesTokenPipeline
    OBVIOUS
<1>1. HostSpec => []~serial
    BY NeverSerial
<1>2. HostSpec => []HInv
    BY HAlways
<1> DEFINE Placings == Housed(iq, calls)
<1>3. Init => LeftInv /\ Tokens /\ Placings
    BY TokensInit, HousedInit DEF Init
<1>4. HInv /\ HInv' /\ ~serial /\ LeftInv /\ Tokens /\ Placings /\ [Next]_allVars => (LeftInv /\ Tokens /\ Placings)'
    BY TokensNext, HousedNext, HostStep
<1>5. Init => Promise!Init
    <2> SUFFICES ASSUME Init
                 PROVE  Promise!Init
        OBVIOUS
    <2>1. calls = <<>> /\ tok = [q \in Queue |-> 0]
        BY SameSteps, SameInsns DEF Init, HostInit, Dev!Init
    <2>2. CallsMade = {} /\ CallsDone = {}
        BY <2>1 DEF CallsMade, CallsDone
    <2>3. TokensHeld = [l \in Link |-> 0]
        BY <2>1, LinksOfQueues DEF TokensHeld
    <2> QED
        BY <2>2, <2>3 DEF Promise!Init
<1>6. HInv /\ HInv' /\ ~serial /\ LeftInv /\ Tokens /\ Tokens' /\ Placings /\ Placings' /\ [Next]_allVars
        => [Promise!Next]_(Promise!specVars)
    BY StepsKeepPromise
<1> QED
    BY <1>1, <1>2, <1>3, <1>4, <1>5, <1>6, HostSide, PTL DEF Spec, RefinesTokenPipeline, Promise!Spec
================================================================================
