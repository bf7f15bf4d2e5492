----------------------------- MODULE RtlCore_proofs ----------------------------
(***************************************************************************)
(* The RTL core, for any streams the runtime launches, any number of slots *)
(* in its instruction memory and any burst: what is fetched is dispatched  *)
(* in order from a memory that stays consistent, and the finish means that *)
(* the core is idle.                                                       *)
(***************************************************************************)
EXTENDS RtlCore, FiniteSetTheorems, SequenceTheorems, TLAPS

(***************************************************************************)
(* The decoders of the RTL (Decode.scala) and the tables of the simulator  *)
(* (sim_tlpp.cc) are two independent readings of the instruction format.   *)
(* They agree on every instruction the simulator accepts and the RTL can   *)
(* dispatch: the same stage runs it, waits for the same tokens before and  *)
(* posts the same ones after.  A stream that is well formed for one device *)
(* therefore is for the other.                                             *)
(***************************************************************************)
THEOREM RtlRoutesAsSim ==
    ASSUME NEW insn \in Insn, FlagsHaveQueues(insn), Dispatch(insn) # "unknown"
    PROVE  /\ Dispatch(insn) = GetCoreType(insn)
           /\ Waits(insn) = PopQueues(insn)
           /\ Posts(insn) = PushQueues(insn)
<1> DEFINE core == GetCoreType(insn)
<1>1. Dispatch(insn) = core
  BY DEF Dispatch, GetCoreType, Insn, Opcode, MemType
<1>2. core \in Core
  BY DEF GetCoreType, Core
<1>3. CASE core = "LOAD"
  <2>1. Waits(insn) = {q \in {"g2l"} : insn.popNext} /\ Posts(insn) = {q \in {"l2g"} : insn.pushNext}
    BY <1>1, <1>3 DEF Waits, Posts
  <2>2. ~insn.popPrev /\ ~insn.pushPrev
    BY <1>3 DEF FlagsHaveQueues, PopPrevQueue, PushPrevQueue
  <2>3. PopQueues(insn) = {q \in Queue : insn.popNext /\ q = "g2l"}
    BY <1>3, <2>2 DEF PopQueues, PopNextQueue
  <2>4. PushQueues(insn) = {q \in Queue : insn.pushNext /\ q = "l2g"}
    BY <1>3, <2>2 DEF PushQueues, PushNextQueue
  <2> QED
    BY <1>1, <2>1, <2>3, <2>4 DEF Queue
<1>4. CASE core = "STORE"
  <2>1. Waits(insn) = {q \in {"g2s"} : insn.popPrev} /\ Posts(insn) = {q \in {"s2g"} : insn.pushPrev}
    BY <1>1, <1>4 DEF Waits, Posts
  <2>2. ~insn.popNext /\ ~insn.pushNext
    BY <1>4 DEF FlagsHaveQueues, PopNextQueue, PushNextQueue
  <2>3. PopQueues(insn) = {q \in Queue : insn.popPrev /\ q = "g2s"}
    BY <1>4, <2>2 DEF PopQueues, PopPrevQueue
  <2>4. PushQueues(insn) = {q \in Queue : insn.pushPrev /\ q = "s2g"}
    BY <1>4, <2>2 DEF PushQueues, PushPrevQueue
  <2> QED
    BY <1>1, <2>1, <2>3, <2>4 DEF Queue
<1>5. CASE core = "GEMM"
  <2>1. /\ Waits(insn) = {q \in {"l2g"} : insn.popPrev} \cup {q \in {"s2g"} : insn.popNext}
        /\ Posts(insn) = {q \in {"g2l"} : insn.pushPrev} \cup {q \in {"g2s"} : insn.pushNext}
    BY <1>1, <1>5 DEF Waits, Posts
  <2>2. PopQueues(insn) = {q \in Queue : (insn.popPrev /\ q = "l2g") \/ (insn.popNext /\ q = "s2g")}
    BY <1>5 DEF PopQueues, PopPrevQueue, PopNextQueue
  <2>3. PushQueues(insn) = {q \in Queue : (insn.pushPrev /\ q = "g2l") \/ (insn.pushNext /\ q = "g2s")}
    BY <1>5 DEF PushQueues, PushPrevQueue, PushNextQueue
  <2> QED
    BY <1>1, <2>1, <2>2, <2>3 DEF Queue
<1> QED
  BY <1>2, <1>3, <1>4, <1>5 DEF Core

--------------------------------------------------------------------------------
(* Sequences that rise.                                                        *)

Rising(s) == \A i, j \in DOMAIN s : i < j => s[i] < s[j]

LEMMA RisingAppend ==
    ASSUME NEW s \in Seq(Nat), NEW x \in Nat, Rising(s), \A y \in Range(s) : y < x
    PROVE  Rising(s \o <<x>>) /\ Range(s \o <<x>>) = Range(s) \cup {x}
<1>1. <<x>> \in Seq(Nat) /\ Len(<<x>>) = 1 /\ <<x>>[1] = x /\ Range(<<x>>) = {x}
    <2>1. <<x>> \in Seq(Nat) /\ Len(<<x>>) = 1 /\ <<x>>[1] = x /\ DOMAIN <<x>> = {1}
        OBVIOUS
    <2>2. \A y : y \in Range(<<x>>) <=> \E i \in DOMAIN <<x>> : y = <<x>>[i]
        BY DEF Range
    <2>3. \A y : y \in Range(<<x>>) <=> y = x
        BY <2>1, <2>2
    <2> QED
        BY <2>1, <2>3
<1>2. /\ s \o <<x>> \in Seq(Nat) /\ Len(s \o <<x>>) = Len(s) + 1
      /\ \A i \in 1..Len(s) + 1 : (s \o <<x>>)[i] = IF i <= Len(s) THEN s[i] ELSE <<x>>[i - Len(s)]
    BY <1>1, ConcatProperties
<1>3. Len(s) \in Nat /\ DOMAIN s = 1..Len(s) /\ DOMAIN (s \o <<x>>) = 1..Len(s) + 1
    BY <1>2, LenProperties
<1>4. Range(s \o <<x>>) = Range(s) \cup {x}
    <2>1. \A a, b \in Seq(Nat) : Range(a \o b) = Range(a) \cup Range(b)
        BY RangeConcatenation
    <2>2. Range(s \o <<x>>) = Range(s) \cup Range(<<x>>)
        BY <1>1, <2>1
    <2> QED
        BY <1>1, <2>2
<1>5. \A i \in DOMAIN s : s[i] < x
    BY DEF Range
<1>6. \A i \in 1..Len(s) : (s \o <<x>>)[i] = s[i]
    BY <1>2, <1>3
<1>7. (s \o <<x>>)[Len(s) + 1] = x
    BY <1>1, <1>2, <1>3
<1>8. ASSUME NEW i \in 1..Len(s) + 1, NEW j \in 1..Len(s) + 1, i < j
      PROVE  (s \o <<x>>)[i] < (s \o <<x>>)[j]
    <2>1. i \in 1..Len(s)
        BY <1>3, <1>8
    <2>2. CASE j = Len(s) + 1
        BY <2>1, <2>2, <1>3, <1>5, <1>6, <1>7
    <2>3. CASE j # Len(s) + 1
        <3>1. j \in 1..Len(s)
            BY <1>3, <2>3
        <3> QED
            BY <2>1, <3>1, <1>3, <1>6, <1>8 DEF Rising
    <2> QED
        BY <2>2, <2>3
<1> QED
    BY <1>3, <1>4, <1>8 DEF Rising

LEMMA RisingParts ==
    ASSUME NEW s \in Seq(Nat), NEW t \in Seq(Nat), Rising(s \o t)
    PROVE  \A x \in Range(s), y \in Range(t) : x < y
<1>1. /\ Len(s \o t) = Len(s) + Len(t) /\ s \o t \in Seq(Nat)
      /\ \A i \in 1..Len(s) + Len(t) : (s \o t)[i] = IF i <= Len(s) THEN s[i] ELSE t[i - Len(s)]
    BY ConcatProperties
<1>2. /\ Len(s) \in Nat /\ DOMAIN s = 1..Len(s) /\ Len(t) \in Nat /\ DOMAIN t = 1..Len(t)
      /\ DOMAIN (s \o t) = 1..Len(s) + Len(t)
    BY <1>1, LenProperties
<1> SUFFICES ASSUME NEW i \in 1..Len(s), NEW j \in 1..Len(t)
             PROVE  s[i] < t[j]
    BY <1>2 DEF Range
<1>3. (s \o t)[i] = s[i] /\ i \in DOMAIN (s \o t)
    BY <1>1, <1>2
<1>4. (s \o t)[Len(s) + j] = t[j] /\ Len(s) + j \in DOMAIN (s \o t) /\ i < Len(s) + j
    <2>1. Len(s) + j \in 1..Len(s) + Len(t) /\ ~(Len(s) + j <= Len(s)) /\ (Len(s) + j) - Len(s) = j
        BY <1>2
    <2> QED
        BY <1>1, <1>2, <2>1
<1> QED
    BY <1>3, <1>4 DEF Rising

--------------------------------------------------------------------------------
(* Slots in places: a slot taken from the head of a place, or put at the end   *)
(* of one.                                                                     *)

Placed(f, U) ==
    /\ \A s \in Slot : s \in U <=> \E p \in Place : \E i \in DOMAIN f[p] : f[p][i] = s
    /\ \A p, o \in Place : \A i \in DOMAIN f[p], j \in DOMAIN f[o] : f[p][i] = f[o][j] => p = o /\ i = j
Takes1(f, g, p) ==
    /\ f[p] # <<>> /\ g[p] = Tail(f[p])
    /\ \A o \in Place : o # p => g[o] = f[o]
Puts1(f, g, p, s) ==
    /\ g[p] = Append(f[p], s)
    /\ \A o \in Place : o # p => g[o] = f[o]

LEMMA TakeOne ==
    ASSUME NEW f \in [Place -> Seq(Slot)], NEW g \in [Place -> Seq(Slot)], NEW p \in Place,
           NEW U, Placed(f, U), Takes1(f, g, p)
    PROVE  Head(f[p]) \in U /\ Head(f[p]) \in Slot /\ Placed(g, U \ {Head(f[p])})
<1>1. f[p] \in Seq(Slot) /\ f[p] # <<>>
    BY DEF Takes1
<1>2. /\ Len(f[p]) \in Nat \ {0} /\ DOMAIN f[p] = 1..Len(f[p])
      /\ Len(g[p]) = Len(f[p]) - 1 /\ DOMAIN g[p] = 1..Len(f[p]) - 1
      /\ \A i \in 1..Len(f[p]) - 1 : g[p][i] = f[p][i + 1]
    BY <1>1, HeadTailProperties, LenProperties, EmptySeq DEF Takes1
<1>3. PICK h : h = Head(f[p])
    OBVIOUS
<1>4. h = f[p][1] /\ 1 \in DOMAIN f[p] /\ h \in Slot
    BY <1>1, <1>2, <1>3, HeadTailProperties
<1>5. \A o \in Place : o # p => g[o] = f[o]
    BY DEF Takes1
\* Where an occurrence in g was in f.
<1> DEFINE old(o, i) == IF o = p THEN i + 1 ELSE i
<1>6. ASSUME NEW o \in Place, NEW i \in DOMAIN g[o]
      PROVE  old(o, i) \in DOMAIN f[o] /\ f[o][old(o, i)] = g[o][i] /\ (o = p => old(o, i) # 1)
    <2>1. CASE o = p
        <3>1. i \in 1..Len(f[p]) - 1
            BY <1>2, <2>1
        <3>2. i + 1 \in 1..Len(f[p]) /\ i + 1 # 1
            BY <1>2, <3>1
        <3> QED
            BY <1>2, <2>1, <3>1, <3>2
    <2>2. CASE o # p
        BY <1>5, <2>2
    <2> QED
        BY <2>1, <2>2
<1>7. ASSUME NEW o \in Place, NEW j \in DOMAIN f[o], o = p => j # 1
      PROVE  \E i \in DOMAIN g[o] : g[o][i] = f[o][j]
    <2>1. CASE o = p
        <3>1. j \in 1..Len(f[p]) /\ j # 1
            BY <1>2, <1>7, <2>1
        <3>2. j - 1 \in 1..Len(f[p]) - 1 /\ (j - 1) + 1 = j
            BY <1>2, <3>1
        <3> QED
            BY <1>2, <2>1, <3>2
    <2>2. CASE o # p
        BY <1>5, <2>2
    <2> QED
        BY <2>1, <2>2
<1>8. ASSUME NEW o \in Place, NEW q \in Place, NEW i \in DOMAIN g[o], NEW j \in DOMAIN g[q], g[o][i] = g[q][j]
      PROVE  o = q /\ i = j
    <2>1. o = q /\ old(o, i) = old(q, j)
        <3> HIDE DEF old
        <3> QED
            BY <1>6, <1>8 DEF Placed
    <2>2. i \in Int /\ j \in Int
        <3>1. \A k \in Place : g[k] \in Seq(Slot)
            OBVIOUS
        <3>2. \A k \in Place : DOMAIN g[k] = 1..Len(g[k])
            BY <3>1, LenProperties
        <3> QED
            BY <3>2
    <2> QED
        BY <2>1, <2>2
<1>9. ASSUME NEW s \in Slot
      PROVE  s \in U \ {h} <=> \E o \in Place : \E i \in DOMAIN g[o] : g[o][i] = s
    <2>1. ASSUME s \in U, s # h
          PROVE  \E o \in Place : \E i \in DOMAIN g[o] : g[o][i] = s
        <3>1. PICK o \in Place : \E j \in DOMAIN f[o] : f[o][j] = s
            BY <2>1 DEF Placed
        <3>3. PICK j \in DOMAIN f[o] : f[o][j] = s
            BY <3>1
        <3>2. o = p => j # 1
            BY <1>4, <2>1, <3>3
        <3> QED
            BY <1>7, <3>2, <3>3
    <2>2. ASSUME NEW o \in Place, NEW i \in DOMAIN g[o], g[o][i] = s
          PROVE  s \in U /\ s # h
        <3>1. PICK j \in DOMAIN f[o] : f[o][j] = s /\ (o = p => j # 1)
            BY <1>6, <2>2
        <3>2. s \in U
            BY <3>1 DEF Placed
        <3>3. s # h
            BY <1>4, <3>1 DEF Placed
        <3> QED
            BY <3>2, <3>3
    <2> QED
        BY <2>1, <2>2
<1>10. h \in U
    BY <1>4 DEF Placed
<1> QED
    BY <1>3, <1>4, <1>8, <1>9, <1>10 DEF Placed

LEMMA PutOne ==
    ASSUME NEW f \in [Place -> Seq(Slot)], NEW g \in [Place -> Seq(Slot)], NEW p \in Place,
           NEW s \in Slot, NEW U, Placed(f, U), Puts1(f, g, p, s), s \notin U
    PROVE  Placed(g, U \cup {s})
<1>1. f[p] \in Seq(Slot)
    OBVIOUS
<1>2. /\ Len(f[p]) \in Nat /\ DOMAIN f[p] = 1..Len(f[p]) /\ DOMAIN g[p] = 1..Len(f[p]) + 1
      /\ g[p][Len(f[p]) + 1] = s /\ \A i \in 1..Len(f[p]) : g[p][i] = f[p][i]
    BY <1>1, AppendProperties, LenProperties DEF Puts1
<1>3. \A o \in Place : o # p => g[o] = f[o]
    BY DEF Puts1
<1>4. \A o \in Place : \A i \in DOMAIN f[o] : f[o][i] # s
    BY DEF Placed
<1>5. PICK n : n = Len(f[p]) + 1
    OBVIOUS
<1>6. n \notin DOMAIN f[p] /\ n \in DOMAIN g[p] /\ g[p][n] = s
    BY <1>2, <1>5
<1>7. ASSUME NEW o \in Place, NEW i \in DOMAIN g[o], ~(o = p /\ i = n)
      PROVE  i \in DOMAIN f[o] /\ f[o][i] = g[o][i]
    <2>1. CASE o = p
        <3>1. i \in 1..Len(f[p])
            BY <1>2, <1>5, <1>7, <2>1
        <3> QED
            BY <1>2, <2>1, <3>1
    <2>2. CASE o # p
        BY <1>3, <2>2
    <2> QED
        BY <2>1, <2>2
<1>8. ASSUME NEW o \in Place, NEW i \in DOMAIN f[o]
      PROVE  i \in DOMAIN g[o] /\ g[o][i] = f[o][i]
    <2>1. CASE o = p
        <3>1. i \in 1..Len(f[p]) /\ i \in 1..Len(f[p]) + 1
            BY <1>2, <2>1
        <3> QED
            BY <1>2, <2>1, <3>1
    <2>2. CASE o # p
        BY <1>3, <2>2
    <2> QED
        BY <2>1, <2>2
<1>9. ASSUME NEW o \in Place, NEW q \in Place, NEW i \in DOMAIN g[o], NEW j \in DOMAIN g[q], g[o][i] = g[q][j]
      PROVE  o = q /\ i = j
    <2>1. CASE o = p /\ i = n
        <3>1. q = p /\ j = n
            BY <1>4, <1>6, <1>7, <1>9, <2>1
        <3> QED
            BY <2>1, <3>1
    <2>2. CASE ~(o = p /\ i = n)
        <3>1. i \in DOMAIN f[o] /\ f[o][i] = g[o][i]
            BY <1>7, <2>2
        <3>2. ~(q = p /\ j = n)
            BY <1>4, <1>6, <1>9, <3>1
        <3>3. j \in DOMAIN f[q] /\ f[q][j] = g[q][j]
            BY <1>7, <3>2
        <3> QED
            BY <1>9, <3>1, <3>3 DEF Placed
    <2> QED
        BY <2>1, <2>2
<1>10. ASSUME NEW t \in Slot
       PROVE  t \in U \cup {s} <=> \E o \in Place : \E i \in DOMAIN g[o] : g[o][i] = t
    <2>1. ASSUME t \in U
          PROVE  \E o \in Place : \E i \in DOMAIN g[o] : g[o][i] = t
        <3>1. PICK o \in Place : \E i \in DOMAIN f[o] : f[o][i] = t
            BY <2>1 DEF Placed
        <3> QED
            BY <1>8, <3>1
    <2>2. ASSUME t \notin U, NEW o \in Place, NEW i \in DOMAIN g[o], g[o][i] = t
          PROVE  t = s
        <3>1. ~(i \in DOMAIN f[o] /\ f[o][i] = g[o][i])
            BY <2>2 DEF Placed
        <3>2. o = p /\ i = n
            BY <1>7, <3>1
        <3> QED
            BY <1>6, <2>2, <3>2
    <2> QED
        BY <1>6, <2>1, <2>2
<1> QED
    BY <1>9, <1>10 DEF Placed
--------------------------------------------------------------------------------
(* The invariant.  A stream the host launches can be run to its end and has no *)
(* instruction FetchDecode does not know.                                      *)

StreamsRunnable ==
    \A s \in Streams :
        /\ TokensBalance(s) /\ FinishEnds(s) /\ WorkIsAnnounced(s)
        /\ \A i \in DOMAIN s : FlagsHaveQueues(s[i]) /\ Dispatch(s[i]) # "unknown"

\* The registers of the fetch, and of the stages.
FetchTypes ==
    /\ stream \in Seq(Insn)
    /\ dma \in [state : {"idle", "reserve", "command", "receive"},
                remaining : Nat, selected : Nat, left : Nat]
    /\ mem \in [Slot -> Nat] /\ addrQ \in [Core -> Seq(Slot)] /\ freeQ \in Seq(Slot)
    /\ virgin \in 0..Slots /\ freeCount \in Int
    /\ reqQ \in Seq(Core) /\ pending \in [Core -> BOOLEAN]
    /\ read \in {NoRead} \cup [client : Core, slot : Slot, data : Nat]
    /\ next \in [Core -> Nat]
StageTypes ==
    /\ cur \in [Core -> Nat] /\ state \in [Core -> {"idle", "sync", "exe"}]
    /\ sem \in [Queue -> Nat] /\ ran \in [Core -> Seq(Nat)]
    /\ finish \in BOOLEAN /\ launch \in BOOLEAN /\ launchLast \in BOOLEAN
    /\ \A c \in Core : state[c] # "idle" => cur[c] # 0

\* The burst machine: what each of its states has left to do.
Burst ==
    /\ dma.state = "idle" => dma.remaining = 0
    /\ dma.state = "reserve" => dma.remaining > 0
    /\ dma.state = "command" => 0 < dma.selected /\ dma.selected <= dma.remaining
    /\ IF dma.state = "receive" THEN dma.left > 0 ELSE dma.left = 0
    /\ dma.remaining + dma.left <= Len(stream)

\* A stage waits for one next instruction at a time: in the request queue, with
\* an address, or being read.
Requests ==
    /\ \A c \in Core : pending[c] => next[c] = 0
    /\ \A i \in DOMAIN reqQ : pending[reqQ[i]] /\ addrQ[reqQ[i]] # <<>> /\ read.client # reqQ[i]
    /\ \A i, j \in DOMAIN reqQ : reqQ[i] = reqQ[j] => i = j
    /\ read # NoRead => pending[read.client]

\* Nothing in the core.
Quiet ==
    /\ dma.state = "idle" /\ read = NoRead
    /\ \A c \in Core : state[c] = "idle" /\ cur[c] = 0 /\ next[c] = 0 /\ addrQ[c] = <<>>
    /\ \A q \in Queue : sem[q] = 0

\* From a launch to its finish the core runs one stream; else it is quiet.
Phases ==
    /\ ~Running => Quiet /\ ~finish
    /\ launch => stream \in Streams
    /\ launch /\ ~launchLast => \A c \in Core : ran[c] = <<>>
    /\ finish => Quiet

\* No semaphore counts a token that was not posted, or not waited for.  (One
\* that is full loses some.)
StartedPops(q) == {i \in Poppers(stream, q) : \E c \in Core : i \in Started(c)}
DonePushes(q) == {i \in Pushers(stream, q) : \E c \in Core : i \in Range(ran[c])}
Tokens ==
    Running => \A q \in Queue : sem[q] + Cardinality(StartedPops(q)) <= Cardinality(DonePushes(q))

Inv == /\ FetchTypes /\ StageTypes /\ Burst /\ Requests /\ Phases
       /\ SlotsConserved /\ DispatchedInOrder /\ Tokens

--------------------------------------------------------------------------------
(* One cycle of the fetch.                                                     *)

\* What arrives has a stage to go to.
Receivable == dma.state = "receive" => Target \in Core

LEMMA Sequence ==
    /\ \A S : \A s \in Seq(S) : s \o <<>> = s
    /\ \A S : \A s \in Seq(S), x \in S : s \o <<x>> = Append(s, x) /\ s \o <<x>> \in Seq(S)
    /\ \A S : \A s \in Seq(S) : s # <<>> => Head(s) \in S /\ Tail(s) \in Seq(S)
BY ConcatEmptySeq, AppendIsConcat, AppendProperties, HeadTailProperties

LEMMA GrantsOne ==
    Granted = {} \/ \E c \in Core : Granted = {c} /\ WantsNext(c)
BY DEF Granted, Core

\* Which of a write and a read takes the memory's port.
LEMMA Port ==
    ASSUME FetchTypes, Receivable, Requests, NEW in
    PROVE  /\ InstructionWrite(in) =>
                /\ dma.state = "receive" /\ Target \in Core /\ AllocatedSlot \in Slot /\ ~LocalRead(in)
                /\ virgin < Slots => AllocatedSlot = virgin
                /\ ~(virgin < Slots) => virgin = Slots /\ freeQ # <<>> /\ AllocatedSlot = Head(freeQ)
           /\ LocalRead(in) =>
                /\ read = NoRead /\ reqQ # <<>> /\ Head(reqQ) \in Core /\ addrQ[Head(reqQ)] # <<>>
                /\ pending[Head(reqQ)] /\ Head(reqQ) = reqQ[1] /\ 1 \in DOMAIN reqQ
<1>1. /\ virgin \in Nat /\ Slots \in Nat /\ virgin <= Slots /\ freeQ \in Seq(Slot) /\ reqQ \in Seq(Core)
    BY RtlFetchAssumption DEF FetchTypes
<1>2. ASSUME InstructionWrite(in)
      PROVE  /\ dma.state = "receive" /\ Target \in Core /\ AllocatedSlot \in Slot /\ ~LocalRead(in)
             /\ virgin < Slots => AllocatedSlot = virgin
             /\ ~(virgin < Slots) => virgin = Slots /\ freeQ # <<>> /\ AllocatedSlot = Head(freeQ)
    <2>1. dma.state = "receive" /\ Target \in Core /\ ~LocalRead(in) /\ AllocationReady
        BY <1>2 DEF InstructionWrite, Receivable, LocalRead
    <2>2. CASE virgin < Slots
        BY <1>1, <2>1, <2>2, RtlFetchAssumption DEF AllocatedSlot, Slot
    <2>3. CASE ~(virgin < Slots)
        <3>1. virgin = Slots /\ freeQ # <<>> /\ AllocatedSlot = Head(freeQ)
            BY <1>1, <2>1, <2>3 DEF AllocatedSlot, AllocationReady
        <3>2. Head(freeQ) \in Slot
            BY <1>1, <3>1, Sequence
        <3> QED
            BY <2>1, <2>3, <3>1, <3>2
    <2> QED
        BY <2>2, <2>3
<1>3. ASSUME LocalRead(in)
      PROVE  /\ read = NoRead /\ reqQ # <<>> /\ Head(reqQ) \in Core /\ addrQ[Head(reqQ)] # <<>>
             /\ pending[Head(reqQ)] /\ Head(reqQ) = reqQ[1] /\ 1 \in DOMAIN reqQ
    <2>1. read = NoRead /\ reqQ # <<>>
        BY <1>3 DEF LocalRead
    <2>2. Head(reqQ) = reqQ[1] /\ 1 \in DOMAIN reqQ
        <3>1. Len(reqQ) \in Nat \ {0} /\ DOMAIN reqQ = 1..Len(reqQ)
            BY <1>1, <2>1, EmptySeq, LenProperties
        <3> QED
            BY <1>1, <3>1
    <2>3. Head(reqQ) \in Core
        BY <1>1, <2>1, Sequence
    <2> QED
        BY <2>1, <2>2, <2>3 DEF Requests
<1> QED
    BY <1>2, <1>3

LEMMA TickQueues ==
    ASSUME FetchTypes, Receivable, Requests, NEW in, NEW taken, FetchTick(in, taken)
    PROVE  /\ LocalRead(in) =>
                /\ \A c \in Core : addrQ'[c] = IF c = Head(reqQ) THEN Tail(addrQ[c]) ELSE addrQ[c]
                /\ read' = [client |-> Head(reqQ), slot |-> Head(addrQ[Head(reqQ)]),
                            data |-> mem[Head(addrQ[Head(reqQ)])]]
                /\ read' \in [client : Core, slot : Slot, data : Nat]
                /\ virgin' = virgin /\ freeQ' = freeQ
           /\ ~LocalRead(in) => read' = NoRead
           /\ InstructionWrite(in) =>
                /\ \A c \in Core : addrQ'[c] = IF c = Target THEN Append(addrQ[c], AllocatedSlot) ELSE addrQ[c]
                /\ virgin' = IF virgin < Slots THEN virgin + 1 ELSE virgin
                /\ mem' = [mem EXCEPT ![AllocatedSlot] = Arriving]
           /\ ~InstructionWrite(in) => virgin' = virgin /\ mem' = mem
           /\ ~InstructionWrite(in) /\ ~LocalRead(in) => \A c \in Core : addrQ'[c] = addrQ[c]
           /\ addrQ' \in [Core -> Seq(Slot)] /\ freeQ' \in Seq(Slot) /\ virgin' \in 0..Slots
           /\ LET base == IF InstructionWrite(in) /\ virgin = Slots THEN Tail(freeQ) ELSE freeQ IN
              /\ base \in Seq(Slot)
              /\ read = NoRead => freeQ' = base
              /\ read # NoRead => read.slot \in Slot /\ freeQ' = Append(base, read.slot)
<1> USE RtlFetchAssumption
<1>1. /\ addrQ \in [Core -> Seq(Slot)] /\ freeQ \in Seq(Slot) /\ virgin \in 0..Slots
      /\ read = NoRead \/ read \in [client : Core, slot : Slot, data : Nat]
      /\ mem \in [Slot -> Nat]
    BY DEF FetchTypes
<1>2. /\ \A s \in Seq(Slot) : s \o <<>> = s
      /\ \A s \in Seq(Slot), x \in Slot : s \o <<x>> = Append(s, x) /\ s \o <<x>> \in Seq(Slot)
      /\ \A s \in Seq(Slot) : s # <<>> => Head(s) \in Slot /\ Tail(s) \in Seq(Slot)
    BY Sequence
<1>3. /\ \A c \in Core : addrQ'[c] =
            (IF LocalRead(in) /\ Head(reqQ) = c THEN Tail(addrQ[c]) ELSE addrQ[c])
            \o OneIf(InstructionWrite(in) /\ Target = c, AllocatedSlot)
      /\ DOMAIN addrQ' = Core
      /\ addrQ' = [c \in Core |-> addrQ'[c]]
      /\ read' = IF LocalRead(in) THEN [client |-> Head(reqQ), slot |-> Head(addrQ[Head(reqQ)]),
                                        data |-> mem[Head(addrQ[Head(reqQ)])]] ELSE NoRead
      /\ virgin' = IF InstructionWrite(in) /\ virgin < Slots THEN virgin + 1 ELSE virgin
      /\ mem' = IF InstructionWrite(in) THEN [mem EXCEPT ![AllocatedSlot] = Arriving] ELSE mem
      /\ freeQ' = (IF InstructionWrite(in) /\ virgin = Slots THEN Tail(freeQ) ELSE freeQ) \o Returned
    BY DEF FetchTick
<1>4. PICK base : base = IF InstructionWrite(in) /\ virgin = Slots THEN Tail(freeQ) ELSE freeQ
    OBVIOUS
<1>5. base \in Seq(Slot)
    <2>1. InstructionWrite(in) /\ virgin = Slots => freeQ # <<>>
        BY <1>1, Port
    <2> QED
        BY <1>1, <1>2, <1>4, <2>1
<1>6. /\ read = NoRead => freeQ' = base
      /\ read # NoRead => read.slot \in Slot /\ freeQ' = Append(base, read.slot)
      /\ freeQ' \in Seq(Slot)
    <2>1. freeQ' = base \o Returned
        BY <1>3, <1>4
    <2>2. CASE read = NoRead
        BY <1>2, <1>5, <2>1, <2>2 DEF Returned, OneIf
    <2>3. CASE read # NoRead
        <3>1. read.slot \in Slot /\ Returned = <<read.slot>>
            BY <1>1, <2>3 DEF Returned, OneIf
        <3> QED
            BY <1>2, <1>5, <2>1, <2>3, <3>1
    <2> QED
        BY <2>2, <2>3
<1>7. virgin' \in 0..Slots
    BY <1>1, <1>3
<1>8. ASSUME LocalRead(in)
      PROVE  /\ \A c \in Core : addrQ'[c] = IF c = Head(reqQ) THEN Tail(addrQ[c]) ELSE addrQ[c]
             /\ \A c \in Core : addrQ'[c] \in Seq(Slot)
             /\ read' = [client |-> Head(reqQ), slot |-> Head(addrQ[Head(reqQ)]),
                         data |-> mem[Head(addrQ[Head(reqQ)])]]
             /\ read' \in [client : Core, slot : Slot, data : Nat]
             /\ virgin' = virgin /\ freeQ' = freeQ
    <2>1. ~InstructionWrite(in) /\ read = NoRead /\ Head(reqQ) \in Core /\ addrQ[Head(reqQ)] # <<>>
        BY <1>8, Port DEF LocalRead
    <2>2. \A c \in Core : OneIf(InstructionWrite(in) /\ Target = c, AllocatedSlot) = <<>>
        BY <2>1 DEF OneIf
    <2>3. \A c \in Core : (IF LocalRead(in) /\ Head(reqQ) = c THEN Tail(addrQ[c]) ELSE addrQ[c]) \in Seq(Slot)
        BY <1>1, <1>2, <2>1
    <2>4. Head(addrQ[Head(reqQ)]) \in Slot
        BY <1>1, <1>2, <2>1
    <2>5. \A c \in Core : addrQ'[c] = (IF LocalRead(in) /\ Head(reqQ) = c THEN Tail(addrQ[c]) ELSE addrQ[c]) \o <<>>
        BY <1>3, <2>2
    <2>6. \A c \in Core : addrQ'[c] = IF LocalRead(in) /\ Head(reqQ) = c THEN Tail(addrQ[c]) ELSE addrQ[c]
        BY <1>2, <2>3, <2>5
    <2>7. \A c \in Core : addrQ'[c] = IF c = Head(reqQ) THEN Tail(addrQ[c]) ELSE addrQ[c]
        BY <1>8, <2>6
    <2>8. \A c \in Core : addrQ'[c] \in Seq(Slot)
        BY <2>3, <2>6
    <2>9. /\ read' = [client |-> Head(reqQ), slot |-> Head(addrQ[Head(reqQ)]),
                      data |-> mem[Head(addrQ[Head(reqQ)])]]
          /\ virgin' = virgin
        BY <1>3, <1>8, <2>1
    <2>10. read' \in [client : Core, slot : Slot, data : Nat]
        BY <1>1, <2>1, <2>4, <2>9
    <2>11. freeQ' = freeQ
        BY <1>4, <1>6, <2>1
    <2> QED
        BY <2>7, <2>8, <2>9, <2>10, <2>11
<1>9. ASSUME InstructionWrite(in)
      PROVE  /\ \A c \in Core : addrQ'[c] = IF c = Target THEN Append(addrQ[c], AllocatedSlot) ELSE addrQ[c]
             /\ \A c \in Core : addrQ'[c] \in Seq(Slot)
    <2>1. ~LocalRead(in) /\ Target \in Core /\ AllocatedSlot \in Slot
        BY <1>9, Port
    <2>2. ASSUME NEW c \in Core, c = Target
          PROVE  addrQ'[c] = Append(addrQ[c], AllocatedSlot) /\ addrQ'[c] \in Seq(Slot)
        <3>1. OneIf(InstructionWrite(in) /\ Target = c, AllocatedSlot) = <<AllocatedSlot>>
            BY <1>9, <2>2 DEF OneIf
        <3>2. addrQ'[c] = addrQ[c] \o <<AllocatedSlot>> /\ addrQ[c] \in Seq(Slot)
            BY <1>1, <1>3, <2>1, <3>1
        <3> QED
            BY <1>2, <2>1, <3>2
    <2>3. ASSUME NEW c \in Core, c # Target
          PROVE  addrQ'[c] = addrQ[c] /\ addrQ'[c] \in Seq(Slot)
        <3>1. OneIf(InstructionWrite(in) /\ Target = c, AllocatedSlot) = <<>>
            BY <2>3 DEF OneIf
        <3>2. addrQ'[c] = addrQ[c] \o <<>> /\ addrQ[c] \in Seq(Slot)
            BY <1>1, <1>3, <2>1, <3>1
        <3> QED
            BY <1>2, <3>2
    <2> QED
        BY <2>2, <2>3
<1>10. ASSUME ~InstructionWrite(in), ~LocalRead(in)
       PROVE  \A c \in Core : addrQ'[c] = addrQ[c] /\ addrQ'[c] \in Seq(Slot)
    <2>1. \A c \in Core : OneIf(InstructionWrite(in) /\ Target = c, AllocatedSlot) = <<>>
        BY <1>10 DEF OneIf
    <2>2. \A c \in Core : addrQ'[c] = addrQ[c] \o <<>> /\ addrQ[c] \in Seq(Slot)
        BY <1>1, <1>3, <1>10, <2>1
    <2> QED
        BY <1>2, <2>2
<1>11. addrQ' \in [Core -> Seq(Slot)]
    <2>1. \A c \in Core : addrQ'[c] \in Seq(Slot)
        BY <1>1, <1>8, <1>9, <1>10
    <2> QED
        BY <1>3, <2>1
<1>12. ~LocalRead(in) => read' = NoRead
    BY <1>3
<1>13. /\ InstructionWrite(in) => /\ virgin' = IF virgin < Slots THEN virgin + 1 ELSE virgin
                                  /\ mem' = [mem EXCEPT ![AllocatedSlot] = Arriving]
       /\ ~InstructionWrite(in) => virgin' = virgin /\ mem' = mem
    BY <1>3
<1> QED
    BY <1>4, <1>5, <1>6, <1>7, <1>8, <1>9, <1>10, <1>11, <1>12, <1>13

\* SlotsConserved, of the places as one function.
Where == [p \in Place |-> SlotsAt(p)]
Used == {s \in Slot : s < virgin}

LEMMA Places ==
    ASSUME FetchTypes
    PROVE  /\ Where \in [Place -> Seq(Slot)]
           /\ Where["free"] = freeQ /\ Where["read"] = OneIf(read # NoRead, read.slot)
           /\ \A c \in Core : c \in Place /\ Where[c] = addrQ[c] /\ c # "free" /\ c # "read"
           /\ \A p \in Place : p \in Core \/ p = "free" \/ p = "read"
           /\ "free" \in Place /\ "read" \in Place
<1>1. OneIf(read # NoRead, read.slot) \in Seq(Slot)
    <2>1. CASE read = NoRead
        BY <2>1 DEF OneIf
    <2>2. CASE read # NoRead
        BY <2>2 DEF OneIf, FetchTypes
    <2> QED
        BY <2>1, <2>2
<1>2. addrQ \in [Core -> Seq(Slot)] /\ freeQ \in Seq(Slot)
    BY DEF FetchTypes
<1>3. \A p \in Place : p \in Core \/ p = "free" \/ p = "read"
    BY DEF Place
<1>4. \A c \in Core : c \in Place /\ c # "free" /\ c # "read"
    BY DEF Place, Core
<1>5. "free" \in Place /\ "read" \in Place
    BY DEF Place
<1>6. \A c \in Core : SlotsAt(c) = addrQ[c]
    BY <1>4 DEF SlotsAt
<1>7. SlotsAt("free") = freeQ /\ SlotsAt("read") = OneIf(read # NoRead, read.slot)
    BY DEF SlotsAt
<1>8. \A p \in Place : SlotsAt(p) \in Seq(Slot)
    BY <1>1, <1>2, <1>3, <1>6, <1>7
<1> QED
    BY <1>3, <1>4, <1>5, <1>6, <1>7, <1>8 DEF Where

LEMMA ConservedIsPlaced ==
    SlotsConserved <=> Placed(Where, Used) /\ Len(freeQ) + (Slots - virgin) = freeCount + Unfilled
<1>1. \A p \in Place : Where[p] = SlotsAt(p)
    BY DEF Where
<1>2. \A s \in Slot : s \in Used <=> s < virgin
    BY DEF Used
<1> QED
    BY <1>1, <1>2 DEF SlotsConserved, Placed

\* The slots move as they should, and the counters count them.
LEMMA TickMovesSlots ==
    ASSUME FetchTypes, FetchTypes', Receivable, Requests, Placed(Where, Used),
           NEW in, NEW taken, FetchTick(in, taken)
    PROVE  Placed(Where, Used)'
<1> USE RtlFetchAssumption
<1>1. /\ Where \in [Place -> Seq(Slot)]
      /\ Where["free"] = freeQ /\ Where["read"] = OneIf(read # NoRead, read.slot)
      /\ \A c \in Core : c \in Place /\ Where[c] = addrQ[c] /\ c # "free" /\ c # "read"
      /\ \A p \in Place : p \in Core \/ p = "free" \/ p = "read"
      /\ "free" \in Place /\ "read" \in Place
    BY Places
<1>2. /\ Where' \in [Place -> Seq(Slot)]
      /\ Where'["free"] = freeQ' /\ Where'["read"] = OneIf(read' # NoRead, read'.slot)
      /\ \A c \in Core : Where'[c] = addrQ'[c]
    <2>1. /\ SlotsAt("free")' = freeQ' /\ SlotsAt("read")' = OneIf(read' # NoRead, read'.slot)
          /\ \A c \in Core : SlotsAt(c)' = addrQ'[c]
        BY <1>1 DEF SlotsAt
    <2>2. OneIf(read' # NoRead, read'.slot) \in Seq(Slot)
        <3>1. CASE read' = NoRead
            BY <3>1 DEF OneIf
        <3>2. CASE read' # NoRead
            BY <3>2 DEF OneIf, FetchTypes
        <3> QED
            BY <3>1, <3>2
    <2>3. addrQ' \in [Core -> Seq(Slot)] /\ freeQ' \in Seq(Slot)
        BY DEF FetchTypes
    <2>4. \A p \in Place : SlotsAt(p)' \in Seq(Slot)
        BY <1>1, <2>1, <2>2, <2>3
    <2> QED
        BY <1>1, <2>1, <2>4 DEF Where
<1>3. virgin \in 0..Slots /\ freeQ \in Seq(Slot)
    BY DEF FetchTypes
<1>4. PICK f : f = Where
    OBVIOUS
<1>5. f \in [Place -> Seq(Slot)] /\ Placed(f, Used) /\ \A p \in Place : f[p] = Where[p]
    BY <1>1, <1>4
<1>6. PICK g : g = Where'
    OBVIOUS
<1>7. g \in [Place -> Seq(Slot)] /\ \A p \in Place : g[p] = Where'[p]
    BY <1>2, <1>6
<1>8. ASSUME LocalRead(in)
      PROVE  Placed(g, Used')
    <2>1. /\ read = NoRead /\ Head(reqQ) \in Core /\ addrQ[Head(reqQ)] # <<>>
        BY <1>8, Port
    <2>2. PICK c \in Core : c = Head(reqQ)
        BY <2>1
    <2>3. PICK h : h = Head(addrQ[c])
        OBVIOUS
    <2>4. /\ \A o \in Core : addrQ'[o] = IF o = c THEN Tail(addrQ[o]) ELSE addrQ[o]
          /\ read' = [client |-> c, slot |-> h, data |-> mem[h]]
          /\ read' \in [client : Core, slot : Slot, data : Nat]
          /\ virgin' = virgin /\ freeQ' = freeQ
        BY <1>8, <2>2, <2>3, TickQueues
    <2>5. read' # NoRead
        BY <2>4 DEF NoRead, Core
    <2>6. PICK k \in [Place -> Seq(Slot)] : k = [f EXCEPT ![c] = Tail(f[c])]
        <3>1. f[c] \in Seq(Slot) /\ f[c] # <<>>
            BY <1>1, <1>5, <2>1, <2>2
        <3>2. Tail(f[c]) \in Seq(Slot)
            BY <3>1, Sequence
        <3> QED
            BY <1>5, <3>2
    <2>7. Takes1(f, k, c)
        BY <1>1, <1>5, <2>1, <2>2, <2>6 DEF Takes1
    <2>8. h \in Used /\ h \in Slot /\ Placed(k, Used \ {h})
        <3>1. h = Head(f[c]) /\ c \in Place
            BY <1>1, <1>5, <2>3
        <3> QED
            BY <1>5, <2>7, <3>1, TakeOne
    <2>9. Puts1(k, g, "read", h)
        <3>1. k["read"] = <<>>
            BY <1>1, <1>5, <2>1, <2>6 DEF OneIf
        <3>2. g["read"] = <<h>>
            BY <1>1, <1>2, <1>7, <2>4, <2>5 DEF OneIf
        <3>3. g["read"] = Append(k["read"], h)
            BY <3>1, <3>2
        <3>4. \A o \in Core : g[o] = k[o]
            <4>1. \A o \in Core : g[o] = addrQ'[o] /\ f[o] = addrQ[o] /\ o \in Place
                BY <1>1, <1>2, <1>5, <1>7
            <4>2. \A o \in Core : k[o] = IF o = c THEN Tail(f[o]) ELSE f[o]
                BY <1>5, <2>6, <4>1
            <4> QED
                BY <2>4, <4>1, <4>2
        <3>5. g["free"] = k["free"]
            BY <1>1, <1>2, <1>5, <1>7, <2>4, <2>6
        <3> QED
            BY <1>1, <3>3, <3>4, <3>5 DEF Puts1
    <2>10. Placed(g, (Used \ {h}) \cup {h})
        BY <1>1, <1>7, <2>6, <2>8, <2>9, PutOne
    <2>11. (Used \ {h}) \cup {h} = Used'
        BY <2>4, <2>8 DEF Used
    <2> QED
        BY <2>10, <2>11
<1>9. ASSUME ~LocalRead(in)
      PROVE  Placed(g, Used')
    <2>1. read' = NoRead
        BY <1>9, TickQueues
    <2>2. PICK base : base = IF InstructionWrite(in) /\ virgin = Slots THEN Tail(freeQ) ELSE freeQ
        OBVIOUS
    <2>3. /\ base \in Seq(Slot)
          /\ read = NoRead => freeQ' = base
          /\ read # NoRead => read.slot \in Slot /\ freeQ' = Append(base, read.slot)
        BY <2>2, TickQueues
    \* The write, first.
    <2>4. \E k \in [Place -> Seq(Slot)] :
             /\ Placed(k, Used') /\ k["free"] = base /\ k["read"] = f["read"]
             /\ \A c \in Core : k[c] = addrQ'[c]
        <3>1. ASSUME InstructionWrite(in), virgin < Slots
              PROVE  \E k \in [Place -> Seq(Slot)] :
                        /\ Placed(k, Used') /\ k["free"] = base /\ k["read"] = f["read"]
                        /\ \A c \in Core : k[c] = addrQ'[c]
            <4>1. Target \in Core /\ AllocatedSlot \in Slot /\ AllocatedSlot = virgin
                BY <3>1, Port
            <4>2. /\ \A c \in Core : addrQ'[c] = IF c = Target THEN Append(addrQ[c], AllocatedSlot) ELSE addrQ[c]
                  /\ virgin' = virgin + 1
                BY <3>1, TickQueues
            <4>3. base = freeQ
                BY <1>3, <2>2, <3>1
            <4>4. PICK k \in [Place -> Seq(Slot)] : k = [f EXCEPT ![Target] = Append(f[Target], virgin)]
                <5>1. f[Target] \in Seq(Slot) /\ Append(f[Target], virgin) \in Seq(Slot)
                    BY <1>1, <1>5, <4>1, AppendProperties
                <5> QED
                    BY <1>5, <5>1
            <4>5. Puts1(f, k, Target, virgin)
                BY <1>1, <1>5, <4>1, <4>4 DEF Puts1
            <4>6. virgin \notin Used /\ virgin \in Slot
                BY <1>3, <4>1 DEF Used
            <4>7. Placed(k, Used \cup {virgin})
                BY <1>1, <1>5, <4>1, <4>5, <4>6, PutOne
            <4>8. Used \cup {virgin} = Used'
                BY <1>3, <4>2, <4>6 DEF Used, Slot
            <4>9. \A c \in Core : k[c] = addrQ'[c]
                BY <1>1, <1>5, <4>1, <4>2, <4>4
            <4>10. k["free"] = base /\ k["read"] = f["read"]
                BY <1>1, <1>5, <4>1, <4>3, <4>4
            <4> QED
                BY <4>7, <4>8, <4>9, <4>10
        <3>2. ASSUME InstructionWrite(in), ~(virgin < Slots)
              PROVE  \E k \in [Place -> Seq(Slot)] :
                        /\ Placed(k, Used') /\ k["free"] = base /\ k["read"] = f["read"]
                        /\ \A c \in Core : k[c] = addrQ'[c]
            <4>1. Target \in Core /\ virgin = Slots /\ freeQ # <<>> /\ AllocatedSlot = Head(freeQ)
                BY <3>2, Port
            <4>2. /\ \A c \in Core : addrQ'[c] = IF c = Target THEN Append(addrQ[c], AllocatedSlot) ELSE addrQ[c]
                  /\ virgin' = virgin
                BY <3>2, TickQueues
            <4>3. base = Tail(freeQ)
                BY <2>2, <3>2, <4>1
            <4>4. PICK h : h = Head(freeQ)
                OBVIOUS
            <4>5. PICK e \in [Place -> Seq(Slot)] : e = [f EXCEPT !["free"] = base]
                BY <1>1, <1>5, <2>3
            <4>6. Takes1(f, e, "free")
                BY <1>1, <1>5, <4>1, <4>3, <4>5 DEF Takes1
            <4>7. h \in Used /\ h \in Slot /\ Placed(e, Used \ {h})
                <5>1. h = Head(f["free"])
                    BY <1>1, <1>5, <4>4
                <5> QED
                    BY <1>1, <1>5, <4>6, <5>1, TakeOne
            <4>8. PICK k \in [Place -> Seq(Slot)] : k = [e EXCEPT ![Target] = Append(e[Target], h)]
                <5>1. e[Target] \in Seq(Slot) /\ Append(e[Target], h) \in Seq(Slot)
                    BY <1>1, <4>1, <4>5, <4>7, AppendProperties
                <5> QED
                    BY <4>5, <5>1
            <4>9. Puts1(e, k, Target, h)
                BY <1>1, <4>1, <4>8 DEF Puts1
            <4>10. Placed(k, (Used \ {h}) \cup {h})
                BY <1>1, <4>1, <4>5, <4>7, <4>8, <4>9, PutOne
            <4>11. (Used \ {h}) \cup {h} = Used'
                BY <4>2, <4>7 DEF Used
            <4>12. \A c \in Core : k[c] = addrQ'[c]
                BY <1>1, <1>5, <4>1, <4>2, <4>4, <4>5, <4>8
            <4>13. k["free"] = base /\ k["read"] = f["read"]
                BY <1>1, <1>5, <4>1, <4>5, <4>8
            <4> QED
                BY <4>10, <4>11, <4>12, <4>13
        <3>3. ASSUME ~InstructionWrite(in)
              PROVE  \E k \in [Place -> Seq(Slot)] :
                        /\ Placed(k, Used') /\ k["free"] = base /\ k["read"] = f["read"]
                        /\ \A c \in Core : k[c] = addrQ'[c]
            <4>1. virgin' = virgin /\ \A c \in Core : addrQ'[c] = addrQ[c]
                BY <1>9, <3>3, TickQueues
            <4>2. base = freeQ /\ Used' = Used
                BY <2>2, <3>3, <4>1 DEF Used
            <4>3. f["free"] = base /\ \A c \in Core : f[c] = addrQ'[c]
                BY <1>1, <1>5, <4>1, <4>2
            <4> QED
                BY <1>5, <4>2, <4>3
        <3> QED
            BY <3>1, <3>2, <3>3
    <2>5. PICK k \in [Place -> Seq(Slot)] :
             /\ Placed(k, Used') /\ k["free"] = base /\ k["read"] = f["read"]
             /\ \A c \in Core : k[c] = addrQ'[c]
        BY <2>4
    <2>6. g["read"] = <<>> /\ g["free"] = freeQ' /\ \A c \in Core : g[c] = k[c]
        BY <1>1, <1>2, <1>7, <2>1, <2>5 DEF OneIf
    <2>7. CASE read = NoRead
        <3>1. k["read"] = <<>>
            BY <1>1, <1>5, <2>5, <2>7 DEF OneIf
        <3>2. \A p \in Place : g[p] = k[p]
            BY <1>1, <2>3, <2>5, <2>6, <2>7, <3>1
        <3>3. g = k
            BY <1>7, <2>5, <3>2
        <3> QED
            BY <2>5, <3>3
    \* Then the slot of a completed read.
    <2>8. CASE read # NoRead
        <3>1. PICK h \in Slot : h = read.slot
            BY <2>3, <2>8
        <3>2. k["read"] = <<h>>
            BY <1>1, <1>5, <2>5, <2>8, <3>1 DEF OneIf
        <3>3. PICK e \in [Place -> Seq(Slot)] : e = [k EXCEPT !["read"] = <<>>]
            <4>1. <<>> \in Seq(Slot)
                BY EmptySeq
            <4> QED
                BY <2>5, <4>1
        <3>4. <<h>> # <<>> /\ Head(<<h>>) = h /\ Tail(<<h>>) = <<>>
            OBVIOUS
        <3>5. Takes1(k, e, "read")
            BY <1>1, <2>5, <3>2, <3>3, <3>4 DEF Takes1
        <3>6. h \in Used' /\ Placed(e, Used' \ {h})
            <4>1. Head(k["read"]) = h
                BY <3>2, <3>4
            <4> QED
                BY <1>1, <2>5, <3>3, <3>5, <4>1, TakeOne
        <3>7. Puts1(e, g, "free", h)
            <4>1. g["free"] = Append(e["free"], h)
                BY <1>1, <2>3, <2>5, <2>6, <2>8, <3>1, <3>3
            <4>2. \A o \in Place : o # "free" => g[o] = e[o]
                BY <1>1, <2>5, <2>6, <3>3
            <4> QED
                BY <4>1, <4>2 DEF Puts1
        <3>8. Placed(g, (Used' \ {h}) \cup {h})
            BY <1>1, <1>7, <3>1, <3>3, <3>6, <3>7, PutOne
        <3>9. (Used' \ {h}) \cup {h} = Used'
            BY <3>6
        <3> QED
            BY <3>8, <3>9
    <2> QED
        BY <2>7, <2>8
<1>10. Placed(Where', Used')
    BY <1>6, <1>8, <1>9
<1> QED
    BY <1>10 DEF Placed, Used, Where

LEMMA TickCounts ==
    ASSUME FetchTypes, Receivable, Requests, Burst,
           Len(freeQ) + (Slots - virgin) = freeCount + Unfilled,
           NEW in, NEW taken, FetchTick(in, taken)
    PROVE  (Len(freeQ) + (Slots - virgin) = freeCount + Unfilled)'
<1> USE RtlFetchAssumption
<1>1. /\ virgin \in 0..Slots /\ freeQ \in Seq(Slot) /\ freeCount \in Int
      /\ dma.remaining \in Nat /\ dma.selected \in Nat /\ dma.left \in Nat
      /\ dma \in [state : {"idle", "reserve", "command", "receive"},
                  remaining : Nat, selected : Nat, left : Nat]
    BY DEF FetchTypes
<1>2. PICK base : base = IF InstructionWrite(in) /\ virgin = Slots THEN Tail(freeQ) ELSE freeQ
    OBVIOUS
<1>3. /\ base \in Seq(Slot)
      /\ read = NoRead => freeQ' = base
      /\ read # NoRead => read.slot \in Slot /\ freeQ' = Append(base, read.slot)
    BY <1>2, TickQueues
<1>4. PICK back \in {0, 1} : back = IF read # NoRead THEN 1 ELSE 0
    OBVIOUS
<1>5. Len(freeQ') = Len(base) + back /\ Len(base) \in Nat /\ Len(freeQ) \in Nat
    <2>1. \A s \in Seq(Slot), x \in Slot : Len(Append(s, x)) = Len(s) + 1
        BY AppendProperties
    <2>2. \A s \in Seq(Slot) : Len(s) \in Nat
        BY LenProperties
    <2> QED
        BY <1>1, <1>3, <1>4, <2>1, <2>2
<1>15. virgin' \in Int
    <2>1. virgin' \in 0..Slots
        BY TickQueues
    <2> QED
        BY <2>1
<1>6. freeCount' = freeCount - (IF Reserve THEN Wanted ELSE 0) + back
    BY <1>4 DEF FetchTick
<1>7. ASSUME InstructionWrite(in)
      PROVE  Len(base) + (Slots - virgin') = Len(freeQ) + (Slots - virgin) - 1
    <2>1. CASE virgin < Slots
        <3>1. virgin' = virgin + 1 /\ base = freeQ
            BY <1>1, <1>2, <1>7, <2>1, TickQueues
        <3> QED
            BY <1>1, <1>5, <3>1
    <2>2. CASE ~(virgin < Slots)
        <3>1. virgin = Slots /\ freeQ # <<>>
            BY <1>7, <2>2, Port
        <3>2. virgin' = virgin /\ base = Tail(freeQ)
            BY <1>2, <1>7, <2>2, <3>1, TickQueues
        <3>3. \A s \in Seq(Slot) : s # <<>> => Len(Tail(s)) = Len(s) - 1
            BY HeadTailProperties
        <3>4. Len(base) = Len(freeQ) - 1
            BY <1>1, <3>1, <3>2, <3>3
        <3>5. \A a, b \in Nat : b = a - 1 => b + (Slots - virgin) = a + (Slots - virgin) - 1
            BY <1>1
        <3> QED
            BY <1>5, <3>2, <3>4, <3>5
    <2> QED
        BY <2>1, <2>2
<1>8. ASSUME ~InstructionWrite(in)
      PROVE  Len(base) + (Slots - virgin') = Len(freeQ) + (Slots - virgin)
    <2>1. virgin' = virgin /\ base = freeQ
        BY <1>2, <1>8, TickQueues
    <2> QED
        BY <2>1
<1>9. Unfilled' = (IF dma'.state = "receive" THEN dma'.left ELSE IF dma'.state = "command" THEN dma'.selected ELSE 0)
    BY DEF Unfilled
<1>10. Unfilled = (IF dma.state = "receive" THEN dma.left ELSE IF dma.state = "command" THEN dma.selected ELSE 0)
    BY DEF Unfilled
<1>16. freeCount \in Int /\ Unfilled \in Int /\ Slots \in Int /\ virgin \in Int
    BY <1>1, <1>10
\* What every case comes to: y slots are reserved and x of those are filled.
<1> DEFINE Moved(x, y) == /\ Len(base) + (Slots - virgin') = Len(freeQ) + (Slots - virgin) - x
                          /\ freeCount' = freeCount - y + back
                          /\ Unfilled' = Unfilled - x + y
<1>17. ASSUME NEW x \in Int, NEW y \in Int, Moved(x, y)
       PROVE  Len(freeQ') + (Slots - virgin') = freeCount' + Unfilled'
    <2>1. \A a, b, c, d, e, f, h, u \in Int :
             /\ a + (Slots - b) = c + d /\ e + (Slots - f) = a + (Slots - b) - x
             /\ h = c - y + back /\ u = d - x + y
             => (e + back) + (Slots - f) = h + u
        BY <1>4, <1>16
    <2>2. /\ Len(freeQ) + (Slots - virgin) = freeCount + Unfilled
          /\ Len(base) + (Slots - virgin') = Len(freeQ) + (Slots - virgin) - x
          /\ freeCount' = freeCount - y + back
          /\ Unfilled' = Unfilled - x + y
        BY <1>17
    <2>3. freeCount' \in Int /\ Unfilled' \in Int
        BY <1>4, <1>16, <2>2
    <2>4. Len(freeQ) \in Int /\ Len(base) \in Int /\ Len(freeQ') = Len(base) + back
        BY <1>5
    <2>5. (Len(base) + back) + (Slots - virgin') = freeCount' + Unfilled'
        BY <1>15, <1>16, <2>1, <2>2, <2>3, <2>4
    <2> QED
        BY <2>4, <2>5
<1>11. CASE Reserve
    <2>1. dma.state = "reserve" /\ ~InstructionWrite(in) /\ Wanted \in Nat
        BY <1>1, <1>11 DEF Reserve, InstructionWrite, Wanted
    <2>2. dma'.state = "command" /\ dma'.selected = Wanted
        BY <1>1, <1>11, <2>1 DEF FetchTick, DmaTick
    <2>3. Unfilled = 0 /\ Unfilled' = Wanted
        BY <1>9, <1>10, <2>1, <2>2
    <2>10. Moved(0, Wanted)
        BY <1>5, <1>15, <1>6, <1>8, <1>11, <1>16, <2>1, <2>3
    <2> HIDE DEF Moved
    <2> QED
        BY <1>17, <2>1, <2>10
<1>12. CASE dma.state = "command" /\ in.cmd
    <2>1. ~Reserve /\ ~InstructionWrite(in)
        BY <1>12 DEF Reserve, InstructionWrite
    <2>2. dma'.state = "receive" /\ dma'.left = dma.selected
        BY <1>1, <1>12, <2>1 DEF FetchTick, DmaTick
    <2>3. Unfilled = dma.selected /\ Unfilled' = dma.selected
        BY <1>9, <1>10, <1>12, <2>2
    <2>10. Moved(0, 0)
        BY <1>5, <1>15, <1>1, <1>4, <1>6, <1>8, <1>16, <2>1, <2>3
    <2> HIDE DEF Moved
    <2> QED
        BY <1>17, <2>1, <2>10
<1>13. CASE InstructionWrite(in)
    <2>1. dma.state = "receive" /\ ~Reserve /\ ~(dma.state = "command" /\ in.cmd)
        BY <1>13 DEF InstructionWrite, Reserve
    <2>2. /\ dma'.left = dma.left - 1
          /\ dma'.state = IF dma.left > 1 THEN "receive" ELSE IF dma.remaining = 0 THEN "idle" ELSE "reserve"
        BY <1>1, <1>13, <2>1 DEF FetchTick, DmaTick
    <2>3. dma.left > 0
        BY <2>1 DEF Burst
    <2>4. Unfilled = dma.left /\ Unfilled' = dma.left - 1
        BY <1>1, <1>9, <1>10, <2>1, <2>2, <2>3
    <2>10. Moved(1, 0)
        BY <1>5, <1>15, <1>1, <1>4, <1>6, <1>7, <1>13, <1>16, <2>1, <2>4
    <2> HIDE DEF Moved
    <2> QED
        BY <1>17, <2>1, <2>10
<1>14. CASE ~Reserve /\ ~(dma.state = "command" /\ in.cmd) /\ ~InstructionWrite(in)
    <2>1. dma' = dma
        BY <1>14 DEF FetchTick, DmaTick
    <2>2. Unfilled' = Unfilled
        BY <1>9, <1>10, <2>1
    <2>3. Unfilled \in Int
        BY <1>1, <1>10
    <2>10. Moved(0, 0)
        BY <1>5, <1>15, <1>1, <1>4, <1>6, <1>8, <1>14, <1>16, <2>2
    <2> HIDE DEF Moved
    <2> QED
        BY <1>17, <2>1, <2>10
<1> QED
    BY <1>11, <1>12, <1>13, <1>14

\* The registers keep their types, and the burst machine its sums; the host may
\* replace the stream while the machine is idle.
LEMMA TickTypes ==
    ASSUME FetchTypes, Receivable, Requests, Burst,
           stream' \in Seq(Insn), stream' = stream \/ dma.state = "idle",
           NEW in, NEW taken, FetchTick(in, taken)
    PROVE  FetchTypes' /\ Burst'
<1> USE RtlFetchAssumption
<1>1. /\ dma.state \in {"idle", "reserve", "command", "receive"}
      /\ dma.remaining \in Nat /\ dma.selected \in Nat /\ dma.left \in Nat
      /\ dma \in [state : {"idle", "reserve", "command", "receive"},
                  remaining : Nat, selected : Nat, left : Nat]
      /\ mem \in [Slot -> Nat] /\ reqQ \in Seq(Core) /\ pending \in [Core -> BOOLEAN]
      /\ next \in [Core -> Nat] /\ freeCount \in Int
      /\ read = NoRead \/ read \in [client : Core, slot : Slot, data : Nat]
      /\ Len(stream) \in Nat /\ Len(stream') \in Nat
    BY LenProperties DEF FetchTypes
<1>2. Received \in Int /\ Arriving \in Int /\ (dma.state = "receive" => Arriving \in Nat)
    <2>1. dma.remaining + dma.left <= Len(stream)
        BY DEF Burst
    <2> QED
        BY <1>1, <2>1 DEF Received, Arriving
<1>3. Wanted \in Nat /\ (dma.state = "reserve" => 0 < Wanted /\ Wanted <= dma.remaining)
    BY <1>1 DEF Wanted, Burst
<1>4. /\ dma' \in [state : {"idle", "reserve", "command", "receive"},
                   remaining : Nat, selected : Nat, left : Nat]
      /\ Burst'
    <2>1. dma.remaining + dma.left <= Len(stream)
        BY DEF Burst
    <2>2. dma.state = "idle" => dma.remaining = 0 /\ dma.left = 0
        BY DEF Burst
    <2>3. dma.remaining + dma.left <= Len(stream')
        BY <1>1, <2>1, <2>2
    <2>4. CASE Reserve
        <3>1. dma.state = "reserve" /\ ~InstructionWrite(in)
            BY <2>4 DEF Reserve, InstructionWrite
        <3>2. dma' = [dma EXCEPT !.state = "command", !.selected = Wanted]
            BY <2>4, <3>1 DEF FetchTick, DmaTick
        <3> QED
            BY <1>1, <1>3, <2>3, <3>1, <3>2 DEF Burst
    <2>5. CASE dma.state = "command" /\ in.cmd
        <3>1. ~Reserve /\ ~InstructionWrite(in)
            BY <2>5 DEF Reserve, InstructionWrite
        <3>2. dma' = [dma EXCEPT !.state = "receive", !.left = dma.selected,
                                 !.remaining = @ - dma.selected]
            BY <2>5, <3>1 DEF FetchTick, DmaTick
        <3>3. 0 < dma.selected /\ dma.selected <= dma.remaining /\ dma.left = 0
            BY <2>5 DEF Burst
        <3>4. /\ dma'.state = "receive" /\ dma'.left = dma.selected
              /\ dma'.remaining = dma.remaining - dma.selected /\ dma'.selected = dma.selected
            BY <1>1, <3>2
        <3>5. dma' \in [state : {"idle", "reserve", "command", "receive"},
                        remaining : Nat, selected : Nat, left : Nat]
            <4>1. dma.remaining - dma.selected \in Nat
                BY <1>1, <3>3
            <4> QED
                BY <1>1, <3>2, <4>1
        <3> QED
            BY <1>1, <2>3, <3>3, <3>4, <3>5 DEF Burst
    <2>6. CASE InstructionWrite(in)
        <3>1. dma.state = "receive" /\ ~Reserve /\ ~(dma.state = "command" /\ in.cmd)
            BY <2>6 DEF InstructionWrite, Reserve
        <3>2. dma' = [dma EXCEPT !.left = @ - 1,
                                 !.state = IF dma.left > 1 THEN "receive"
                                           ELSE IF dma.remaining = 0 THEN "idle" ELSE "reserve"]
            BY <2>6, <3>1 DEF FetchTick, DmaTick
        <3>3. dma.left > 0
            BY <3>1 DEF Burst
        <3>4. /\ dma'.left = dma.left - 1 /\ dma'.remaining = dma.remaining /\ dma'.selected = dma.selected
              /\ dma'.state = IF dma.left > 1 THEN "receive"
                              ELSE IF dma.remaining = 0 THEN "idle" ELSE "reserve"
            BY <1>1, <3>2
        <3>5. dma' \in [state : {"idle", "reserve", "command", "receive"},
                        remaining : Nat, selected : Nat, left : Nat]
            <4>1. PICK st \in {"idle", "reserve", "command", "receive"} :
                     st = IF dma.left > 1 THEN "receive" ELSE IF dma.remaining = 0 THEN "idle" ELSE "reserve"
                OBVIOUS
            <4>2. dma.left - 1 \in Nat
                BY <1>1, <3>3
            <4>3. dma' = [dma EXCEPT !.left = dma.left - 1, !.state = st]
                BY <3>2, <4>1
            <4> QED
                BY <1>1, <4>2, <4>3
        <3>6. CASE dma.left > 1
            BY <1>1, <2>3, <3>3, <3>4, <3>5, <3>6 DEF Burst
        <3>7. CASE ~(dma.left > 1)
            BY <1>1, <2>3, <3>3, <3>4, <3>5, <3>7 DEF Burst
        <3> QED
            BY <3>6, <3>7
    <2>7. CASE ~Reserve /\ ~(dma.state = "command" /\ in.cmd) /\ ~InstructionWrite(in)
        <3>1. dma' = dma
            BY <2>7 DEF FetchTick, DmaTick
        <3> QED
            BY <1>1, <2>3, <3>1 DEF Burst
    <2> QED
        BY <2>4, <2>5, <2>6, <2>7
<1>5. mem' \in [Slot -> Nat]
    <2>1. CASE InstructionWrite(in)
        <3>1. mem' = [mem EXCEPT ![AllocatedSlot] = Arriving]
            BY <2>1, TickQueues
        <3>2. Arriving \in Nat
            BY <1>2, <2>1 DEF InstructionWrite
        <3> QED
            BY <1>1, <3>1, <3>2
    <2>2. CASE ~InstructionWrite(in)
        <3>1. mem' = mem
            BY <2>2, TickQueues
        <3> QED
            BY <1>1, <3>1
    <2> QED
        BY <2>1, <2>2
<1>6. read' \in {NoRead} \cup [client : Core, slot : Slot, data : Nat]
    <2>1. LocalRead(in) => read' \in [client : Core, slot : Slot, data : Nat]
        BY TickQueues
    <2>2. ~LocalRead(in) => read' = NoRead
        BY TickQueues
    <2> QED
        BY <2>1, <2>2
<1>7. next' \in [Core -> Nat]
    <2>1. \A c \in Core : Filled(c) => read.data \in Nat
        BY <1>1 DEF Filled, NoRead, Core
    <2>2. next' = [c \in Core |-> IF Filled(c) THEN read.data ELSE IF c \in taken THEN 0 ELSE next[c]]
        BY DEF FetchTick
    <2> QED
        BY <1>1, <2>1, <2>2
<1>8. freeCount' \in Int
    BY <1>1, <1>3 DEF FetchTick
<1>9. reqQ' \in Seq(Core)
    <2>1. PICK old : old = IF LocalRead(in) THEN Tail(reqQ) ELSE reqQ
        OBVIOUS
    <2>2. old \in Seq(Core)
        <3>1. LocalRead(in) => reqQ # <<>>
            BY DEF LocalRead
        <3> QED
            BY <1>1, <2>1, <3>1, Sequence
    <2>3. reqQ' = old \o (IF Granted = {} THEN <<>> ELSE <<CHOOSE c \in Granted : TRUE>>)
        BY <2>1 DEF FetchTick
    <2>4. CASE Granted = {}
        BY <2>2, <2>3, <2>4, Sequence
    <2>5. CASE Granted # {}
        <3>1. (CHOOSE c \in Granted : TRUE) \in Core
            BY <2>5, GrantsOne
        <3>2. reqQ' = old \o <<CHOOSE c \in Granted : TRUE>>
            BY <2>3, <2>5
        <3> QED
            BY <2>2, <3>1, <3>2, Sequence
    <2> QED
        BY <2>4, <2>5
<1>10. pending' \in [Core -> BOOLEAN]
    BY DEF FetchTick
<1>11. addrQ' \in [Core -> Seq(Slot)] /\ freeQ' \in Seq(Slot) /\ virgin' \in 0..Slots
    BY TickQueues
<1> QED
    BY <1>4, <1>5, <1>6, <1>7, <1>8, <1>9, <1>10, <1>11 DEF FetchTypes

LEMMA TickRequests ==
    ASSUME FetchTypes, Receivable, Requests,
           NEW in, NEW taken, FetchTick(in, taken)
    PROVE  Requests'
<1>1. /\ reqQ \in Seq(Core) /\ pending \in [Core -> BOOLEAN] /\ next \in [Core -> Nat]
      /\ addrQ \in [Core -> Seq(Slot)]
      /\ read = NoRead \/ read \in [client : Core, slot : Slot, data : Nat]
    BY DEF FetchTypes
<1>2. /\ \A c \in Core : pending'[c] <=> ~Filled(c) /\ (pending[c] \/ c \in Granted)
      /\ \A c \in Core : next'[c] = IF Filled(c) THEN read.data ELSE IF c \in taken THEN 0 ELSE next[c]
      /\ reqQ' = (IF LocalRead(in) THEN Tail(reqQ) ELSE reqQ)
                 \o (IF Granted = {} THEN <<>> ELSE <<CHOOSE c \in Granted : TRUE>>)
    BY DEF FetchTick
<1>3. /\ \A c \in Core : pending[c] => next[c] = 0
      /\ \A i \in DOMAIN reqQ : pending[reqQ[i]] /\ addrQ[reqQ[i]] # <<>> /\ read.client # reqQ[i]
      /\ \A i, j \in DOMAIN reqQ : reqQ[i] = reqQ[j] => i = j
      /\ read # NoRead => pending[read.client]
    BY DEF Requests
<1>4. \A c \in Granted : c \in Core /\ next[c] = 0 /\ ~pending[c] /\ addrQ[c] # <<>> /\ ~Filled(c)
    <2>1. \A c \in Granted : c \in Core /\ next[c] = 0 /\ ~pending[c] /\ addrQ[c] # <<>>
        BY GrantsOne DEF WantsNext
    <2>2. \A c \in Core : Filled(c) => pending[c]
        BY <1>3 DEF Filled, NoRead, Core
    <2> QED
        BY <2>1, <2>2
<1>5. \A c \in Core : pending'[c] => next'[c] = 0
    BY <1>2, <1>3, <1>4
\* A stage keeps its addresses unless it is the one that reads.
<1>6. \A c \in Core : addrQ[c] # <<>> /\ ~(LocalRead(in) /\ c = Head(reqQ)) => addrQ'[c] # <<>>
    <2>1. CASE LocalRead(in)
        <3>1. \A c \in Core : addrQ'[c] = IF c = Head(reqQ) THEN Tail(addrQ[c]) ELSE addrQ[c]
            BY <2>1, TickQueues
        <3> QED
            BY <2>1, <3>1
    <2>2. CASE InstructionWrite(in)
        <3>1. \A c \in Core : addrQ'[c] = IF c = Target THEN Append(addrQ[c], AllocatedSlot) ELSE addrQ[c]
            BY <2>2, TickQueues
        <3>2. AllocatedSlot \in Slot
            BY <2>2, Port
        <3>3. \A s \in Seq(Slot), x \in Slot : Append(s, x) # <<>>
            BY AppendProperties
        <3> QED
            BY <1>1, <3>1, <3>2, <3>3
    <2>3. CASE ~LocalRead(in) /\ ~InstructionWrite(in)
        <3>1. \A c \in Core : addrQ'[c] = addrQ[c]
            BY <2>3, TickQueues
        <3> QED
            BY <3>1
    <2> QED
        BY <2>1, <2>2, <2>3
<1>7. \A c \in Core : ~(LocalRead(in) /\ c = Head(reqQ)) => read'.client # c
    <2>1. CASE LocalRead(in)
        <3>1. read' = [client |-> Head(reqQ), slot |-> Head(addrQ[Head(reqQ)]),
                       data |-> mem[Head(addrQ[Head(reqQ)])]]
            BY <2>1, TickQueues
        <3> QED
            BY <2>1, <3>1
    <2>2. CASE ~LocalRead(in)
        <3>1. read' = NoRead
            BY <2>2, TickQueues
        <3> QED
            BY <3>1 DEF NoRead, Core
    <2> QED
        BY <2>1, <2>2
\* The requests that stay, and where they were.
<1>8. PICK old : old = IF LocalRead(in) THEN Tail(reqQ) ELSE reqQ
    OBVIOUS
<1>9. PICK sh \in {0, 1} : sh = IF LocalRead(in) THEN 1 ELSE 0
    OBVIOUS
<1>10. /\ old \in Seq(Core) /\ DOMAIN old = 1..Len(old) /\ Len(old) \in Nat
       /\ \A i \in DOMAIN old : i \in Int /\ i + sh \in DOMAIN reqQ /\ old[i] = reqQ[i + sh]
       /\ \A i \in DOMAIN old : ~(LocalRead(in) /\ old[i] = Head(reqQ))
    <2>1. Len(reqQ) \in Nat /\ DOMAIN reqQ = 1..Len(reqQ)
        BY <1>1, LenProperties
    <2>2. CASE LocalRead(in)
        <3>1. /\ reqQ # <<>> /\ Head(reqQ) = reqQ[1] /\ 1 \in DOMAIN reqQ
            BY <2>2, Port
        <3>2. /\ Tail(reqQ) \in Seq(Core) /\ Len(Tail(reqQ)) = Len(reqQ) - 1 /\ Len(Tail(reqQ)) \in Nat
              /\ \A i \in 1..Len(Tail(reqQ)) : Tail(reqQ)[i] = reqQ[i + 1]
            BY <1>1, <3>1, HeadTailProperties, LenProperties
        <3>3. DOMAIN Tail(reqQ) = 1..Len(Tail(reqQ))
            BY <3>2, LenProperties
        <3>4. old = Tail(reqQ) /\ sh = 1
            BY <1>8, <1>9, <2>2
        <3>5. \A i \in 1..Len(Tail(reqQ)) : i \in Int /\ i + 1 \in DOMAIN reqQ /\ i + 1 # 1
            BY <2>1, <3>2
        <3> QED
            BY <1>3, <3>1, <3>2, <3>3, <3>4, <3>5
    <2>3. CASE ~LocalRead(in)
        <3>1. old = reqQ /\ sh = 0
            BY <1>8, <1>9, <2>3
        <3> QED
            BY <1>1, <2>1, <2>3, <3>1
    <2> QED
        BY <2>2, <2>3
<1>11. \A i \in DOMAIN old : /\ pending'[old[i]] /\ addrQ'[old[i]] # <<>> /\ read'.client # old[i]
                             /\ old[i] \notin Granted
    <2>1. \A i \in DOMAIN old : /\ old[i] \in Core /\ pending[old[i]] /\ addrQ[old[i]] # <<>> /\ ~Filled(old[i])
        BY <1>3, <1>10 DEF Filled
    <2> QED
        BY <1>2, <1>4, <1>6, <1>7, <1>10, <2>1
<1>12. \A i, j \in DOMAIN old : old[i] = old[j] => i = j
    <2> SUFFICES ASSUME NEW i \in DOMAIN old, NEW j \in DOMAIN old, old[i] = old[j]
                 PROVE  i = j
        OBVIOUS
    <2>1. i + sh = j + sh
        BY <1>3, <1>10
    <2> QED
        BY <1>10, <2>1
<1>13. read' # NoRead => pending'[read'.client]
    <2>1. CASE LocalRead(in)
        <3>1. read' = [client |-> Head(reqQ), slot |-> Head(addrQ[Head(reqQ)]),
                       data |-> mem[Head(addrQ[Head(reqQ)])]]
            BY <2>1, TickQueues
        <3>2. Head(reqQ) \in Core /\ pending[Head(reqQ)] /\ read = NoRead
            BY <2>1, Port
        <3> QED
            BY <1>2, <3>1, <3>2 DEF Filled, NoRead, Core
    <2>2. CASE ~LocalRead(in)
        BY <2>2, TickQueues
    <2> QED
        BY <2>1, <2>2
<1>14. CASE Granted = {}
    <2>1. reqQ' = old
        <3>1. reqQ' = old \o <<>>
            BY <1>2, <1>8, <1>14
        <3> QED
            BY <1>10, <3>1, Sequence
    <2> QED
        BY <1>5, <1>11, <1>12, <1>13, <2>1 DEF Requests
<1>15. CASE Granted # {}
    <2>1. PICK g \in Granted : g = CHOOSE c \in Granted : TRUE
        BY <1>15
    <2>2. reqQ' = Append(old, g) /\ g \in Core
        <3>1. reqQ' = old \o <<g>> /\ g \in Core
            BY <1>2, <1>4, <1>8, <1>15, <2>1
        <3> QED
            BY <1>10, <3>1, Sequence
    <2>3. /\ pending'[g] /\ addrQ'[g] # <<>> /\ read'.client # g
        <3>1. LocalRead(in) => g # Head(reqQ)
            BY <1>4, <2>1, Port
        <3> QED
            BY <1>2, <1>4, <1>6, <1>7, <2>2, <3>1
    <2>4. /\ DOMAIN reqQ' = 1..Len(old) + 1 /\ reqQ'[Len(old) + 1] = g
          /\ \A i \in 1..Len(old) : reqQ'[i] = old[i]
        <3>1. Append(old, g) \in Seq(Core) /\ Len(Append(old, g)) = Len(old) + 1
            BY <1>10, <2>2, AppendProperties
        <3> QED
            BY <1>10, <2>2, <3>1, AppendProperties, LenProperties
    <2>5. \A i \in DOMAIN reqQ' : i \in DOMAIN old \/ i = Len(old) + 1
        BY <1>10, <2>4
    <2>6. \A i \in DOMAIN old : reqQ'[i] = old[i] /\ reqQ'[i] # g
        BY <1>10, <1>11, <2>1, <2>4
    <2>7. \A i \in DOMAIN reqQ' : pending'[reqQ'[i]] /\ addrQ'[reqQ'[i]] # <<>> /\ read'.client # reqQ'[i]
        BY <1>11, <2>3, <2>4, <2>5, <2>6
    <2>8. \A i, j \in DOMAIN reqQ' : reqQ'[i] = reqQ'[j] => i = j
        BY <1>12, <2>4, <2>5, <2>6
    <2> QED
        BY <1>5, <1>13, <2>7, <2>8 DEF Requests
<1> QED
    BY <1>14, <1>15

--------------------------------------------------------------------------------
(* The line of a stage: a cycle only appends to it.                            *)

LEMMA Concats ==
    /\ <<>> \in Seq(Nat) /\ \A x \in Nat : <<x>> \in Seq(Nat)
    /\ \A s, t \in Seq(Nat) : s \o t \in Seq(Nat)
    /\ \A s \in Seq(Nat) : s \o <<>> = s /\ <<>> \o s = s
BY EmptySeq, ConcatProperties, ConcatEmptySeq

\* One instance at a time: the equation itself makes the provers loop.
Associates(s, t, u) == (s \o t) \o u = s \o (t \o u)
LEMMA Associative == \A s, t, u \in Seq(Nat) : Associates(s, t, u)
BY ConcatAssociative DEF Associates

\* The instructions at some slots.
Contents(s, m) == [i \in DOMAIN s |-> m[s[i]]]

LEMMA ContentsOf ==
    ASSUME NEW s \in Seq(Slot), NEW m \in [Slot -> Nat]
    PROVE  /\ Contents(s, m) \in Seq(Nat) /\ Len(Contents(s, m)) = Len(s) /\ Len(s) \in Nat
           /\ \A i \in 1..Len(s) : s[i] \in Slot /\ Contents(s, m)[i] = m[s[i]] /\ m[s[i]] \in Nat
<1>1. Len(s) \in Nat /\ DOMAIN s = 1..Len(s) /\ \A i \in 1..Len(s) : s[i] \in Slot
    BY LenProperties, ElementOfSeq
<1>2. Contents(s, m) \in [1..Len(s) -> Nat]
    BY <1>1 DEF Contents
<1>3. Contents(s, m) \in Seq(Nat)
    BY <1>1, <1>2, SeqDef
<1>4. Len(Contents(s, m)) = Len(s)
    BY <1>1, <1>2, <1>3, LenProperties
<1> QED
    BY <1>1, <1>3, <1>4 DEF Contents

LEMMA ContentsFirst ==
    ASSUME NEW s \in Seq(Slot), NEW m \in [Slot -> Nat], s # <<>>
    PROVE  <<m[Head(s)]>> \o Contents(Tail(s), m) = Contents(s, m) /\ m[Head(s)] \in Nat
<1>1. /\ Head(s) = s[1] /\ Head(s) \in Slot /\ Tail(s) \in Seq(Slot) /\ Len(Tail(s)) = Len(s) - 1
      /\ \A i \in 1..Len(Tail(s)) : Tail(s)[i] = s[i + 1]
    BY HeadTailProperties
<1>2. PICK h \in Nat : h = m[Head(s)]
    BY <1>1
<1>3. PICK t : t = Contents(Tail(s), m)
    OBVIOUS
<1>4. /\ t \in Seq(Nat) /\ Len(t) = Len(s) - 1 /\ Len(s) - 1 \in Nat
      /\ \A i \in 1..Len(s) - 1 : t[i] = m[s[i + 1]]
    <2>1. /\ t \in Seq(Nat) /\ Len(t) = Len(Tail(s))
          /\ \A i \in 1..Len(Tail(s)) : t[i] = m[Tail(s)[i]]
        <3>1. PICK u \in Seq(Slot) : u = Tail(s)
            BY <1>1
        <3>2. /\ Contents(u, m) \in Seq(Nat) /\ Len(Contents(u, m)) = Len(u)
              /\ \A i \in 1..Len(u) : Contents(u, m)[i] = m[u[i]]
            BY ContentsOf
        <3> QED
            BY <1>3, <3>1, <3>2
    <2>2. Len(t) = Len(s) - 1 /\ Len(t) \in Nat
        BY <1>1, <2>1, LenProperties
    <2>3. \A i \in 1..Len(t) : t[i] = m[s[i + 1]]
        BY <1>1, <2>1
    <2> QED
        BY <2>1, <2>2, <2>3
<1>5. PICK k : k = Contents(s, m)
    OBVIOUS
<1>6. /\ k \in Seq(Nat) /\ Len(k) = Len(s) /\ Len(s) \in Nat
      /\ \A i \in 1..Len(s) : k[i] = m[s[i]]
    BY <1>5, ContentsOf
<1>7. <<h>> \in Seq(Nat) /\ Len(<<h>>) = 1 /\ <<h>>[1] = h
    OBVIOUS
<1>8. /\ <<h>> \o t \in Seq(Nat) /\ Len(<<h>> \o t) = 1 + Len(t)
      /\ \A i \in 1..1 + Len(t) : (<<h>> \o t)[i] = IF i <= 1 THEN <<h>>[i] ELSE t[i - 1]
    BY <1>4, <1>7, ConcatProperties
<1>9. \A i \in 1..Len(k) : (<<h>> \o t)[i] = k[i]
    <2> SUFFICES ASSUME NEW i \in 1..Len(k)
                 PROVE  (<<h>> \o t)[i] = k[i]
        OBVIOUS
    <2>1. CASE i = 1
        BY <1>1, <1>2, <1>4, <1>6, <1>7, <1>8, <2>1
    <2>2. CASE i # 1
        <3>1. i - 1 \in 1..Len(s) - 1 /\ (i - 1) + 1 = i /\ ~(i <= 1) /\ i \in 1..1 + Len(t) /\ i \in 1..Len(s)
            BY <1>4, <1>6, <2>2
        <3> QED
            BY <1>4, <1>6, <1>8, <3>1
    <2> QED
        BY <2>1, <2>2
<1>10. Len(<<h>> \o t) = Len(k)
    BY <1>4, <1>6, <1>8
<1>11. <<h>> \o t = k
    BY <1>6, <1>8, <1>9, <1>10, SeqEqual
<1> QED
    BY <1>2, <1>3, <1>5, <1>11

LEMMA ContentsPut ==
    ASSUME NEW s \in Seq(Slot), NEW m \in [Slot -> Nat], NEW x \in Slot, NEW v \in Nat,
           \A i \in DOMAIN s : s[i] # x
    PROVE  /\ Contents(s, [m EXCEPT ![x] = v]) = Contents(s, m)
           /\ Contents(Append(s, x), [m EXCEPT ![x] = v]) = Contents(s, m) \o <<v>>
<1>1. PICK n : n = [m EXCEPT ![x] = v]
    OBVIOUS
<1>2. n \in [Slot -> Nat] /\ n[x] = v /\ \A y \in Slot : y # x => n[y] = m[y]
    BY <1>1
<1>3. DOMAIN s = 1..Len(s)
    BY LenProperties
<1>4. PICK k : k = Contents(s, m)
    OBVIOUS
<1>5. /\ k \in Seq(Nat) /\ Len(k) = Len(s) /\ Len(s) \in Nat
      /\ \A i \in 1..Len(s) : s[i] \in Slot /\ k[i] = m[s[i]] /\ m[s[i]] \in Nat
    BY <1>4, ContentsOf
<1>6. Contents(s, n) = k
    <2>1. \A i \in DOMAIN s : n[s[i]] = m[s[i]]
        BY <1>2, <1>3, <1>5
    <2> QED
        BY <1>4, <2>1 DEF Contents
<1>7. Contents(Append(s, x), n) = k \o <<v>>
    <2>1. PICK a : a = Append(s, x)
        OBVIOUS
    <2>2. a \in Seq(Slot) /\ Len(a) = Len(s) + 1 /\ a[Len(s) + 1] = x /\ \A i \in 1..Len(s) : a[i] = s[i]
        BY <2>1, AppendProperties
    <2>3. PICK b : b = Contents(a, n)
        OBVIOUS
    <2>4. b \in Seq(Nat) /\ Len(b) = Len(s) + 1 /\ \A i \in 1..Len(s) + 1 : b[i] = n[a[i]]
        <3>1. b \in Seq(Nat) /\ Len(b) = Len(a) /\ \A i \in 1..Len(a) : b[i] = n[a[i]]
            BY <1>2, <2>2, <2>3, ContentsOf
        <3> QED
            BY <2>2, <3>1
    <2>5. <<v>> \in Seq(Nat) /\ Len(<<v>>) = 1 /\ <<v>>[1] = v
        OBVIOUS
    <2>6. /\ k \o <<v>> \in Seq(Nat) /\ Len(k \o <<v>>) = Len(k) + 1
          /\ \A i \in 1..Len(k) + 1 : (k \o <<v>>)[i] = IF i <= Len(k) THEN k[i] ELSE <<v>>[i - Len(k)]
        BY <1>5, <2>5, ConcatProperties
    <2>7. ASSUME NEW i \in 1..Len(b)
          PROVE  b[i] = (k \o <<v>>)[i]
        <3>1. CASE i = Len(s) + 1
            <4>1. b[i] = v
                BY <1>2, <2>2, <2>4, <3>1
            <4>2. ~(i <= Len(k)) /\ i - Len(k) = 1 /\ i \in 1..Len(k) + 1
                BY <1>5, <2>4, <3>1
            <4> QED
                BY <2>5, <2>6, <4>1, <4>2
        <3>2. CASE i # Len(s) + 1
            <4>1. i \in 1..Len(s) /\ i \in 1..Len(s) + 1 /\ i <= Len(k)
                BY <1>5, <2>4, <3>2
            <4>2. b[i] = n[s[i]] /\ s[i] \in Slot /\ s[i] # x
                BY <1>3, <1>5, <2>2, <2>4, <4>1
            <4>3. b[i] = k[i]
                BY <1>2, <1>5, <4>1, <4>2
            <4> QED
                BY <1>5, <2>6, <4>1, <4>3
        <3> QED
            BY <3>1, <3>2
    <2>8. Len(b) = Len(k \o <<v>>)
        BY <1>5, <2>4, <2>6
    <2>9. b = k \o <<v>>
        BY <2>4, <2>6, <2>7, <2>8, SeqEqual
    <2> QED
        BY <2>1, <2>3, <2>9
<1> QED
    BY <1>1, <1>4, <1>6, <1>7

\* What a stage has and what is still on its way to it.
Ahead(c) == ran[c] \o OneIf(cur[c] # 0, cur[c]) \o OneIf(next[c] # 0, next[c])
Coming(c) == OneIf(read.client = c, read.data) \o Contents(addrQ[c], mem)

LEMMA LineParts ==
    ASSUME FetchTypes, StageTypes, NEW c \in Core
    PROVE  /\ Line(c) = Ahead(c) \o Coming(c)
           /\ Ahead(c) \in Seq(Nat) /\ Coming(c) \in Seq(Nat) /\ Contents(addrQ[c], mem) \in Seq(Nat)
           /\ OneIf(read.client = c, read.data) \in Seq(Nat)
<1>1. PICK r \in Seq(Nat) : r = ran[c]
    BY DEF StageTypes
<1>2. PICK u \in Seq(Nat) : u = OneIf(cur[c] # 0, cur[c])
    <2>1. cur[c] \in Nat
        BY DEF StageTypes
    <2> QED
        BY <2>1, Concats DEF OneIf
<1>3. PICK n \in Seq(Nat) : n = OneIf(next[c] # 0, next[c])
    <2>1. next[c] \in Nat
        BY DEF FetchTypes
    <2> QED
        BY <2>1, Concats DEF OneIf
<1>4. PICK f \in Seq(Nat) : f = OneIf(read.client = c, read.data)
    <2>1. read.client = c => read.data \in Nat
        BY DEF FetchTypes, NoRead, Core
    <2> QED
        BY <2>1, Concats DEF OneIf
<1>5. PICK k \in Seq(Nat) : k = Contents(addrQ[c], mem)
    BY ContentsOf DEF FetchTypes
<1>6. PICK a : a = (r \o u) \o n
    OBVIOUS
<1>7. a \in Seq(Nat)
    BY <1>6, Concats
<1>8. Line(c) = (a \o f) \o k
    BY <1>1, <1>2, <1>3, <1>4, <1>5, <1>6 DEF Line, Contents
<1>9. Ahead(c) = a
    BY <1>1, <1>2, <1>3, <1>6 DEF Ahead
<1>10. Coming(c) = f \o k
    BY <1>4, <1>5 DEF Coming
<1>11. (a \o f) \o k = a \o (f \o k) /\ f \o k \in Seq(Nat)
    <2>1. Associates(a, f, k)
        BY <1>7, Associative
    <2>2. f \o k \in Seq(Nat)
        BY ConcatProperties
    <2> QED
        BY <2>1, <2>2 DEF Associates
<1> QED
    BY <1>4, <1>5, <1>7, <1>8, <1>9, <1>10, <1>11

LEMMA TickAhead ==
    ASSUME FetchTypes, StageTypes, Requests, read # NoRead => read.data # 0,
           NEW in, FetchTick(in, {o \in Core : Takes(o, in)}), StageTick(in), NEW c \in Core,
           ran'[c] = ran[c] \o OneIf(Completes(c, in), cur[c])
    PROVE  Ahead(c)' = Ahead(c) \o OneIf(Filled(c), read.data)
<1>1. /\ cur[c] \in Nat /\ next[c] \in Nat /\ ran[c] \in Seq(Nat)
      /\ Filled(c) => read.data \in Nat /\ read.data # 0 /\ next[c] = 0
      /\ Completes(c, in) => cur[c] # 0
    <2>1. cur[c] \in Nat /\ next[c] \in Nat /\ ran[c] \in Seq(Nat)
        BY DEF FetchTypes, StageTypes
    <2>2. Filled(c) => read # NoRead
        BY DEF Filled, NoRead, Core
    <2>3. Filled(c) => read.data \in Nat
        BY <2>2 DEF FetchTypes
    <2>4. Filled(c) => next[c] = 0
        BY <2>2 DEF Requests, Filled
    <2>5. Completes(c, in) => cur[c] # 0
        BY DEF StageTypes, Completes
    <2> QED
        BY <2>1, <2>2, <2>3, <2>4, <2>5
<1>2. /\ cur'[c] = IF Takes(c, in) THEN next[c] ELSE IF Completes(c, in) THEN 0 ELSE cur[c]
      /\ next'[c] = IF Filled(c) THEN read.data ELSE IF Takes(c, in) THEN 0 ELSE next[c]
    BY DEF StageTick, FetchTick
<1>3. Takes(c, in) => next[c] # 0 /\ ~Filled(c) /\ (cur[c] = 0 \/ Completes(c, in))
    BY <1>1 DEF Takes
<1>4. ~Takes(c, in) /\ Completes(c, in) => next[c] = 0
    BY DEF Takes
<1>5. PICK r \in Seq(Nat) : r = ran[c]
    BY <1>1
<1>6. PICK u \in Seq(Nat) : u = OneIf(cur[c] # 0, cur[c])
    BY <1>1, Concats DEF OneIf
<1>7. PICK n \in Seq(Nat) : n = OneIf(next[c] # 0, next[c])
    BY <1>1, Concats DEF OneIf
<1>8. PICK f \in Seq(Nat) : f = OneIf(Filled(c), read.data)
    BY <1>1, Concats DEF OneIf
<1>9. PICK d \in Seq(Nat) : d = OneIf(Completes(c, in), cur[c])
    BY <1>1, Concats DEF OneIf
<1>10. PICK v : v = OneIf(cur'[c] # 0, cur'[c])
    OBVIOUS
<1>11. PICK w : w = OneIf(next'[c] # 0, next'[c])
    OBVIOUS
<1>12. Ahead(c)' = ((r \o d) \o v) \o w
    BY <1>5, <1>9, <1>10, <1>11 DEF Ahead
<1>13. Ahead(c) = (r \o u) \o n
    BY <1>5, <1>6, <1>7 DEF Ahead
<1>14. ((r \o d) \o v) \o w = ((r \o u) \o n) \o f
    <2>1. CASE Takes(c, in) /\ Completes(c, in)
        <3>1. d = u /\ v = n /\ w = <<>> /\ f = <<>>
            BY <1>1, <1>2, <1>3, <1>6, <1>7, <1>8, <1>9, <1>10, <1>11, <2>1 DEF OneIf
        <3> QED
            BY <3>1
    <2>2. CASE Takes(c, in) /\ ~Completes(c, in)
        <3>1. d = <<>> /\ u = <<>> /\ v = n /\ w = <<>> /\ f = <<>>
            BY <1>1, <1>2, <1>3, <1>6, <1>7, <1>8, <1>9, <1>10, <1>11, <2>2 DEF OneIf
        <3> QED
            BY <3>1
    <2>3. CASE ~Takes(c, in) /\ Completes(c, in)
        <3>1. d = u /\ v = <<>> /\ n = <<>> /\ w = f
            BY <1>1, <1>2, <1>4, <1>6, <1>7, <1>8, <1>9, <1>10, <1>11, <2>3 DEF OneIf
        <3> QED
            BY <3>1
    <2>4. CASE ~Takes(c, in) /\ ~Completes(c, in)
        <3>1. d = <<>> /\ v = u /\ r \o d = r
            BY <1>2, <1>6, <1>9, <1>10, <2>4, Concats DEF OneIf
        <3>2. CASE Filled(c)
            <4>1. n = <<>> /\ w = f
                BY <1>1, <1>2, <1>7, <1>8, <1>11, <2>4, <3>2 DEF OneIf
            <4> QED
                BY <3>1, <4>1, Concats
        <3>3. CASE ~Filled(c)
            <4>1. w = n /\ f = <<>>
                BY <1>2, <1>7, <1>8, <1>11, <2>4, <3>3 DEF OneIf
            <4> QED
                BY <3>1, <4>1, Concats
        <3> QED
            BY <3>2, <3>3
    <2> QED
        BY <2>1, <2>2, <2>3, <2>4
<1> QED
    BY <1>8, <1>12, <1>13, <1>14

\* A slot that is written is not one a stage still has to read.
LEMMA WriteIsFresh ==
    ASSUME FetchTypes, Receivable, Requests, Placed(Where, Used), NEW in, InstructionWrite(in)
    PROVE  \A c \in Core : \A i \in DOMAIN addrQ[c] : addrQ[c][i] # AllocatedSlot
<1>1. /\ Where["free"] = freeQ /\ "free" \in Place
      /\ \A c \in Core : c \in Place /\ Where[c] = addrQ[c] /\ c # "free"
    BY Places
<1>2. virgin \in 0..Slots /\ addrQ \in [Core -> Seq(Slot)] /\ freeQ \in Seq(Slot) /\ Slots \in Nat
    BY RtlFetchAssumption DEF FetchTypes
<1> SUFFICES ASSUME NEW c \in Core, NEW i \in DOMAIN addrQ[c], addrQ[c][i] = AllocatedSlot
             PROVE  FALSE
    OBVIOUS
<1>3. AllocatedSlot \in Slot
    BY Port
<1>4. CASE virgin < Slots
    <2>1. AllocatedSlot = virgin
        BY <1>4, Port
    <2>2. AllocatedSlot \in Used
        BY <1>1, <1>3 DEF Placed
    <2> QED
        BY <1>2, <2>1, <2>2 DEF Used
<1>5. CASE ~(virgin < Slots)
    <2>1. freeQ # <<>> /\ AllocatedSlot = Head(freeQ)
        BY <1>5, Port
    <2>2. Head(freeQ) = freeQ[1] /\ 1 \in DOMAIN freeQ
        <3>1. Len(freeQ) \in Nat \ {0} /\ DOMAIN freeQ = 1..Len(freeQ)
            BY <1>2, <2>1, EmptySeq, LenProperties
        <3> QED
            BY <1>2, <3>1
    <2> QED
        BY <1>1, <2>1, <2>2 DEF Placed
<1> QED
    BY <1>4, <1>5

LEMMA TickComing ==
    ASSUME FetchTypes, StageTypes, Receivable, Requests, Placed(Where, Used),
           dma.state = "receive" => Arriving \in Nat,
           NEW in, NEW taken, FetchTick(in, taken), NEW c \in Core
    PROVE  /\ OneIf(Filled(c), read.data) \o Coming(c)'
                = Coming(c) \o OneIf(InstructionWrite(in) /\ Target = c, Arriving)
           /\ Coming(c)' \in Seq(Nat)
<1>1. addrQ[c] \in Seq(Slot) /\ mem \in [Slot -> Nat] /\ addrQ \in [Core -> Seq(Slot)]
    BY DEF FetchTypes
<1>2. PICK f \in Seq(Nat) : f = OneIf(Filled(c), read.data)
    BY LineParts DEF Filled
<1>3. PICK k \in Seq(Nat) : k = Contents(addrQ[c], mem)
    BY LineParts
<1>4. Coming(c) = f \o k
    BY <1>2, <1>3 DEF Coming, Filled
<1>5. PICK e \in Seq(Nat) : e = OneIf(InstructionWrite(in) /\ Target = c, Arriving)
    <2>1. InstructionWrite(in) => Arriving \in Nat
        BY DEF InstructionWrite
    <2> QED
        BY <2>1, Concats DEF OneIf
<1>6. Coming(c)' = OneIf(read'.client = c, read'.data) \o Contents(addrQ'[c], mem')
    BY DEF Coming, Contents
<1>7. CASE LocalRead(in)
    <2>1. /\ read = NoRead /\ Head(reqQ) \in Core /\ addrQ[Head(reqQ)] # <<>> /\ ~InstructionWrite(in)
        BY <1>7, Port DEF LocalRead
    <2>2. f = <<>> /\ e = <<>>
        BY <1>2, <1>5, <2>1 DEF OneIf, Filled, NoRead, Core
    <2>3. mem' = mem
        BY <2>1, TickQueues
    <2>4. /\ addrQ'[c] = IF c = Head(reqQ) THEN Tail(addrQ[c]) ELSE addrQ[c]
          /\ read'.client = Head(reqQ) /\ (c = Head(reqQ) => read'.data = mem[Head(addrQ[c])])
        <3>1. /\ \A o \in Core : addrQ'[o] = IF o = Head(reqQ) THEN Tail(addrQ[o]) ELSE addrQ[o]
              /\ read' = [client |-> Head(reqQ), slot |-> Head(addrQ[Head(reqQ)]),
                          data |-> mem[Head(addrQ[Head(reqQ)])]]
            BY <1>7, TickQueues
        <3> QED
            BY <3>1
    <2>5. Coming(c)' = k
        <3>1. CASE c = Head(reqQ)
            <4>1. OneIf(read'.client = c, read'.data) = <<mem[Head(addrQ[c])]>>
                BY <2>4, <3>1 DEF OneIf
            <4>2. <<mem[Head(addrQ[c])]>> \o Contents(Tail(addrQ[c]), mem) = k
                BY <1>1, <1>3, <2>1, <3>1, ContentsFirst
            <4> QED
                BY <1>6, <2>3, <2>4, <3>1, <4>1, <4>2
        <3>2. CASE c # Head(reqQ)
            <4>1. OneIf(read'.client = c, read'.data) = <<>>
                BY <2>4, <3>2 DEF OneIf
            <4> QED
                BY <1>3, <1>6, <2>3, <2>4, <3>2, <4>1, Concats
        <3> QED
            BY <3>1, <3>2
    <2> QED
        BY <1>2, <1>4, <1>5, <2>2, <2>5, Concats
<1>8. CASE ~LocalRead(in)
    <2>1. OneIf(read'.client = c, read'.data) = <<>>
        <3>1. read' = NoRead
            BY <1>8, TickQueues
        <3> QED
            BY <3>1 DEF OneIf, NoRead, Core
    <2>2. Contents(addrQ'[c], mem') = k \o e
        <3>1. CASE InstructionWrite(in)
            <4>1. Target \in Core /\ AllocatedSlot \in Slot /\ Arriving \in Nat
                BY <3>1, Port
            <4>2. mem' = [mem EXCEPT ![AllocatedSlot] = Arriving]
                BY <3>1, TickQueues
            <4>3. addrQ'[c] = IF c = Target THEN Append(addrQ[c], AllocatedSlot) ELSE addrQ[c]
                BY <3>1, TickQueues
            <4>4. \A i \in DOMAIN addrQ[c] : addrQ[c][i] # AllocatedSlot
                BY <3>1, WriteIsFresh
            <4>5. /\ Contents(addrQ[c], [mem EXCEPT ![AllocatedSlot] = Arriving]) = k
                  /\ Contents(Append(addrQ[c], AllocatedSlot), [mem EXCEPT ![AllocatedSlot] = Arriving])
                        = k \o <<Arriving>>
                BY <1>1, <1>3, <4>1, <4>4, ContentsPut
            <4>6. CASE c = Target
                <5>1. e = <<Arriving>>
                    BY <1>5, <3>1, <4>6 DEF OneIf
                <5> QED
                    BY <4>2, <4>3, <4>5, <4>6, <5>1
            <4>7. CASE c # Target
                <5>1. e = <<>>
                    BY <1>5, <4>7 DEF OneIf
                <5> QED
                    BY <4>2, <4>3, <4>5, <4>7, <5>1, Concats
            <4> QED
                BY <4>6, <4>7
        <3>2. CASE ~InstructionWrite(in)
            <4>1. mem' = mem /\ addrQ'[c] = addrQ[c] /\ e = <<>>
                <5>1. mem' = mem
                    BY <3>2, TickQueues
                <5>2. addrQ'[c] = addrQ[c]
                    BY <1>8, <3>2, TickQueues
                <5> QED
                    BY <1>5, <3>2, <5>1, <5>2 DEF OneIf
            <4> QED
                BY <1>3, <4>1, Concats
        <3> QED
            BY <3>1, <3>2
    <2>3. k \o e \in Seq(Nat) /\ <<>> \o (k \o e) = k \o e /\ (f \o k) \o e = f \o (k \o e)
        <3>1. Associates(f, k, e)
            BY Associative
        <3> QED
            BY <3>1, Concats DEF Associates
    <2>4. Coming(c)' = k \o e
        BY <1>6, <2>1, <2>2, <2>3
    <2> QED
        BY <1>2, <1>4, <1>5, <2>3, <2>4
<1> QED
    BY <1>7, <1>8

LEMMA TickReceived ==
    ASSUME FetchTypes, Burst, stream' = stream, NEW in, NEW taken, FetchTick(in, taken)
    PROVE  Received' = IF InstructionWrite(in) THEN Received + 1 ELSE Received
<1>1. /\ dma.remaining \in Nat /\ dma.selected \in Nat /\ dma.left \in Nat /\ Len(stream) \in Nat
      /\ dma \in [state : {"idle", "reserve", "command", "receive"},
                  remaining : Nat, selected : Nat, left : Nat]
    BY LenProperties DEF FetchTypes
<1>2. Received' = Len(stream) - dma'.remaining - dma'.left /\ Received = Len(stream) - dma.remaining - dma.left
    BY DEF Received
<1>3. CASE Reserve
    <2>1. dma.state = "reserve" /\ ~InstructionWrite(in)
        BY <1>3 DEF Reserve, InstructionWrite
    <2>2. dma' = [dma EXCEPT !.state = "command", !.selected = Wanted]
        BY <1>3, <2>1 DEF FetchTick, DmaTick
    <2> QED
        BY <1>1, <1>2, <2>1, <2>2
<1>4. CASE dma.state = "command" /\ in.cmd
    <2>1. ~Reserve /\ ~InstructionWrite(in) /\ dma.left = 0
        BY <1>4 DEF Reserve, InstructionWrite, Burst
    <2>2. dma'.left = dma.selected /\ dma'.remaining = dma.remaining - dma.selected
        BY <1>1, <1>4, <2>1 DEF FetchTick, DmaTick
    <2> QED
        BY <1>1, <1>2, <2>1, <2>2
<1>5. CASE InstructionWrite(in)
    <2>1. ~Reserve /\ ~(dma.state = "command" /\ in.cmd)
        BY <1>5 DEF InstructionWrite, Reserve
    <2>2. dma'.left = dma.left - 1 /\ dma'.remaining = dma.remaining
        BY <1>1, <1>5, <2>1 DEF FetchTick, DmaTick
    <2> QED
        BY <1>1, <1>2, <1>5, <2>2
<1>6. CASE ~Reserve /\ ~(dma.state = "command" /\ in.cmd) /\ ~InstructionWrite(in)
    <2>1. dma' = dma
        BY <1>6 DEF FetchTick, DmaTick
    <2> QED
        BY <1>2, <1>6, <2>1
<1> QED
    BY <1>3, <1>4, <1>5, <1>6

\* What is in a stage's line after its current instruction.
After(c) == OneIf(next[c] # 0, next[c]) \o Coming(c)

LEMMA OneIfRange ==
    ASSUME NEW x \in Nat
    PROVE  /\ \A y : y \in Range(OneIf(TRUE, x)) <=> y = x
           /\ \A y : y \notin Range(OneIf(FALSE, x))
           /\ OneIf(TRUE, x) # <<>>
<1>1. <<x>> # <<>> /\ DOMAIN <<x>> = {1} /\ <<x>>[1] = x /\ DOMAIN <<>> = {}
    OBVIOUS
<1>2. \A y : y \in Range(<<x>>) <=> \E i \in DOMAIN <<x>> : y = <<x>>[i]
    BY DEF Range
<1>3. \A y : y \in Range(<<>>) <=> \E i \in DOMAIN <<>> : y = <<>>[i]
    BY DEF Range
<1>4. \A y : y \in Range(<<x>>) <=> y = x
    BY <1>1, <1>2
<1>5. \A y : y \notin Range(<<>>)
    BY <1>1, <1>3
<1> QED
    BY <1>1, <1>4, <1>5 DEF OneIf

LEMMA LineSplit ==
    ASSUME FetchTypes, StageTypes, NEW c \in Core
    PROVE  /\ Line(c) = (ran[c] \o OneIf(cur[c] # 0, cur[c])) \o After(c)
           /\ ran[c] \in Seq(Nat) /\ OneIf(cur[c] # 0, cur[c]) \in Seq(Nat) /\ After(c) \in Seq(Nat)
           /\ After(c) = <<>> => next[c] = 0 /\ read.client # c /\ addrQ[c] = <<>>
           /\ read.client = c => read.data \in Range(After(c))
<1>1. PICK r \in Seq(Nat) : r = ran[c]
    BY DEF StageTypes
<1>2. PICK u \in Seq(Nat) : u = OneIf(cur[c] # 0, cur[c])
    <2>1. cur[c] \in Nat
        BY DEF StageTypes
    <2> QED
        BY <2>1, Concats DEF OneIf
<1>3. next[c] \in Nat
    BY DEF FetchTypes
<1>4. PICK n \in Seq(Nat) : n = OneIf(next[c] # 0, next[c])
    BY <1>3, Concats DEF OneIf
<1>5. PICK f \in Seq(Nat) : f = OneIf(read.client = c, read.data)
    BY LineParts
<1>6. PICK k \in Seq(Nat) : k = Contents(addrQ[c], mem)
    BY LineParts
<1>7. PICK a \in Seq(Nat) : a = r \o u
    BY ConcatProperties
<1>8. PICK g \in Seq(Nat) : g = f \o k
    BY ConcatProperties
<1>9. PICK h \in Seq(Nat) : h = n \o g
    BY ConcatProperties
<1>10. Line(c) = (a \o n) \o g
    <2>1. Line(c) = Ahead(c) \o Coming(c)
        BY LineParts
    <2>2. Ahead(c) = a \o n
        BY <1>1, <1>2, <1>4, <1>7 DEF Ahead
    <2>3. Coming(c) = g
        BY <1>5, <1>6, <1>8 DEF Coming
    <2> QED
        BY <2>1, <2>2, <2>3
<1>11. After(c) = h
    BY <1>4, <1>5, <1>6, <1>8, <1>9 DEF After, Coming
<1>12. Line(c) = a \o h
    <2>1. Associates(a, n, g)
        BY Associative
    <2> QED
        BY <1>9, <1>10, <2>1 DEF Associates
<1>13. \A x, y \in Seq(Nat) : /\ Len(x \o y) = Len(x) + Len(y) /\ Len(x) \in Nat /\ Len(y) \in Nat
    BY ConcatProperties, LenProperties
<1>14. \A x \in Seq(Nat) : x = <<>> <=> Len(x) = 0
    BY EmptySeq
<1>15. h = <<>> => n = <<>> /\ f = <<>> /\ k = <<>>
    <2>1. Len(h) = Len(n) + (Len(f) + Len(k)) /\ Len(n) \in Nat /\ Len(f) \in Nat /\ Len(k) \in Nat
        BY <1>8, <1>9, <1>13
    <2> QED
        BY <1>14, <2>1
<1>16. n = <<>> => next[c] = 0
    BY <1>4 DEF OneIf
<1>17. f = <<>> => read.client # c
    BY <1>5 DEF OneIf
<1>18. k = <<>> => addrQ[c] = <<>>
    <2>1. addrQ[c] \in Seq(Slot) /\ Len(k) = Len(addrQ[c])
        BY <1>6, ContentsOf DEF FetchTypes
    <2>2. \A x \in Seq(Slot) : x = <<>> <=> Len(x) = 0
        BY EmptySeq
    <2> QED
        BY <1>14, <2>1, <2>2
<1>19. read.client = c => read.data \in Range(h)
    <2>1. \A x, y \in Seq(Nat) : Range(x \o y) = Range(x) \cup Range(y)
        BY RangeConcatenation
    <2>2. Range(g) = Range(f) \cup Range(k)
        BY <1>8, <2>1
    <2>4. Range(h) = Range(n) \cup Range(g)
        BY <1>9, <2>1
    <2>3. ASSUME read.client = c
          PROVE  read.data \in Range(f)
        <3>1. read.data \in Nat
            <4>1. read # NoRead
                BY <2>3 DEF NoRead, Core
            <4> QED
                BY <4>1 DEF FetchTypes
        <3>2. f = OneIf(TRUE, read.data)
            BY <1>5, <2>3 DEF OneIf
        <3> QED
            BY <3>1, <3>2, OneIfRange
    <2> QED
        BY <2>2, <2>3, <2>4
<1>20. Line(c) = (ran[c] \o OneIf(cur[c] # 0, cur[c])) \o After(c)
    BY <1>1, <1>2, <1>7, <1>11, <1>12
<1>21. ran[c] \in Seq(Nat) /\ OneIf(cur[c] # 0, cur[c]) \in Seq(Nat)
    BY <1>1, <1>2
<1> QED
    BY <1>11, <1>15, <1>16, <1>17, <1>18, <1>19, <1>20, <1>21

\* Where the members of a line stand.
LEMMA Positions ==
    ASSUME FetchTypes, StageTypes, Burst, DispatchedInOrder, Running, NEW c \in Core
    PROVE  /\ Received \in 0..Len(stream) /\ Len(stream) \in Nat
           /\ \A x \in Range(Line(c)) : x \in 1..Received /\ x \in DOMAIN stream /\ Dispatch(stream[x]) = c
           /\ \A x \in 1..Received : Dispatch(stream[x]) = c => x \in Range(Line(c))
           /\ \A x : x \in Range(Line(c)) <=> \/ x \in Range(ran[c]) \/ x \in Range(After(c))
                                              \/ cur[c] # 0 /\ x = cur[c]
           /\ cur[c] # 0 => \A x \in Range(ran[c]) : x < cur[c]
           /\ \A y \in Range(After(c)) : /\ \A x \in Range(ran[c]) : x < y
                                         /\ cur[c] # 0 => cur[c] < y
           /\ Rising(Line(c)) /\ Line(c) \in Seq(Nat)
<1>1. /\ Rising(Line(c)) /\ Range(Line(c)) = {i \in 1..Received : Dispatch(stream[i]) = c}
    BY DEF DispatchedInOrder, Rising
<1>2. Received \in 0..Len(stream) /\ Len(stream) \in Nat /\ DOMAIN stream = 1..Len(stream)
    <2>1. /\ dma.remaining \in Nat /\ dma.left \in Nat /\ Len(stream) \in Nat /\ DOMAIN stream = 1..Len(stream)
        BY LenProperties DEF FetchTypes
    <2>2. dma.remaining + dma.left <= Len(stream)
        BY DEF Burst
    <2> QED
        BY <2>1, <2>2 DEF Received
<1>3. cur[c] \in Nat
    BY DEF StageTypes
<1>4. PICK r \in Seq(Nat) : r = ran[c]
    BY LineSplit
<1>5. PICK u \in Seq(Nat) : u = OneIf(cur[c] # 0, cur[c])
    BY LineSplit
<1>6. PICK h \in Seq(Nat) : h = After(c)
    BY LineSplit
<1>7. PICK a \in Seq(Nat) : a = r \o u
    BY ConcatProperties
<1>8. PICK l \in Seq(Nat) : l = a \o h
    BY ConcatProperties
<1>9. Line(c) = l
    BY <1>4, <1>5, <1>6, <1>7, <1>8, LineSplit
<1>10. \A x, y \in Seq(Nat) : Range(x \o y) = Range(x) \cup Range(y)
    BY RangeConcatenation
<1>11. Range(a) = Range(r) \cup Range(u) /\ Range(l) = Range(a) \cup Range(h)
    BY <1>7, <1>8, <1>10
<1>12. \A x : x \in Range(u) <=> cur[c] # 0 /\ x = cur[c]
    <2>1. CASE cur[c] # 0
        <3>1. u = OneIf(TRUE, cur[c])
            BY <1>5, <2>1 DEF OneIf
        <3> QED
            BY <1>3, <2>1, <3>1, OneIfRange
    <2>2. CASE cur[c] = 0
        <3>1. u = OneIf(FALSE, cur[c])
            BY <1>5, <2>2 DEF OneIf
        <3> QED
            BY <1>3, <2>2, <3>1, OneIfRange
    <2> QED
        BY <2>1, <2>2
<1>13. \A x \in Range(a), y \in Range(h) : x < y
    <2>1. Rising(a \o h)
        BY <1>1, <1>8, <1>9
    <2> QED
        BY <2>1, RisingParts
<1>14. \A x \in Range(r), y \in Range(u) : x < y
    <2>1. Rising(r \o u)
        <3>1. /\ Len(a \o h) = Len(a) + Len(h) /\ a \o h \in Seq(Nat)
              /\ \A i \in 1..Len(a) + Len(h) : (a \o h)[i] = IF i <= Len(a) THEN a[i] ELSE h[i - Len(a)]
            BY ConcatProperties
        <3>2. /\ Len(a) \in Nat /\ DOMAIN a = 1..Len(a) /\ Len(h) \in Nat
              /\ DOMAIN (a \o h) = 1..Len(a) + Len(h)
            BY <3>1, LenProperties
        <3>3. \A i \in DOMAIN a : i \in DOMAIN (a \o h) /\ (a \o h)[i] = a[i]
            <4>1. \A i \in 1..Len(a) : i \in 1..Len(a) + Len(h) /\ i <= Len(a)
                BY <3>2
            <4> QED
                BY <3>1, <3>2, <4>1
        <3>4. Rising(a \o h)
            BY <1>1, <1>8, <1>9
        <3>5. Rising(a)
            BY <3>3, <3>4 DEF Rising
        <3> QED
            BY <1>7, <3>5
    <2> QED
        BY <2>1, RisingParts
<1>15. \A x : x \in Range(Line(c)) <=> \/ x \in Range(ran[c]) \/ x \in Range(After(c))
                                       \/ cur[c] # 0 /\ x = cur[c]
    BY <1>4, <1>6, <1>9, <1>11, <1>12
<1>16. cur[c] # 0 => \A x \in Range(ran[c]) : x < cur[c]
    BY <1>4, <1>12, <1>14
<1>17. \A y \in Range(After(c)) : /\ \A x \in Range(ran[c]) : x < y
                                  /\ cur[c] # 0 => cur[c] < y
    BY <1>4, <1>6, <1>11, <1>12, <1>13
<1>18. \A x \in Range(Line(c)) : x \in 1..Received /\ x \in DOMAIN stream /\ Dispatch(stream[x]) = c
    BY <1>1, <1>2
<1>19. Line(c) \in Seq(Nat)
    BY <1>9
<1> QED
    BY <1>1, <1>2, <1>15, <1>16, <1>17, <1>18, <1>19

LEMMA TickLine ==
    ASSUME FetchTypes, FetchTypes', StageTypes, Receivable, Requests, Placed(Where, Used),
           read # NoRead => read.data # 0, dma.state = "receive" => Arriving \in Nat,
           NEW in, FetchTick(in, {o \in Core : Takes(o, in)}), StageTick(in), NEW c \in Core,
           ran'[c] = ran[c] \o OneIf(Completes(c, in), cur[c])
    PROVE  Line(c)' = Line(c) \o OneIf(InstructionWrite(in) /\ Target = c, Arriving)
<1>1. PICK a \in Seq(Nat) : a = Ahead(c)
    BY LineParts
<1>2. PICK k \in Seq(Nat) : k = Coming(c)
    BY LineParts
<1>3. PICK f \in Seq(Nat) : f = OneIf(Filled(c), read.data)
    BY LineParts DEF Filled
<1>4. PICK e \in Seq(Nat) : e = OneIf(InstructionWrite(in) /\ Target = c, Arriving)
    <2>1. InstructionWrite(in) => Arriving \in Nat
        BY DEF InstructionWrite
    <2> QED
        BY <2>1, Concats DEF OneIf
<1>5. PICK n \in Seq(Nat) : n = Coming(c)'
    BY TickComing
<1>6. f \o n = k \o e
    BY <1>2, <1>3, <1>4, <1>5, TickComing
<1>7. Ahead(c)' = a \o f
    BY <1>1, <1>3, TickAhead
<1>8. PICK b \in Seq(Nat) : b = Ahead(c)'
    <2>1. a \o f \in Seq(Nat)
        BY ConcatProperties
    <2> QED
        BY <1>7, <2>1
<1>9. PICK g \in Seq(Nat) : g = OneIf(read'.client = c, read'.data)
    <2>1. CASE read'.client = c
        <3>1. read' # NoRead
            BY <2>1 DEF NoRead, Core
        <3>2. read'.data \in Nat
            BY <3>1 DEF FetchTypes
        <3> QED
            BY <2>1, <3>2, Concats DEF OneIf
    <2>2. CASE read'.client # c
        BY <2>2, Concats DEF OneIf
    <2> QED
        BY <2>1, <2>2
<1>10. PICK m \in Seq(Nat) : m = Contents(addrQ'[c], mem')
    <2>1. addrQ'[c] \in Seq(Slot) /\ mem' \in [Slot -> Nat]
        BY DEF FetchTypes
    <2> QED
        BY <2>1, ContentsOf
<1>11. Line(c)' = (b \o g) \o m
    BY <1>8, <1>9, <1>10 DEF Line, Ahead, Contents
<1>12. n = g \o m
    BY <1>5, <1>9, <1>10 DEF Coming, Contents
<1>13. Line(c) = a \o k
    BY <1>1, <1>2, LineParts
<1>14. Associates(b, g, m) /\ Associates(a, f, n) /\ Associates(a, k, e)
    BY Associative
<1>15. Line(c)' = b \o n
    BY <1>11, <1>12, <1>14 DEF Associates
<1>16. b \o n = a \o (f \o n)
    BY <1>7, <1>8, <1>14 DEF Associates
<1>17. a \o (k \o e) = (a \o k) \o e
    BY <1>14 DEF Associates
<1> QED
    BY <1>4, <1>6, <1>13, <1>15, <1>16, <1>17

\* One more instruction received, and the lines are still in order.
LEMMA OrderKept ==
    ASSUME FetchTypes, FetchTypes', StageTypes, Burst, Receivable, Requests, Placed(Where, Used),
           DispatchedInOrder, Running, stream' = stream,
           NEW in, FetchTick(in, {o \in Core : Takes(o, in)}), StageTick(in),
           \A c \in Core : ran'[c] = ran[c] \o OneIf(Completes(c, in), cur[c])
    PROVE  DispatchedInOrder'
<1>1. Received \in Nat /\ Arriving = Received + 1 /\ Received' = IF InstructionWrite(in) THEN Received + 1 ELSE Received
    <2>1. Received \in 0..Len(stream) /\ Len(stream) \in Nat
        <3>1. "LOAD" \in Core
            BY DEF Core
        <3> QED
            BY <3>1, Positions
    <2> QED
        BY <2>1, TickReceived DEF Arriving
<1>2. read # NoRead => read.data # 0
    <2> SUFFICES ASSUME read # NoRead
                 PROVE  read.data # 0
        OBVIOUS
    <2>1. read.client \in Core
        BY DEF FetchTypes
    <2>2. PICK o \in Core : read.client = o
        BY <2>1
    <2>3. read.data \in Range(Line(o))
        BY <2>2, LineSplit, Positions
    <2>4. read.data \in 1..Received
        BY <2>3, Positions
    <2> QED
        BY <1>1, <2>4
<1>3. Arriving \in Nat
    BY <1>1
<1> SUFFICES ASSUME NEW c \in Core
             PROVE  /\ Rising(Line(c)')
                    /\ Range(Line(c)') = {i \in 1..Received' : Dispatch(stream'[i]) = c}
    BY DEF DispatchedInOrder, Rising
<1>4. PICK l \in Seq(Nat) : l = Line(c)
    BY Positions
<1>5. Rising(l) /\ \A x \in Nat : x \in Range(l) <=> x \in 1..Received /\ Dispatch(stream[x]) = c
    BY <1>1, <1>4, Positions
<1>6. Range(l) \subseteq Nat
    BY RangeOfSeq
<1>7. Line(c)' = l \o OneIf(InstructionWrite(in) /\ Target = c, Arriving)
    BY <1>2, <1>3, <1>4, TickLine
<1>8. CASE InstructionWrite(in) /\ Target = c
    <2>1. Line(c)' = l \o <<Arriving>>
        BY <1>7, <1>8 DEF OneIf
    <2>2. \A x \in Range(l) : x < Arriving
        BY <1>1, <1>5, <1>6
    <2>3. Rising(l \o <<Arriving>>) /\ Range(l \o <<Arriving>>) = Range(l) \cup {Arriving}
        BY <1>3, <1>5, <2>2, RisingAppend
    <2>4. Dispatch(stream[Arriving]) = c /\ Received' = Arriving
        BY <1>1, <1>8 DEF Target
    <2>5. \A x \in 1..Arriving : x \in 1..Received \/ x = Arriving
        BY <1>1
    <2>6. Range(l) \cup {Arriving} = {i \in 1..Arriving : Dispatch(stream[i]) = c}
        BY <1>1, <1>5, <1>6, <2>4, <2>5
    <2> QED
        BY <2>1, <2>3, <2>4, <2>6
<1>9. CASE ~(InstructionWrite(in) /\ Target = c)
    <2>1. Line(c)' = l
        <3>1. OneIf(InstructionWrite(in) /\ Target = c, Arriving) = <<>>
            BY <1>9 DEF OneIf
        <3> QED
            BY <1>7, <3>1, Concats
    <2>2. \A x \in 1..Received' : Dispatch(stream[x]) = c => x \in 1..Received
        <3>1. CASE InstructionWrite(in)
            <4>1. Dispatch(stream[Received + 1]) # c
                BY <1>1, <1>9, <3>1 DEF Target
            <4> QED
                BY <1>1, <4>1
        <3>2. CASE ~InstructionWrite(in)
            BY <1>1, <3>2
        <3> QED
            BY <3>1, <3>2
    <2>3. 1..Received \subseteq 1..Received' /\ 1..Received' \subseteq Nat
        BY <1>1
    <2>4. Range(l) = {i \in 1..Received' : Dispatch(stream[i]) = c}
        BY <1>5, <1>6, <2>2, <2>3
    <2> QED
        BY <1>5, <2>1, <2>4
<1> QED
    BY <1>8, <1>9

--------------------------------------------------------------------------------
(* One cycle of the stages.                                                    *)

\* A stage that starts keeps its instruction, one that completes has it.
LEMMA StageSteps ==
    ASSUME StageTypes, NEW in, StageTick(in), NEW c \in Core
    PROVE  /\ Starts(c) => ~Completes(c, in) /\ ~Takes(c, in) /\ state'[c] # "idle" /\ cur'[c] = cur[c] /\ cur[c] # 0
           /\ Completes(c, in) => ~Starts(c) /\ state[c] # "idle" /\ state'[c] = "idle" /\ cur[c] # 0
           /\ ~Starts(c) /\ ~Completes(c, in) => state'[c] = state[c] /\ (state[c] # "idle" => cur'[c] = cur[c])
           /\ cur'[c] = IF Takes(c, in) THEN next[c] ELSE IF Completes(c, in) THEN 0 ELSE cur[c]
<1>1. state[c] # "idle" => cur[c] # 0
    BY DEF StageTypes
<1>2. state'[c] = IF Starts(c) THEN IF IsSync(stream[cur[c]]) THEN "sync" ELSE "exe"
                  ELSE IF Completes(c, in) THEN "idle" ELSE state[c]
    BY DEF StageTick
<1>3. cur'[c] = IF Takes(c, in) THEN next[c] ELSE IF Completes(c, in) THEN 0 ELSE cur[c]
    BY DEF StageTick
<1>4. Starts(c) => state[c] = "idle" /\ cur[c] # 0
    BY DEF Starts
<1>5. Completes(c, in) => state[c] # "idle"
    BY DEF Completes
<1>6. Takes(c, in) => cur[c] = 0 \/ Completes(c, in)
    BY DEF Takes
<1> QED
    BY <1>1, <1>2, <1>3, <1>4, <1>5, <1>6

LEMMA StageTypesKept ==
    ASSUME FetchTypes, StageTypes, NEW in, StageTick(in), LaunchBit(in),
           ran' = [c \in Core |-> IF HostWrites(in) THEN <<>> ELSE ran[c] \o OneIf(Completes(c, in), cur[c])]
    PROVE  StageTypes'
<1>1. cur \in [Core -> Nat] /\ next \in [Core -> Nat] /\ sem \in [Queue -> Nat] /\ ran \in [Core -> Seq(Nat)]
    BY DEF StageTypes, FetchTypes
<1>2. cur' \in [Core -> Nat]
    BY <1>1 DEF StageTick
<1>3. state' \in [Core -> {"idle", "sync", "exe"}]
    BY DEF StageTick, StageTypes
<1>4. sem' \in [Queue -> Nat]
    <2>1. sem' = [q \in Queue |-> Semaphore(q, in)]
        BY DEF StageTick
    <2>2. \A q \in Queue : Semaphore(q, in) \in Nat
        BY <1>1 DEF Semaphore
    <2> QED
        BY <2>1, <2>2
<1>5. ran' \in [Core -> Seq(Nat)]
    <2>1. ASSUME NEW c \in Core
          PROVE  ran[c] \o OneIf(Completes(c, in), cur[c]) \in Seq(Nat)
        <3>1. PICK d \in Seq(Nat) : d = OneIf(Completes(c, in), cur[c])
            <4>1. cur[c] \in Nat
                BY <1>1
            <4> QED
                BY <4>1, Concats DEF OneIf
        <3>2. ran[c] \in Seq(Nat)
            BY <1>1
        <3>3. ran[c] \o d \in Seq(Nat)
            BY <3>2, ConcatProperties
        <3> QED
            BY <3>1, <3>3
    <2>2. \A c \in Core : (IF HostWrites(in) THEN <<>> ELSE ran[c] \o OneIf(Completes(c, in), cur[c])) \in Seq(Nat)
        BY <2>1, EmptySeq
    <2> QED
        BY <2>2
<1>6. finish' \in BOOLEAN /\ launch' \in BOOLEAN /\ launchLast' \in BOOLEAN
    BY DEF StageTick, LaunchBit, StageTypes
<1>7. \A c \in Core : state'[c] # "idle" => cur'[c] # 0
    <2> SUFFICES ASSUME NEW c \in Core, state'[c] # "idle"
                 PROVE  cur'[c] # 0
        OBVIOUS
    <2>1. CASE Starts(c)
        BY <2>1, StageSteps
    <2>2. CASE ~Starts(c)
        <3>1. ~Completes(c, in)
            BY StageSteps
        <3>2. state[c] # "idle" /\ cur'[c] = cur[c]
            BY <2>2, <3>1, StageSteps
        <3> QED
            BY <3>2 DEF StageTypes
    <2> QED
        BY <2>1, <2>2
<1> QED
    BY <1>2, <1>3, <1>4, <1>5, <1>6, <1>7 DEF StageTypes

--------------------------------------------------------------------------------
(* Nothing happens in a quiet core, and a launch starts from nothing.          *)

LEMMA QuietStages ==
    ASSUME StageTypes, Quiet, NEW in, StageTick(in)
    PROVE  /\ \A c \in Core : state'[c] = "idle" /\ cur'[c] = 0 /\ ~Completes(c, in)
           /\ \A q \in Queue : sem'[q] = 0
           /\ ~finish'
<1>1. \A c \in Core : state[c] = "idle" /\ cur[c] = 0 /\ next[c] = 0
    BY DEF Quiet
<1>2. \A c \in Core : ~Starts(c) /\ ~Completes(c, in) /\ ~Takes(c, in)
    BY <1>1 DEF Starts, Completes, Takes
<1>3. \A c \in Core : state'[c] = "idle" /\ cur'[c] = 0
    BY <1>1, <1>2 DEF StageTick
<1>4. \A q \in Queue : sem'[q] = 0
    <2>1. \A q \in Queue : ~SPost(q, in) /\ ~SWait(q)
        BY <1>2 DEF SPost, SWait
    <2>2. \A q \in Queue : Semaphore(q, in) = sem[q]
        BY <2>1 DEF Semaphore
    <2> QED
        BY <2>2 DEF StageTick, Quiet
<1>5. ~finish'
    <2>1. state["GEMM"] = "idle"
        BY <1>1 DEF Core
    <2> QED
        BY <2>1 DEF StageTick
<1> QED
    BY <1>2, <1>3, <1>4, <1>5

LEMMA QuietFetch ==
    ASSUME FetchTypes, Requests, dma.state = "idle", read = NoRead,
           \A c \in Core : addrQ[c] = <<>> /\ next[c] = 0,
           NEW in, NEW taken, FetchTick(in, taken)
    PROVE  /\ dma'.state = "idle" /\ read' = NoRead
           /\ \A c \in Core : addrQ'[c] = <<>> /\ next'[c] = 0
<1>1. Receivable
    BY DEF Receivable
<1>2. ~InstructionWrite(in) /\ ~Reserve /\ ~(dma.state = "command" /\ in.cmd)
    BY DEF InstructionWrite, Reserve
<1>3. ~LocalRead(in)
    BY <1>1, Port
<1>4. dma' = dma
    BY <1>2 DEF FetchTick, DmaTick
<1>5. read' = NoRead
    BY <1>1, <1>3, TickQueues
<1>6. \A c \in Core : addrQ'[c] = <<>>
    <2>1. \A c \in Core : addrQ'[c] = addrQ[c]
        BY <1>1, <1>2, <1>3, TickQueues
    <2> QED
        BY <2>1
<1>7. \A c \in Core : next'[c] = 0
    <2>1. \A c \in Core : ~Filled(c)
        BY DEF Filled, NoRead, Core
    <2> QED
        BY <2>1 DEF FetchTick
<1> QED
    BY <1>4, <1>5, <1>6, <1>7

LEMMA LaunchResets ==
    ASSUME FetchTypes, Burst, Quiet, FetchLaunch, stream' = stream
    PROVE  /\ FetchTypes' /\ Burst' /\ Requests' /\ SlotsConserved'
           /\ read' = NoRead /\ \A c \in Core : addrQ'[c] = <<>> /\ next'[c] = 0
           /\ Received' = 0
<1> USE RtlFetchAssumption
<1>1. /\ dma.remaining \in Nat /\ dma.selected \in Nat /\ dma.left \in Nat
      /\ dma \in [state : {"idle", "reserve", "command", "receive"},
                  remaining : Nat, selected : Nat, left : Nat]
      /\ stream \in Seq(Insn) /\ Len(stream) \in Nat
    BY LenProperties DEF FetchTypes
<1>2. dma.left = 0
    BY DEF Burst, Quiet
<1>3. /\ addrQ' = [c \in Core |-> <<>>] /\ freeQ' = <<>> /\ virgin' = 0 /\ freeCount' = Slots
      /\ reqQ' = <<>> /\ pending' = [c \in Core |-> FALSE] /\ read' = NoRead
      /\ next' = [c \in Core |-> 0] /\ mem' = mem
    BY DEF FetchLaunch
<1>4. PICK st \in {"idle", "reserve"} : st = IF stream = <<>> THEN "idle" ELSE "reserve"
    OBVIOUS
<1>5. dma' = [dma EXCEPT !.state = st, !.remaining = Len(stream)]
    BY <1>4 DEF FetchLaunch
<1>6. /\ dma'.state = st /\ dma'.remaining = Len(stream) /\ dma'.left = 0
      /\ dma' \in [state : {"idle", "reserve", "command", "receive"},
                   remaining : Nat, selected : Nat, left : Nat]
    BY <1>1, <1>2, <1>5
<1>7. stream = <<>> <=> Len(stream) = 0
    BY <1>1, EmptySeq
<1>8. FetchTypes'
    <2>1. <<>> \in Seq(Slot) /\ <<>> \in Seq(Core)
        BY EmptySeq
    <2>2. stream' \in Seq(Insn) /\ mem' \in [Slot -> Nat]
        BY <1>3 DEF FetchTypes
    <2>3. virgin' \in 0..Slots /\ freeCount' \in Int
        BY <1>3
    <2> QED
        BY <1>3, <1>6, <2>1, <2>2, <2>3 DEF FetchTypes
<1>9. Burst'
    <2>1. st = "idle" => Len(stream) = 0
        BY <1>4, <1>7
    <2>2. st = "reserve" => Len(stream) > 0
        BY <1>1, <1>4, <1>7
    <2> QED
        BY <1>1, <1>6, <2>1, <2>2 DEF Burst
<1>10. Requests'
    BY <1>3 DEF Requests
<1>11. SlotsConserved'
    <2>1. \A p \in Place : SlotsAt(p)' = <<>>
        BY <1>3 DEF SlotsAt, OneIf, Place
    <2>2. Unfilled' = 0
        BY <1>6 DEF Unfilled
    <2>3. \A s \in Slot : ~(s < virgin')
        BY <1>3 DEF Slot
    <2>4. Len(freeQ') + (Slots - virgin') = freeCount' + Unfilled'
        BY <1>3, <2>2
    <2>5. DOMAIN <<>> = {}
        OBVIOUS
    <2> QED
        BY <2>1, <2>3, <2>4, <2>5 DEF SlotsConserved
<1>12. Received' = 0
    BY <1>1, <1>6 DEF Received
<1> QED
    BY <1>3, <1>8, <1>9, <1>10, <1>11, <1>12

\* The instruction that arrives is one of a stream that can be run.
LEMMA ReceivableHolds ==
    ASSUME StreamsRunnable, FetchTypes, StageTypes, Burst, Phases
    PROVE  Receivable /\ (dma.state = "receive" => Arriving \in Nat)
<1> SUFFICES ASSUME dma.state = "receive"
             PROVE  Target \in Core /\ Arriving \in Nat
    BY DEF Receivable
<1>1. stream \in Streams
    BY DEF Phases, Quiet, Running
<1>2. Arriving \in DOMAIN stream /\ Arriving \in Nat
    <2>1. /\ dma.remaining \in Nat /\ dma.left \in Nat /\ Len(stream) \in Nat /\ DOMAIN stream = 1..Len(stream)
        BY LenProperties DEF FetchTypes
    <2>2. dma.remaining + dma.left <= Len(stream) /\ dma.left > 0
        BY DEF Burst
    <2> QED
        <3>1. \A l, r, k \in Nat : r + k <= l /\ k > 0 => (l - r - k) + 1 \in 1..l
            OBVIOUS
        <3>2. Arriving = (Len(stream) - dma.remaining - dma.left) + 1
            BY DEF Arriving, Received
        <3>3. Arriving \in 1..Len(stream)
            BY <2>1, <2>2, <3>1, <3>2
        <3> QED
            BY <2>1, <3>3
<1>3. Dispatch(stream[Arriving]) # "unknown"
    BY <1>1, <1>2 DEF StreamsRunnable
<1> QED
    BY <1>2, <1>3 DEF Target, Dispatch, Core

--------------------------------------------------------------------------------
(* The tokens.  Each semaphore is waited for by one stage.                     *)

LEMMA Routed ==
    ASSUME StreamsRunnable, stream \in Streams, FetchTypes, NEW x \in DOMAIN stream
    PROVE  /\ GetCoreType(stream[x]) = Dispatch(stream[x])
           /\ PopQueues(stream[x]) = Waits(stream[x]) /\ PushQueues(stream[x]) = Posts(stream[x])
<1>1. stream[x] \in Insn
    BY ElementOfSeq, LenProperties DEF FetchTypes
<1>2. FlagsHaveQueues(stream[x]) /\ Dispatch(stream[x]) # "unknown"
    BY DEF StreamsRunnable
<1> QED
    BY <1>1, <1>2, RtlRoutesAsSim

PoppingCore == [l2g |-> "GEMM", s2g |-> "GEMM", g2l |-> "LOAD", g2s |-> "STORE"]
PushingCore == [l2g |-> "LOAD", s2g |-> "STORE", g2l |-> "GEMM", g2s |-> "GEMM"]

LEMMA QueueEnds ==
    ASSUME NEW insn, NEW q \in Queue
    PROVE  /\ q \in PopQueues(insn) => GetCoreType(insn) = PoppingCore[q]
           /\ q \in PushQueues(insn) => GetCoreType(insn) = PushingCore[q]
BY DEF PopQueues, PushQueues, GetCoreType, PopPrevQueue, PopNextQueue, PushPrevQueue, PushNextQueue,
       PoppingCore, PushingCore, Queue

\* A semaphore counts a post, unless it is full, and a wait finds a token.
LEMMA SemaphoreSteps ==
    ASSUME StageTypes, NEW in, NEW q \in Queue
    PROVE  /\ Semaphore(q, in) \in Nat /\ sem[q] \in Nat
           /\ SWait(q) => sem[q] > 0
           /\ SPost(q, in) /\ SWait(q) => Semaphore(q, in) = sem[q]
           /\ SPost(q, in) /\ ~SWait(q) => Semaphore(q, in) <= sem[q] + 1
           /\ ~SPost(q, in) /\ SWait(q) => Semaphore(q, in) = sem[q] - 1
           /\ ~SPost(q, in) /\ ~SWait(q) => Semaphore(q, in) = sem[q]
<1>1. sem[q] \in Nat
    BY DEF StageTypes
<1>2. SWait(q) => sem[q] > 0
    BY DEF SWait, Starts
<1>3. CASE SPost(q, in) /\ SWait(q)
    BY <1>1, <1>2, <1>3 DEF Semaphore
<1>4. CASE SPost(q, in) /\ ~SWait(q)
    BY <1>1, <1>4 DEF Semaphore
<1>5. CASE ~SPost(q, in) /\ SWait(q)
    BY <1>1, <1>2, <1>5 DEF Semaphore
<1>6. CASE ~SPost(q, in) /\ ~SWait(q)
    BY <1>1, <1>6 DEF Semaphore
<1> QED
    BY <1>1, <1>2, <1>3, <1>4, <1>5, <1>6

LEMMA TokenSets ==
    ASSUME FetchTypes, NEW q
    PROVE  /\ IsFiniteSet(Poppers(stream, q)) /\ IsFiniteSet(Pushers(stream, q))
           /\ IsFiniteSet(StartedPops(q)) /\ IsFiniteSet(DonePushes(q))
           /\ StartedPops(q) \subseteq Poppers(stream, q) /\ DonePushes(q) \subseteq Pushers(stream, q)
           /\ Cardinality(StartedPops(q)) \in Nat /\ Cardinality(DonePushes(q)) \in Nat
<1>1. DOMAIN stream = 1..Len(stream) /\ Len(stream) \in Nat
    BY LenProperties DEF FetchTypes
<1>2. IsFiniteSet(DOMAIN stream)
    BY <1>1, FS_Interval
<1>3. /\ Poppers(stream, q) \subseteq DOMAIN stream /\ Pushers(stream, q) \subseteq DOMAIN stream
      /\ StartedPops(q) \subseteq Poppers(stream, q) /\ DonePushes(q) \subseteq Pushers(stream, q)
    BY DEF Poppers, Pushers, StartedPops, DonePushes
<1>4. IsFiniteSet(Poppers(stream, q)) /\ IsFiniteSet(Pushers(stream, q))
    BY <1>2, <1>3, FS_Subset
<1>5. IsFiniteSet(StartedPops(q)) /\ IsFiniteSet(DonePushes(q))
    BY <1>3, <1>4, FS_Subset
<1> QED
    BY <1>3, <1>4, <1>5, FS_CardinalityType

LEMMA TokensKept ==
    ASSUME StreamsRunnable, stream \in Streams, FetchTypes, FetchTypes', StageTypes, Burst, DispatchedInOrder,
           Tokens, Running, stream' = stream, NEW in, StageTick(in),
           \A c \in Core : ran'[c] = ran[c] \o OneIf(Completes(c, in), cur[c])
    PROVE  Tokens'
<1> SUFFICES ASSUME NEW q \in Queue
             PROVE  sem'[q] + Cardinality(StartedPops(q)') <= Cardinality(DonePushes(q)')
    BY DEF Tokens
<1>1. sem'[q] = Semaphore(q, in)
    BY DEF StageTick
<1>2. sem[q] + Cardinality(StartedPops(q)) <= Cardinality(DonePushes(q))
    BY DEF Tokens
\* What is at work is an instruction of its stage.
<1>3. ASSUME NEW c \in Core, cur[c] # 0
      PROVE  /\ cur[c] \in DOMAIN stream /\ Dispatch(stream[cur[c]]) = c /\ GetCoreType(stream[cur[c]]) = c
             /\ PopQueues(stream[cur[c]]) = Waits(stream[cur[c]])
             /\ PushQueues(stream[cur[c]]) = Posts(stream[cur[c]])
    <2>1. cur[c] \in Range(Line(c))
        BY <1>3, Positions
    <2>2. cur[c] \in DOMAIN stream /\ Dispatch(stream[cur[c]]) = c
        BY <2>1, Positions
    <2> QED
        BY <2>2, Routed
<1>4. ASSUME NEW c \in Core
      PROVE  Range(ran'[c]) = Range(ran[c]) \cup (IF Completes(c, in) THEN {cur[c]} ELSE {})
    <2>1. cur[c] \in Nat /\ ran[c] \in Seq(Nat)
        BY DEF StageTypes
    <2>2. PICK d \in Seq(Nat) : d = OneIf(Completes(c, in), cur[c])
        BY <2>1, Concats DEF OneIf
    <2>3. ran'[c] = ran[c] \o d
        BY <2>2
    <2>4. \A x, y \in Seq(Nat) : Range(x \o y) = Range(x) \cup Range(y)
        BY RangeConcatenation
    <2>5. Range(ran'[c]) = Range(ran[c]) \cup Range(d)
        BY <2>1, <2>3, <2>4
    <2>6. CASE Completes(c, in)
        <3>1. d = OneIf(TRUE, cur[c])
            BY <2>2, <2>6 DEF OneIf
        <3>2. \A y : y \in Range(d) <=> y = cur[c]
            BY <2>1, <3>1, OneIfRange
        <3> QED
            BY <2>5, <2>6, <3>2
    <2>7. CASE ~Completes(c, in)
        <3>1. d = OneIf(FALSE, cur[c])
            BY <2>2, <2>7 DEF OneIf
        <3>2. \A y : y \notin Range(d)
            BY <2>1, <3>1, OneIfRange
        <3> QED
            BY <2>5, <2>7, <3>2
    <2> QED
        BY <2>6, <2>7
<1>5. \A i : /\ i \in StartedPops(q) <=> i \in Poppers(stream, q) /\ \E c \in Core : i \in Started(c)
             /\ i \in StartedPops(q)' <=> i \in Poppers(stream, q) /\ \E c \in Core : i \in Started(c)'
             /\ i \in DonePushes(q) <=> i \in Pushers(stream, q) /\ \E c \in Core : i \in Range(ran[c])
             /\ i \in DonePushes(q)' <=> i \in Pushers(stream, q) /\ \E c \in Core : i \in Range(ran'[c])
    BY DEF StartedPops, DonePushes
<1>6. \A i : i \in Poppers(stream, q) => i \in DOMAIN stream /\ q \in PopQueues(stream[i])
    BY DEF Poppers
\* A pop that starts is the current instruction of the one stage that waits.
<1>7. ASSUME NEW i \in StartedPops(q)', i \notin StartedPops(q)
      PROVE  SWait(q) /\ i = cur[PoppingCore[q]]
    <2>1. PICK c \in Core : i \in Started(c)'
        BY <1>5
    <2>2. i \notin Started(c)
        BY <1>5, <1>7
    <2>3. i \notin Range(ran[c]) /\ ~(state[c] # "idle" /\ i = cur[c])
        BY <2>2 DEF Started
    <2>4. i \in Range(ran'[c]) \/ (state'[c] # "idle" /\ i = cur'[c])
        BY <2>1 DEF Started
    <2>5. Starts(c) /\ i = cur[c]
        <3>1. i \notin Range(ran'[c])
            BY <1>4, <2>3, StageSteps
        <3>2. state'[c] # "idle" /\ i = cur'[c]
            BY <2>4, <3>1
        <3>3. ~Completes(c, in)
            BY <3>2, StageSteps
        <3>4. CASE ~Starts(c)
            BY <2>3, <3>2, <3>3, <3>4, StageSteps
        <3>5. CASE Starts(c)
            BY <3>2, <3>5, StageSteps
        <3> QED
            BY <3>4, <3>5
    <2>6. q \in PopQueues(stream[i])
        BY <1>5, <1>6
    <2>7. cur[c] # 0
        BY <2>5 DEF Starts
    <2>8. SWait(q)
        BY <1>3, <2>5, <2>6, <2>7 DEF SWait
    <2>9. c = PoppingCore[q]
        BY <1>3, <2>5, <2>6, <2>7, QueueEnds
    <2> QED
        BY <2>5, <2>8, <2>9
<1>8. /\ IsFiniteSet(StartedPops(q)) /\ IsFiniteSet(DonePushes(q))
      /\ Cardinality(StartedPops(q)) \in Nat /\ Cardinality(DonePushes(q)) \in Nat
    BY TokenSets
<1>9. /\ IsFiniteSet(StartedPops(q)') /\ IsFiniteSet(DonePushes(q)')
      /\ Cardinality(StartedPops(q)') \in Nat /\ Cardinality(DonePushes(q)') \in Nat
    <2>1. IsFiniteSet(Poppers(stream, q)) /\ IsFiniteSet(Pushers(stream, q))
        BY TokenSets
    <2>2. StartedPops(q)' \subseteq Poppers(stream, q) /\ DonePushes(q)' \subseteq Pushers(stream, q)
        BY <1>5
    <2>3. IsFiniteSet(StartedPops(q)') /\ IsFiniteSet(DonePushes(q)')
        BY <2>1, <2>2, FS_Subset
    <2> QED
        BY <2>3, FS_CardinalityType
<1>10. /\ SWait(q) => Cardinality(StartedPops(q)') <= Cardinality(StartedPops(q)) + 1
       /\ ~SWait(q) => Cardinality(StartedPops(q)') <= Cardinality(StartedPops(q))
    <2>1. PICK s : s = StartedPops(q)
        OBVIOUS
    <2>2. PICK t : t = StartedPops(q)'
        OBVIOUS
    <2>3. PICK x : x = cur[PoppingCore[q]]
        OBVIOUS
    <2>4. /\ IsFiniteSet(s) /\ IsFiniteSet(t) /\ Cardinality(s) \in Nat /\ Cardinality(t) \in Nat
        BY <1>8, <1>9, <2>1, <2>2
    <2>5. SWait(q) => Cardinality(t) <= Cardinality(s) + 1
        <3> SUFFICES ASSUME SWait(q) PROVE Cardinality(t) <= Cardinality(s) + 1
            OBVIOUS
        <3>1. t \subseteq s \cup {x}
            BY <1>7, <2>1, <2>2, <2>3
        <3>2. IsFiniteSet(s \cup {x}) /\ Cardinality(s \cup {x}) = IF x \in s THEN Cardinality(s) ELSE Cardinality(s) + 1
            BY <2>4, FS_AddElement
        <3>3. Cardinality(t) <= Cardinality(s \cup {x})
            BY <3>1, <3>2, FS_Subset
        <3> QED
            BY <2>4, <3>2, <3>3
    <2>6. ~SWait(q) => Cardinality(t) <= Cardinality(s)
        <3> SUFFICES ASSUME ~SWait(q) PROVE Cardinality(t) <= Cardinality(s)
            OBVIOUS
        <3>1. t \subseteq s
            BY <1>7, <2>1, <2>2
        <3> QED
            BY <2>4, <3>1, FS_Subset
    <2> QED
        BY <2>1, <2>2, <2>5, <2>6
\* A push that completes was not done before.
<1>11. DonePushes(q) \subseteq DonePushes(q)'
    BY <1>4, <1>5
<1>12. SPost(q, in) => \E y \in DonePushes(q)' : y \notin DonePushes(q)
    <2> SUFFICES ASSUME SPost(q, in)
                 PROVE  \E y \in DonePushes(q)' : y \notin DonePushes(q)
        OBVIOUS
    <2>1. PICK c \in Core : Completes(c, in) /\ q \in Posts(stream[cur[c]])
        BY DEF SPost
    <2>2. cur[c] # 0
        BY <2>1, StageSteps
    <2>3. cur[c] \in Pushers(stream, q)
        BY <1>3, <2>1, <2>2 DEF Pushers
    <2>4. cur[c] \in DonePushes(q)'
        BY <1>4, <1>5, <2>1, <2>3
    <2>5. ASSUME NEW o \in Core, cur[c] \in Range(ran[o])
          PROVE  FALSE
        <3>1. cur[c] \in Range(Line(o))
            BY <2>5, Positions
        <3>2. o = c
            BY <1>3, <2>2, <3>1, Positions
        <3>3. cur[c] < cur[c]
            BY <2>2, <2>5, <3>2, Positions
        <3>4. cur[c] \in Nat
            BY DEF StageTypes
        <3> QED
            BY <3>3, <3>4
    <2> QED
        BY <1>5, <2>4, <2>5
<1>13. /\ SPost(q, in) => Cardinality(DonePushes(q)') >= Cardinality(DonePushes(q)) + 1
       /\ Cardinality(DonePushes(q)') >= Cardinality(DonePushes(q))
    <2>1. PICK s : s = DonePushes(q)
        OBVIOUS
    <2>2. PICK t : t = DonePushes(q)'
        OBVIOUS
    <2>3. IsFiniteSet(s) /\ IsFiniteSet(t) /\ Cardinality(s) \in Nat /\ Cardinality(t) \in Nat /\ s \subseteq t
        BY <1>8, <1>9, <1>11, <2>1, <2>2
    <2>4. Cardinality(t) >= Cardinality(s)
        BY <2>3, FS_Subset
    <2>5. SPost(q, in) => Cardinality(t) >= Cardinality(s) + 1
        <3> SUFFICES ASSUME SPost(q, in) PROVE Cardinality(t) >= Cardinality(s) + 1
            OBVIOUS
        <3>1. PICK y \in t : y \notin s
            BY <1>12, <2>1, <2>2
        <3>2. s \cup {y} \subseteq t
            BY <2>3
        <3>3. Cardinality(s \cup {y}) = Cardinality(s) + 1
            BY <2>3, <3>1, FS_AddElement
        <3>4. Cardinality(s \cup {y}) <= Cardinality(t)
            BY <2>3, <3>2, FS_Subset
        <3> QED
            BY <2>3, <3>3, <3>4
    <2> QED
        BY <2>1, <2>2, <2>4, <2>5
<1>14. \A m, n, s, t, d, e \in Nat :
          /\ m + s <= d
          /\ \/ t <= s + 1 /\ e >= d + 1 /\ n = m
             \/ t <= s /\ e >= d + 1 /\ n <= m + 1
             \/ t <= s + 1 /\ e >= d /\ m > 0 /\ n = m - 1
             \/ t <= s /\ e >= d /\ n = m
          => n + t <= e
    OBVIOUS
<1>15. sem'[q] \in Nat /\ sem[q] \in Nat
    BY <1>1, SemaphoreSteps
<1>16. \/ SPost(q, in) /\ SWait(q) /\ sem'[q] = sem[q]
       \/ SPost(q, in) /\ ~SWait(q) /\ sem'[q] <= sem[q] + 1
       \/ ~SPost(q, in) /\ SWait(q) /\ sem[q] > 0 /\ sem'[q] = sem[q] - 1
       \/ ~SPost(q, in) /\ ~SWait(q) /\ sem'[q] = sem[q]
    BY <1>1, SemaphoreSteps
<1> QED
    BY <1>2, <1>8, <1>9, <1>10, <1>13, <1>14, <1>15, <1>16

--------------------------------------------------------------------------------
(* The finish.  When FINISH runs, everything before it on its stage has run,   *)
(* so every token of the loads and the stores has been waited for, so they     *)
(* have run, and no token is left.                                             *)

LEMMA FinishIsLast ==
    ASSUME StreamsRunnable, stream \in Streams, FetchTypes, StageTypes, Burst, DispatchedInOrder, Running,
           state["GEMM"] = "exe", stream[cur["GEMM"]].op = "FINISH"
    PROVE  /\ cur["GEMM"] = Len(stream) /\ Received = Len(stream) /\ dma.state = "idle"
           /\ After("GEMM") = <<>>
<1>1. "GEMM" \in Core
    BY DEF Core
<1>2. PICK n \in Nat : n = cur["GEMM"]
    BY <1>1 DEF StageTypes
<1>3. n # 0
    BY <1>1, <1>2 DEF StageTypes
<1>4. n \in Range(Line("GEMM"))
    BY <1>1, <1>2, <1>3, Positions
<1>5. n \in 1..Received /\ n \in DOMAIN stream
    BY <1>1, <1>4, Positions
<1>6. n = Len(stream)
    BY <1>2, <1>5 DEF StreamsRunnable, FinishEnds
<1>7. Received \in 0..Len(stream) /\ Len(stream) \in Nat
    BY <1>1, Positions
<1>8. Received = Len(stream)
    BY <1>5, <1>6, <1>7
<1>9. dma.state = "idle"
    <2>1. /\ dma.remaining \in Nat /\ dma.left \in Nat /\ dma.selected \in Nat
          /\ dma.state \in {"idle", "reserve", "command", "receive"}
        BY DEF FetchTypes
    <2>2. dma.remaining = 0 /\ dma.left = 0
        <3>1. \A r, k \in Nat : Len(stream) - r - k = Len(stream) => r = 0 /\ k = 0
            BY <1>7
        <3> QED
            BY <1>8, <2>1, <3>1 DEF Received
    <2> QED
        BY <2>1, <2>2 DEF Burst
<1>10. After("GEMM") = <<>>
    <2> SUFFICES ASSUME After("GEMM") # <<>>
                 PROVE  FALSE
        OBVIOUS
    <2>1. PICK h \in Seq(Nat) : h = After("GEMM")
        BY <1>1, LineSplit
    <2>2. 1 \in DOMAIN h
        BY <2>1, EmptySeq, LenProperties
    <2>3. h[1] \in Range(h)
        BY <2>2 DEF Range
    <2>4. PICK y \in Range(h) : TRUE
        BY <2>3
    <2>5. n < y
        BY <1>1, <1>2, <1>3, <2>1, Positions
    <2>6. y \in Range(Line("GEMM"))
        BY <1>1, <2>1, Positions
    <2>7. y \in 1..Received
        BY <1>1, <2>6, Positions
    <2> QED
        BY <1>2, <1>6, <1>8, <2>5, <2>7
<1> QED
    BY <1>2, <1>6, <1>8, <1>9, <1>10

\* When the stage that pops a queue has started all its pops, every push of the
\* queue has been done and no token is left.
LEMMA AllPopped ==
    ASSUME StreamsRunnable, stream \in Streams, FetchTypes, StageTypes, Tokens, Running, NEW q \in Queue,
           \A i \in Poppers(stream, q) : \E c \in Core : i \in Started(c)
    PROVE  sem[q] = 0 /\ DonePushes(q) = Pushers(stream, q)
<1>1. StartedPops(q) = Poppers(stream, q)
    BY DEF StartedPops
<1>2. Cardinality(Pushers(stream, q)) = Cardinality(Poppers(stream, q))
    BY DEF StreamsRunnable, TokensBalance
<1>3. sem[q] + Cardinality(StartedPops(q)) <= Cardinality(DonePushes(q)) /\ sem[q] \in Nat
    BY DEF Tokens, StageTypes
<1>4. PICK d : d = DonePushes(q)
    OBVIOUS
<1>5. PICK p : p = Pushers(stream, q)
    OBVIOUS
<1>6. d \subseteq p /\ IsFiniteSet(p) /\ Cardinality(d) \in Nat
    BY <1>4, <1>5, TokenSets
<1>7. Cardinality(d) <= Cardinality(p) /\ Cardinality(p) \in Nat /\ (Cardinality(p) = Cardinality(d) => p = d)
    BY <1>6, FS_Subset, FS_CardinalityType
<1>8. sem[q] + Cardinality(p) <= Cardinality(d)
    BY <1>1, <1>2, <1>3, <1>4, <1>5
<1>9. sem[q] = 0 /\ Cardinality(p) = Cardinality(d)
    BY <1>3, <1>6, <1>7, <1>8
<1> QED
    BY <1>4, <1>5, <1>7, <1>9

\* A load or store stage all of whose announcements are done is idle.
LEMMA AnnouncedIdle ==
    ASSUME StreamsRunnable, stream \in Streams, FetchTypes, StageTypes, Burst, DispatchedInOrder, Running,
           NEW c \in Core, NEW q \in Queue, PushingCore[q] = c,
           DonePushes(q) = Pushers(stream, q),
           \A i \in DOMAIN stream : GetCoreType(stream[i]) = c => \E j \in Pushers(stream, q) : j >= i
    PROVE  /\ cur[c] = 0 /\ After(c) = <<>>
           /\ \A x : x \in Range(Line(c)) <=> x \in Range(ran[c])
<1>1. \A j \in Pushers(stream, q) : j \in DOMAIN stream /\ GetCoreType(stream[j]) = c
    BY QueueEnds DEF Pushers
<1>2. ASSUME NEW j \in Pushers(stream, q)
      PROVE  j \in Range(ran[c])
    <2>1. PICK o \in Core : j \in Range(ran[o])
        BY <1>2 DEF DonePushes
    <2>2. j \in Range(Line(o))
        BY <2>1, Positions
    <2>3. Dispatch(stream[j]) = o /\ j \in DOMAIN stream
        BY <2>2, Positions
    <2>4. GetCoreType(stream[j]) = o
        BY <2>3, Routed
    <2> QED
        BY <1>1, <1>2, <2>1, <2>4
<1>3. ASSUME NEW x \in Range(Line(c))
      PROVE  \E j \in Range(ran[c]) : j >= x
    <2>1. x \in DOMAIN stream /\ Dispatch(stream[x]) = c
        BY <1>3, Positions
    <2>2. GetCoreType(stream[x]) = c
        BY <2>1, Routed
    <2> QED
        BY <1>2, <2>1, <2>2
<1>4. \A x \in Range(Line(c)) : x \in Nat
    <2>1. Line(c) \in Seq(Nat)
        BY Positions
    <2> QED
        BY <2>1, RangeOfSeq
<1>5. cur[c] = 0
    <2> SUFFICES ASSUME cur[c] # 0
                 PROVE  FALSE
        OBVIOUS
    <2>1. cur[c] \in Range(Line(c))
        BY Positions
    <2>2. PICK j \in Range(ran[c]) : j >= cur[c]
        BY <1>3, <2>1
    <2>3. j < cur[c] /\ j \in Range(Line(c))
        BY <2>2, Positions
    <2> QED
        BY <1>4, <2>1, <2>2, <2>3
<1>6. \A y \in Range(After(c)) : FALSE
    <2> SUFFICES ASSUME NEW y \in Range(After(c))
                 PROVE  FALSE
        OBVIOUS
    <2>1. y \in Range(Line(c))
        BY Positions
    <2>2. PICK j \in Range(ran[c]) : j >= y
        BY <1>3, <2>1
    <2>3. j < y
        BY <2>2, Positions
    <2>4. j \in Range(Line(c))
        BY <2>2, Positions
    <2> QED
        BY <1>4, <2>1, <2>2, <2>3, <2>4
<1>7. After(c) = <<>>
    <2> SUFFICES ASSUME After(c) # <<>>
                 PROVE  FALSE
        OBVIOUS
    <2>1. PICK h \in Seq(Nat) : h = After(c)
        BY LineSplit
    <2>2. 1 \in DOMAIN h
        BY <2>1, EmptySeq, LenProperties
    <2>3. h[1] \in Range(h)
        BY <2>2 DEF Range
    <2> QED
        BY <1>6, <2>1, <2>3
<1>8. \A x : x \in Range(Line(c)) <=> x \in Range(ran[c])
    BY <1>5, <1>6, Positions
<1> QED
    BY <1>5, <1>7, <1>8

LEMMA FinishIdle ==
    ASSUME StreamsRunnable, stream \in Streams, FetchTypes, StageTypes, Burst, Requests,
           DispatchedInOrder, Tokens, Running,
           state["GEMM"] = "exe", stream[cur["GEMM"]].op = "FINISH",
           NEW in, FetchTick(in, {o \in Core : Takes(o, in)}), StageTick(in)
    PROVE  Quiet'
<1>1. "GEMM" \in Core /\ "LOAD" \in Core /\ "STORE" \in Core /\ \A c \in Core : c \in {"GEMM", "LOAD", "STORE"}
    BY DEF Core
<1>2. /\ cur["GEMM"] = Len(stream) /\ Received = Len(stream) /\ dma.state = "idle"
      /\ After("GEMM") = <<>>
    BY FinishIsLast
<1>3. DOMAIN stream = 1..Received /\ Len(stream) \in Nat
    BY <1>2, LenProperties DEF FetchTypes
\* Every instruction is in the line of its stage.
<1>4. ASSUME NEW i \in DOMAIN stream
      PROVE  GetCoreType(stream[i]) \in Core /\ i \in Range(Line(GetCoreType(stream[i])))
    <2>1. GetCoreType(stream[i]) = Dispatch(stream[i])
        BY Routed
    <2>2. PICK c \in Core : c = GetCoreType(stream[i])
        BY DEF GetCoreType, Core
    <2>3. i \in Range(Line(c))
        BY <1>3, <2>1, <2>2, Positions
    <2> QED
        BY <2>2, <2>3
<1>5. \A i \in Range(Line("GEMM")) : i \in Started("GEMM")
    <2>1. After("GEMM") = <<>> /\ \A y : y \notin Range(<<>>)
        <3>1. \A y : y \in Range(<<>>) <=> \E i \in DOMAIN <<>> : y = <<>>[i]
            BY DEF Range
        <3> QED
            BY <1>2, <3>1
    <2>2. \A i \in Range(Line("GEMM")) : i \in Range(ran["GEMM"]) \/ i = cur["GEMM"]
        BY <1>1, <2>1, Positions
    <2> QED
        BY <2>2 DEF Started
<1>6. ASSUME NEW q \in Queue, PoppingCore[q] = "GEMM"
      PROVE  sem[q] = 0 /\ DonePushes(q) = Pushers(stream, q)
    <2>1. ASSUME NEW i \in Poppers(stream, q)
          PROVE  \E c \in Core : i \in Started(c)
        <3>1. i \in DOMAIN stream /\ GetCoreType(stream[i]) = "GEMM"
            BY <1>6, <2>1, QueueEnds DEF Poppers
        <3> QED
            BY <1>1, <1>4, <1>5, <3>1
    <2> QED
        BY <2>1, AllPopped
<1>7. "l2g" \in Queue /\ "s2g" \in Queue /\ "g2l" \in Queue /\ "g2s" \in Queue
      /\ \A q \in Queue : q \in {"l2g", "s2g", "g2l", "g2s"}
    BY DEF Queue
<1>8. cur["LOAD"] = 0 /\ After("LOAD") = <<>> /\ \A x : x \in Range(Line("LOAD")) <=> x \in Range(ran["LOAD"])
    <2>1. \A i \in DOMAIN stream : GetCoreType(stream[i]) = "LOAD" => \E j \in Pushers(stream, "l2g") : j >= i
        BY DEF StreamsRunnable, WorkIsAnnounced
    <2>2. PushingCore["l2g"] = "LOAD" /\ DonePushes("l2g") = Pushers(stream, "l2g")
        BY <1>6, <1>7 DEF PushingCore, PoppingCore
    <2> QED
        BY <1>1, <1>7, <2>1, <2>2, AnnouncedIdle
<1>9. cur["STORE"] = 0 /\ After("STORE") = <<>> /\ \A x : x \in Range(Line("STORE")) <=> x \in Range(ran["STORE"])
    <2>1. \A i \in DOMAIN stream : GetCoreType(stream[i]) = "STORE" => \E j \in Pushers(stream, "s2g") : j >= i
        BY DEF StreamsRunnable, WorkIsAnnounced
    <2>2. PushingCore["s2g"] = "STORE" /\ DonePushes("s2g") = Pushers(stream, "s2g")
        BY <1>6, <1>7 DEF PushingCore, PoppingCore
    <2> QED
        BY <1>1, <1>7, <2>1, <2>2, AnnouncedIdle
<1>10. \A q \in Queue : sem[q] = 0 /\ DonePushes(q) = Pushers(stream, q)
    <2>1. ASSUME NEW q \in Queue, PoppingCore[q] # "GEMM"
          PROVE  sem[q] = 0 /\ DonePushes(q) = Pushers(stream, q)
        <3>1. PICK c \in {"LOAD", "STORE"} : c = PoppingCore[q]
            BY <1>7, <2>1 DEF PoppingCore
        <3>2. ASSUME NEW i \in Poppers(stream, q)
              PROVE  \E o \in Core : i \in Started(o)
            <4>1. i \in DOMAIN stream /\ GetCoreType(stream[i]) = c
                BY <3>1, <3>2, QueueEnds DEF Poppers
            <4>2. i \in Range(Line(c))
                BY <1>4, <4>1
            <4>3. i \in Range(ran[c])
                BY <1>8, <1>9, <4>2
            <4> QED
                BY <1>1, <4>3 DEF Started
        <3> QED
            BY <3>2, AllPopped
    <2> QED
        BY <1>6, <2>1
\* The next cycle.
<1>11. \A c \in Core : next[c] = 0 /\ read.client # c /\ addrQ[c] = <<>>
    BY <1>1, <1>2, <1>8, <1>9, LineSplit
<1>12. read = NoRead
    BY <1>11 DEF FetchTypes
<1>13. dma'.state = "idle" /\ read' = NoRead /\ \A c \in Core : addrQ'[c] = <<>> /\ next'[c] = 0
    BY <1>2, <1>11, <1>12, QuietFetch
<1>14. \A c \in Core : ~Takes(c, in)
    BY <1>11 DEF Takes
<1>15. Completes("GEMM", in) /\ state["LOAD"] = "idle" /\ state["STORE"] = "idle"
    <2>1. Completes("GEMM", in)
        BY DEF Completes, DatapathDone
    <2>2. state["LOAD"] = "idle" /\ state["STORE"] = "idle"
        BY <1>1, <1>8, <1>9 DEF StageTypes
    <2> QED
        BY <2>1, <2>2
<1>16. ~Completes("LOAD", in) /\ ~Completes("STORE", in) /\ \A c \in Core : ~Starts(c)
    BY <1>1, <1>8, <1>9, <1>15 DEF Completes, Starts
<1>17. \A c \in Core : state'[c] = "idle" /\ cur'[c] = 0
    <2>1. state'["GEMM"] = "idle" /\ cur'["GEMM"] = 0
        BY <1>1, <1>14, <1>15, StageSteps
    <2>2. state'["LOAD"] = "idle" /\ cur'["LOAD"] = 0
        BY <1>1, <1>8, <1>14, <1>15, <1>16, StageSteps
    <2>3. state'["STORE"] = "idle" /\ cur'["STORE"] = 0
        BY <1>1, <1>9, <1>14, <1>15, <1>16, StageSteps
    <2> QED
        BY <1>1, <2>1, <2>2, <2>3
\* FINISH posts nothing: its post would still be to come.
<1>18. \A q \in Queue : sem'[q] = 0
    <2> SUFFICES ASSUME NEW q \in Queue
                 PROVE  sem'[q] = 0
        OBVIOUS
    <2>1. ~SWait(q)
        BY <1>16 DEF SWait
    <2>2. ASSUME SPost(q, in)
          PROVE  FALSE
        <3>1. q \in Posts(stream[cur["GEMM"]])
            BY <1>1, <1>16, <2>2 DEF SPost
        <3>2. cur["GEMM"] # 0
            BY <1>1 DEF StageTypes
        <3>3. cur["GEMM"] \in Range(Line("GEMM"))
            BY <1>1, <3>2, Positions
        <3>4. cur["GEMM"] \in DOMAIN stream
            BY <1>1, <3>3, Positions
        <3>5. cur["GEMM"] \in Pushers(stream, q) /\ GetCoreType(stream[cur["GEMM"]]) = Dispatch(stream[cur["GEMM"]])
            BY <3>1, <3>4, Routed DEF Pushers
        <3>6. cur["GEMM"] \in DonePushes(q)
            BY <1>10, <3>5
        <3>7. PICK o \in Core : cur["GEMM"] \in Range(ran[o])
            BY <3>6 DEF DonePushes
        <3>8. cur["GEMM"] \in Range(Line(o))
            BY <3>7, Positions
        <3>9. Dispatch(stream[cur["GEMM"]]) = o /\ Dispatch(stream[cur["GEMM"]]) = "GEMM"
            BY <1>1, <3>3, <3>8, Positions
        <3>10. cur["GEMM"] < cur["GEMM"]
            BY <1>1, <3>2, <3>7, <3>9, Positions
        <3>11. cur["GEMM"] \in Nat
            BY <1>1 DEF StageTypes
        <3> QED
            BY <3>10, <3>11
    <2>3. Semaphore(q, in) = sem[q]
        BY <2>1, <2>2, SemaphoreSteps
    <2>4. sem'[q] = Semaphore(q, in)
        BY DEF StageTick
    <2> QED
        BY <1>10, <2>3, <2>4
<1> QED
    BY <1>13, <1>17, <1>18 DEF Quiet

--------------------------------------------------------------------------------
(* The invariant holds.                                                        *)

LEMMA InitInv == Init => Inv
<1> USE RtlFetchAssumption, RtlCoreAssumption
<1> SUFFICES ASSUME Init
             PROVE  Inv
    OBVIOUS
<1>1. /\ stream = <<>> /\ dma = [state |-> "idle", remaining |-> 0, selected |-> 0, left |-> 0]
      /\ mem = [s \in Slot |-> 0] /\ addrQ = [c \in Core |-> <<>>]
      /\ freeQ = <<>> /\ virgin = 0 /\ freeCount = Slots /\ reqQ = <<>>
      /\ pending = [c \in Core |-> FALSE] /\ read = NoRead /\ next = [c \in Core |-> 0]
    BY DEF Init, FetchInit
<1>2. /\ cur = [c \in Core |-> 0] /\ state = [c \in Core |-> "idle"] /\ sem = [q \in Queue |-> 0]
      /\ finish = FALSE /\ launch = FALSE /\ launchLast = FALSE /\ ran = [c \in Core |-> <<>>]
    BY DEF Init
<1>3. FetchTypes
    <2>1. <<>> \in Seq(Insn) /\ <<>> \in Seq(Slot) /\ <<>> \in Seq(Core)
        BY EmptySeq
    <2>2. virgin \in 0..Slots /\ freeCount \in Int
        BY <1>1
    <2> QED
        BY <1>1, <2>1, <2>2 DEF FetchTypes
<1>4. StageTypes
    BY <1>2, EmptySeq DEF StageTypes
<1>5. Burst
    <2>1. Len(<<>>) = 0
        OBVIOUS
    <2> QED
        BY <1>1, <2>1 DEF Burst
<1>6. Requests
    BY <1>1 DEF Requests
<1>7. Phases
    BY <1>1, <1>2 DEF Phases, Quiet, Running
<1>8. SlotsConserved
    <2>1. \A p \in Place : SlotsAt(p) = <<>>
        BY <1>1 DEF SlotsAt, OneIf, Place
    <2>2. Unfilled = 0
        BY <1>1 DEF Unfilled
    <2>3. \A s \in Slot : ~(s < virgin)
        BY <1>1 DEF Slot
    <2>4. Len(freeQ) + (Slots - virgin) = freeCount + Unfilled
        BY <1>1, <2>2
    <2>5. DOMAIN <<>> = {}
        OBVIOUS
    <2> QED
        BY <2>1, <2>3, <2>4, <2>5 DEF SlotsConserved
<1>9. DispatchedInOrder /\ Tokens
    BY <1>2 DEF DispatchedInOrder, Tokens, Running
<1> QED
    BY <1>3, <1>4, <1>5, <1>6, <1>7, <1>8, <1>9 DEF Inv

LEMMA SlotsKept ==
    ASSUME FetchTypes, FetchTypes', Burst, Receivable, Requests, SlotsConserved,
           NEW in, NEW taken, FetchTick(in, taken)
    PROVE  SlotsConserved'
<1>1. Placed(Where, Used) /\ Len(freeQ) + (Slots - virgin) = freeCount + Unfilled
    BY ConservedIsPlaced
<1>2. Placed(Where, Used)'
    BY <1>1, TickMovesSlots
<1>3. (Len(freeQ) + (Slots - virgin) = freeCount + Unfilled)'
    BY <1>1, TickCounts
<1>4. \A p \in Place : Where'[p] = SlotsAt(p)'
    BY DEF Where
<1>5. \A s \in Slot : s \in Used' <=> s < virgin'
    BY DEF Used
<1> QED
    BY <1>2, <1>3, <1>4, <1>5 DEF SlotsConserved, Placed

\* The launch pulse: the core is quiet, and the line of every stage is empty.
LEMMA LaunchKeepsInv ==
    ASSUME Inv, NEW in, launch, ~launchLast, LaunchBit(in), FetchLaunch, StageTick(in),
           ran' = [c \in Core |-> IF HostWrites(in) THEN <<>> ELSE ran[c] \o OneIf(Completes(c, in), cur[c])]
    PROVE  Inv'
<1>1. FetchTypes /\ StageTypes /\ Burst /\ Quiet /\ ~finish /\ stream \in Streams /\ \A c \in Core : ran[c] = <<>>
    BY DEF Inv, Phases, Running
<1>2. ~HostWrites(in)
    BY DEF HostWrites
<1>3. launch' /\ launchLast' /\ stream' = stream
    BY <1>1, <1>2 DEF LaunchBit
<1>4. /\ \A c \in Core : state'[c] = "idle" /\ cur'[c] = 0 /\ ~Completes(c, in)
      /\ \A q \in Queue : sem'[q] = 0
      /\ ~finish'
    BY <1>1, QuietStages
<1>5. /\ FetchTypes' /\ Burst' /\ Requests' /\ SlotsConserved'
      /\ read' = NoRead /\ (\A c \in Core : addrQ'[c] = <<>> /\ next'[c] = 0) /\ Received' = 0
    BY <1>1, <1>3, LaunchResets
<1>6. StageTypes'
    BY <1>1, StageTypesKept
<1>7. \A c \in Core : ran'[c] = <<>>
    <2>1. <<>> \o <<>> = <<>>
        OBVIOUS
    <2> QED
        BY <1>1, <1>2, <1>4, <2>1 DEF OneIf
<1>8. Running'
    BY <1>3 DEF Running
<1>9. Phases'
    BY <1>1, <1>3, <1>4, <1>8 DEF Phases
<1>10. DispatchedInOrder'
    <2>1. ASSUME NEW c \in Core
          PROVE  Line(c)' = <<>>
        <3>1. Line(c)' = ran'[c] \o OneIf(cur'[c] # 0, cur'[c]) \o OneIf(next'[c] # 0, next'[c])
                         \o OneIf(read'.client = c, read'.data) \o [i \in DOMAIN addrQ'[c] |-> mem'[addrQ'[c][i]]]
            BY DEF Line
        <3>2. /\ OneIf(cur'[c] # 0, cur'[c]) = <<>> /\ OneIf(next'[c] # 0, next'[c]) = <<>>
              /\ OneIf(read'.client = c, read'.data) = <<>>
            BY <1>4, <1>5 DEF OneIf, NoRead, Core
        <3>3. [i \in DOMAIN addrQ'[c] |-> mem'[addrQ'[c][i]]] = <<>>
            <4>1. addrQ'[c] = <<>> /\ addrQ'[c] \in Seq(Slot) /\ mem' \in [Slot -> Nat]
                BY <1>5 DEF FetchTypes
            <4>2. Contents(addrQ'[c], mem') \in Seq(Nat) /\ Len(Contents(addrQ'[c], mem')) = Len(addrQ'[c])
                BY <4>1, ContentsOf
            <4>3. Contents(addrQ'[c], mem') = <<>>
                <5>1. Len(<<>>) = 0
                    OBVIOUS
                <5> QED
                    BY <4>1, <4>2, <5>1, EmptySeq
            <4> QED
                BY <4>3 DEF Contents
        <3>4. <<>> \o <<>> = <<>>
            OBVIOUS
        <3> QED
            BY <1>7, <3>1, <3>2, <3>3, <3>4
    <2>2. DOMAIN <<>> = {}
        OBVIOUS
    <2>3. Range(<<>>) = {}
        BY <2>2 DEF Range
    <2>4. {i \in 1..Received' : TRUE} = {}
        BY <1>5
    <2>5. \A c \in Core : {i \in 1..Received' : Dispatch(stream'[i]) = c} = {}
        BY <2>4
    <2> QED
        BY <2>1, <2>2, <2>3, <2>5 DEF DispatchedInOrder
<1>11. Tokens'
    <2> SUFFICES ASSUME NEW q \in Queue
                 PROVE  sem'[q] + Cardinality(StartedPops(q)') <= Cardinality(DonePushes(q)')
        BY DEF Tokens
    <2>1. \A c \in Core : Started(c)' = {} /\ Range(ran'[c]) = {}
        <3>1. Range(<<>>) = {}
            <4>1. DOMAIN <<>> = {}
                OBVIOUS
            <4> QED
                BY <4>1 DEF Range
        <3> QED
            BY <1>4, <1>7, <3>1 DEF Started
    <2>2. StartedPops(q)' = {} /\ DonePushes(q)' = {}
        BY <2>1 DEF StartedPops, DonePushes
    <2>3. Cardinality({}) = 0
        BY FS_EmptySet
    <2> QED
        BY <1>4, <2>2, <2>3
<1> QED
    BY <1>5, <1>6, <1>9, <1>10, <1>11 DEF Inv

\* Any other cycle.
LEMMA TickKeepsInv ==
    ASSUME StreamsRunnable, Inv, NEW in \in Inputs, ~(launch /\ ~launchLast), LaunchBit(in),
           FetchTick(in, {c \in Core : Takes(c, in)}), StageTick(in),
           ran' = [c \in Core |-> IF HostWrites(in) THEN <<>> ELSE ran[c] \o OneIf(Completes(c, in), cur[c])]
    PROVE  Inv'
<1> USE RtlFetchAssumption, RtlCoreAssumption
<1>1. /\ FetchTypes /\ StageTypes /\ Burst /\ Requests /\ Phases
      /\ SlotsConserved /\ DispatchedInOrder /\ Tokens
    BY DEF Inv
<1>2. Receivable /\ (dma.state = "receive" => Arriving \in Nat)
    BY <1>1, ReceivableHolds
<1>3. /\ launch' = ((launch \/ HostWrites(in)) /\ ~finish) /\ launchLast' = launch
      /\ stream' = IF HostWrites(in) THEN in.host ELSE stream
    BY DEF LaunchBit
<1>4. Running <=> launch
    BY DEF Running
<1>5. HostWrites(in) => ~launch /\ in.host \in Streams
    BY DEF HostWrites, Inputs
<1>6. stream' \in Seq(Insn) /\ (stream' = stream \/ dma.state = "idle")
    BY <1>1, <1>3, <1>4, <1>5 DEF FetchTypes, Phases, Quiet
<1>7. FetchTypes' /\ Burst'
    BY <1>1, <1>2, <1>6, TickTypes
<1>8. StageTypes'
    BY <1>1, StageTypesKept
<1>9. Requests'
    BY <1>1, <1>2, TickRequests
<1>10. SlotsConserved'
    BY <1>1, <1>2, <1>7, SlotsKept
<1>11. Quiet => Quiet' /\ ~finish'
    <2> SUFFICES ASSUME Quiet
                 PROVE  Quiet' /\ ~finish'
        OBVIOUS
    <2>1. /\ \A c \in Core : state'[c] = "idle" /\ cur'[c] = 0
          /\ (\A q \in Queue : sem'[q] = 0) /\ ~finish'
        BY <1>1, QuietStages
    <2>2. /\ dma'.state = "idle" /\ read' = NoRead
          /\ \A c \in Core : addrQ'[c] = <<>> /\ next'[c] = 0
        <3>1. dma.state = "idle" /\ read = NoRead /\ \A c \in Core : addrQ[c] = <<>> /\ next[c] = 0
            BY DEF Quiet
        <3> QED
            BY <1>1, <3>1, QuietFetch
    <2> QED
        BY <2>1, <2>2 DEF Quiet
<1>12. ASSUME Running
       PROVE  /\ stream' = stream /\ stream \in Streams
              /\ \A c \in Core : ran'[c] = ran[c] \o OneIf(Completes(c, in), cur[c])
    BY <1>1, <1>3, <1>4, <1>5, <1>12 DEF Phases
<1>13. finish' => Quiet'
    <2> SUFFICES ASSUME finish'
                 PROVE  Quiet'
        OBVIOUS
    <2>1. state["GEMM"] = "exe" /\ stream[cur["GEMM"]].op = "FINISH"
        BY DEF StageTick
    <2>2. Running
        BY <1>1, <1>11 DEF Phases
    <2> QED
        BY <1>1, <1>12, <2>1, <2>2, FinishIdle
<1>14. Phases'
    <2>1. ~Running' => Quiet' /\ ~finish'
        <3> SUFFICES ASSUME ~Running'
                     PROVE  Quiet' /\ ~finish'
            OBVIOUS
        <3>1. ~launch \/ finish
            BY <1>3 DEF Running
        <3>2. Quiet
            BY <1>1, <1>4, <3>1 DEF Phases
        <3> QED
            BY <1>11, <3>2
    <2>2. launch' => stream' \in Streams
        BY <1>1, <1>3, <1>5 DEF Phases
    <2>3. launch' /\ ~launchLast' => \A c \in Core : ran'[c] = <<>>
        BY <1>3
    <2> QED
        BY <1>13, <2>1, <2>2, <2>3 DEF Phases
<1>15. CASE Running
    <2>1. Placed(Where, Used)
        BY <1>1, ConservedIsPlaced
    <2>2. DispatchedInOrder'
        BY <1>1, <1>2, <1>7, <1>12, <1>15, <2>1, OrderKept
    <2>3. Tokens'
        BY <1>1, <1>7, <1>12, <1>15, TokensKept
    <2> QED
        BY <1>7, <1>8, <1>9, <1>10, <1>14, <2>2, <2>3 DEF Inv
<1>16. CASE ~Running
    <2>1. ~Running'
        BY <1>3, <1>4, <1>16 DEF Running
    <2> QED
        BY <1>7, <1>8, <1>9, <1>10, <1>14, <2>1 DEF Inv, DispatchedInOrder, Tokens
<1> QED
    BY <1>15, <1>16

LEMMA StepInv ==
    ASSUME StreamsRunnable, Inv, [Next]_vars
    PROVE  Inv'
<1>1. CASE Next
    <2>1. PICK in \in Inputs : Cycle(in)
        BY <1>1 DEF Next
    <2>2. /\ LaunchBit(in) /\ StageTick(in)
          /\ ran' = [c \in Core |-> IF HostWrites(in) THEN <<>>
                                    ELSE ran[c] \o OneIf(Completes(c, in), cur[c])]
        BY <2>1 DEF Cycle
    <2>3. CASE launch /\ ~launchLast
        <3>1. FetchLaunch
            BY <2>1, <2>3 DEF Cycle
        <3> QED
            BY <2>2, <2>3, <3>1, LaunchKeepsInv
    <2>4. CASE ~(launch /\ ~launchLast)
        <3>1. FetchTick(in, {c \in Core : Takes(c, in)})
            BY <2>1, <2>4 DEF Cycle
        <3> QED
            BY <2>2, <2>4, <3>1, TickKeepsInv
    <2> QED
        BY <2>3, <2>4
<1>2. CASE UNCHANGED vars
    <2>1. /\ stream' = stream /\ dma' = dma /\ mem' = mem /\ addrQ' = addrQ /\ freeQ' = freeQ
          /\ virgin' = virgin /\ freeCount' = freeCount /\ reqQ' = reqQ /\ pending' = pending
          /\ read' = read /\ next' = next /\ cur' = cur /\ state' = state /\ sem' = sem
          /\ finish' = finish /\ launch' = launch /\ launchLast' = launchLast /\ ran' = ran
        BY <1>2 DEF vars, fetchVars, stageVars
    <2>2. FetchTypes' /\ StageTypes'
        BY <2>1 DEF Inv, FetchTypes, StageTypes
    <2>3. Burst' /\ Requests'
        BY <2>1 DEF Inv, Burst, Requests
    <2>4. Phases'
        BY <2>1 DEF Inv, Phases, Quiet, Running
    <2>5. SlotsConserved'
        BY <2>1 DEF Inv, SlotsConserved, SlotsAt, Unfilled
    <2>6. DispatchedInOrder'
        <3>1. \A c \in Core : Line(c)' = Line(c)
            BY <2>1 DEF Line
        <3>2. Received' = Received /\ (Running' <=> Running)
            BY <2>1 DEF Running, Received
        <3> QED
            BY <2>1, <3>1, <3>2 DEF Inv, DispatchedInOrder
    <2>7. Tokens'
        BY <2>1 DEF Inv, Tokens, Running, StartedPops, DonePushes, Started
    <2> QED
        BY <2>2, <2>3, <2>4, <2>5, <2>6, <2>7 DEF Inv
<1> QED
    BY <1>1, <1>2

LEMMA InvHolds == StreamsRunnable => (Spec => []Inv)
<1> SUFFICES ASSUME StreamsRunnable
             PROVE  Spec => []Inv
    OBVIOUS
<1>1. Inv /\ [Next]_vars => Inv'
    BY StepInv
<1> QED
    BY InitInv, <1>1, PTL DEF Spec

\* No slot of the instruction memory is lost or given twice, a burst under way
\* always finds room, and neither assertion of FetchInstMemCore can fail.
THEOREM MemoryIsConsistent == StreamsRunnable => (Spec => []FetchMemoryConsistent)
<1> SUFFICES ASSUME StreamsRunnable
             PROVE  Spec => []FetchMemoryConsistent
    OBVIOUS
<1>1. Inv => FetchMemoryConsistent
    <2> SUFFICES ASSUME Inv
                 PROVE  FetchMemoryConsistent
        OBVIOUS
    <2>1. /\ FetchTypes /\ StageTypes /\ Burst /\ Requests /\ Phases /\ SlotsConserved
        BY DEF Inv
    <2>2. dma.state = "receive" => Target # "unknown"
        BY <2>1, ReceivableHolds DEF Receivable, Core
    <2>3. reqQ # <<>> => addrQ[Head(reqQ)] # <<>>
        <3> SUFFICES ASSUME reqQ # <<>>
                     PROVE  addrQ[Head(reqQ)] # <<>>
            OBVIOUS
        <3>1. reqQ \in Seq(Core)
            BY <2>1 DEF FetchTypes
        <3>2. Head(reqQ) = reqQ[1] /\ 1 \in DOMAIN reqQ
            <4>1. Len(reqQ) \in Nat \ {0} /\ DOMAIN reqQ = 1..Len(reqQ)
                BY <3>1, EmptySeq, LenProperties
            <4> QED
                BY <3>1, <4>1
        <3> QED
            BY <2>1, <3>2 DEF Requests
    <2> QED
        BY <2>1, <2>2, <2>3 DEF FetchMemoryConsistent, AssertionsHold
<1> QED
    BY InvHolds, <1>1, PTL

\* Every stage gets the instructions for it, in stream order and exactly once,
\* through a memory whose slots are reused in any order.
THEOREM DispatchKeepsOrder == StreamsRunnable => (Spec => []DispatchedInOrder)
<1> SUFFICES ASSUME StreamsRunnable
             PROVE  Spec => []DispatchedInOrder
    OBVIOUS
<1>1. Inv => DispatchedInOrder
    BY DEF Inv
<1> QED
    BY InvHolds, <1>1, PTL

\* The finish that clears the launch bit comes when every instruction of the
\* stream has run, and finds no token in any semaphore.
THEOREM FinishIsIdle == StreamsRunnable => (Spec => []FinishMeansIdle)
<1> SUFFICES ASSUME StreamsRunnable
             PROVE  Spec => []FinishMeansIdle
    OBVIOUS
<1>1. Inv => FinishMeansIdle
    BY DEF Inv, Phases, Quiet, FinishMeansIdle
<1> QED
    BY InvHolds, <1>1, PTL

--------------------------------------------------------------------------------
(* The RTL is the token pipeline of the API.  The calls of a launch are those  *)
(* of its stream.                                                              *)

\* A semaphore saturates, and then loses a token: no stage that is running posts
\* one that is full.
RoomForPosts ==
    \A c \in Core : state[c] # "idle" => \A q \in Posts(stream[cur[c]]) : sem[q] # SemMax
FewPushes == \A s \in Streams, q \in Queue : Cardinality(Pushers(s, q)) <= SemMax

LEMMA CallFields ==
    ASSUME NEW i, NEW o
    PROVE  /\ o \in Pops(i) <=> \E q \in Waits(stream[i]) :
                 o = [stage |-> Dispatch(stream[i]), at |-> 3 * i, kind |-> "pop", link |-> q]
           /\ o \in Works(i) <=> /\ ~IsSync(stream[i])
                                 /\ o = [stage |-> Dispatch(stream[i]), at |-> 3 * i + 1,
                                        kind |-> "work", link |-> "none"]
           /\ o \in Pushes(i) <=> \E q \in Posts(stream[i]) :
                 o = [stage |-> Dispatch(stream[i]), at |-> 3 * i + 2, kind |-> "push", link |-> q]
BY DEF Pops, Works, Pushes

LEMMA CallMembers ==
    ASSUME NEW o
    PROVE  /\ o \in Calls <=> \E i \in DOMAIN stream : o \in Pops(i) \/ o \in Works(i) \/ o \in Pushes(i)
           /\ o \in CallsDone <=> \E c \in Core : \/ \E i \in Started(c) : o \in Pops(i)
                                                  \/ \E i \in Range(ran[c]) : o \in Works(i) \/ o \in Pushes(i)
<1>1. o \in Calls <=> \E i \in DOMAIN stream : o \in Pops(i) \/ o \in Works(i) \/ o \in Pushes(i)
    BY DEF Calls
<1>2. ASSUME NEW c \in Core
      PROVE  o \in (UNION {Pops(i) : i \in Started(c)}) \cup (UNION {Works(i) \cup Pushes(i) : i \in Range(ran[c])})
             <=> \/ \E i \in Started(c) : o \in Pops(i)
                 \/ \E i \in Range(ran[c]) : o \in Works(i) \/ o \in Pushes(i)
    <2>1. PICK a : a = UNION {Pops(i) : i \in Started(c)}
        OBVIOUS
    <2>2. PICK b : b = UNION {Works(i) \cup Pushes(i) : i \in Range(ran[c])}
        OBVIOUS
    <2>3. o \in a <=> \E i \in Started(c) : o \in Pops(i)
        BY <2>1
    <2>4. o \in b <=> \E i \in Range(ran[c]) : o \in Works(i) \cup Pushes(i)
        BY <2>2
    <2>5. o \in a \cup b <=> \/ \E i \in Started(c) : o \in Pops(i)
                             \/ \E i \in Range(ran[c]) : o \in Works(i) \/ o \in Pushes(i)
        BY <2>3, <2>4
    <2> QED
        BY <2>1, <2>2, <2>5
<1>3. o \in CallsDone <=>
        \E c \in Core : o \in (UNION {Pops(i) : i \in Started(c)}) \cup (UNION {Works(i) \cup Pushes(i) : i \in Range(ran[c])})
    BY DEF CallsDone
<1> QED
    BY <1>1, <1>2, <1>3

LEMMA QueueStages ==
    ASSUME NEW insn, Dispatch(insn) \in Core
    PROVE  /\ \A q \in Waits(insn) : q \in Queue /\ Dispatch(insn) = PoppingCore[q]
           /\ \A q \in Posts(insn) : q \in Queue /\ Dispatch(insn) = PushingCore[q]
BY DEF Waits, Posts, Core, Queue, PoppingCore, PushingCore

\* What a stage has not completed comes at or after its current instruction.
LEMMA NotBehind ==
    ASSUME FetchTypes, StageTypes, Burst, DispatchedInOrder, Running, NEW c \in Core
    PROVE  /\ \A x \in Started(c) : x \in Nat /\ x \in DOMAIN stream /\ Dispatch(stream[x]) = c
           /\ \A x \in Range(ran[c]) : x \in Started(c)
           /\ cur[c] # 0 => /\ cur[c] \in Nat /\ cur[c] \in DOMAIN stream /\ Dispatch(stream[cur[c]]) = c
                            /\ cur[c] \notin Range(ran[c])
                            /\ \A y \in DOMAIN stream : Dispatch(stream[y]) = c /\ y \notin Range(ran[c]) => y >= cur[c]
<1>1. DOMAIN stream \subseteq Nat
    BY LenProperties DEF FetchTypes
<1>2. cur[c] \in Nat /\ (state[c] # "idle" => cur[c] # 0)
    BY DEF StageTypes
<1>3. \A x \in Started(c) : x \in Range(ran[c]) \/ (cur[c] # 0 /\ x = cur[c])
    BY <1>2 DEF Started
<1>4. \A x \in Started(c) : x \in Range(Line(c))
    BY <1>3, Positions
<1>5. \A x \in Started(c) : x \in Nat /\ x \in DOMAIN stream /\ Dispatch(stream[x]) = c
    BY <1>1, <1>4, Positions
<1>6. \A x \in Range(ran[c]) : x \in Started(c)
    BY DEF Started
<1>7. ASSUME cur[c] # 0
      PROVE  /\ cur[c] \in DOMAIN stream /\ Dispatch(stream[cur[c]]) = c /\ cur[c] \notin Range(ran[c])
             /\ cur[c] \in 1..Received
    <2>1. cur[c] \in Range(Line(c))
        BY <1>7, Positions
    <2>2. \A x \in Range(ran[c]) : x < cur[c]
        BY <1>7, Positions
    <2>3. cur[c] \notin Range(ran[c])
        BY <1>2, <2>2
    <2> QED
        BY <2>1, <2>3, Positions
<1>8. ASSUME cur[c] # 0, NEW y \in DOMAIN stream, Dispatch(stream[y]) = c, y \notin Range(ran[c])
      PROVE  y >= cur[c]
    <2>1. y \in 1..Len(stream) /\ y \in Nat
        BY <1>1, <1>8, LenProperties DEF FetchTypes
    <2>2. Received \in Nat
        BY Positions
    <2>3. CASE y \in 1..Received
        <3>1. y \in Range(Line(c))
            BY <1>8, <2>3, Positions
        <3>2. y \in Range(After(c)) \/ y = cur[c]
            BY <1>8, <3>1, Positions
        <3>3. y \in Range(After(c)) => cur[c] < y
            BY <1>8, Positions
        <3> QED
            BY <1>2, <2>1, <3>2, <3>3
    <2>4. CASE y \notin 1..Received
        <3>1. cur[c] \in 1..Received
            BY <1>7, <1>8
        <3> QED
            BY <1>2, <2>1, <2>2, <2>4, <3>1
    <2> QED
        BY <2>3, <2>4
<1> QED
    BY <1>2, <1>5, <1>6, <1>7, <1>8

\* What a cycle adds to what each stage has started and completed.
LEMMA Progress ==
    ASSUME StageTypes, NEW in, StageTick(in), NEW c \in Core,
           ran'[c] = ran[c] \o OneIf(Completes(c, in), cur[c])
    PROVE  /\ \A x : x \in Range(ran'[c]) <=> x \in Range(ran[c]) \/ (Completes(c, in) /\ x = cur[c])
           /\ \A x : x \in Started(c)' <=> x \in Started(c) \/ (Starts(c) /\ x = cur[c])
<1>1. cur[c] \in Nat /\ ran[c] \in Seq(Nat)
    BY DEF StageTypes
<1>2. PICK d \in Seq(Nat) : d = OneIf(Completes(c, in), cur[c])
    BY <1>1, Concats DEF OneIf
<1>3. \A x, y \in Seq(Nat) : Range(x \o y) = Range(x) \cup Range(y)
    BY RangeConcatenation
<1>4. Range(ran'[c]) = Range(ran[c]) \cup Range(d)
    BY <1>1, <1>2, <1>3
<1>5. \A x : x \in Range(d) <=> Completes(c, in) /\ x = cur[c]
    <2>1. CASE Completes(c, in)
        <3>1. d = OneIf(TRUE, cur[c])
            BY <1>2, <2>1 DEF OneIf
        <3> QED
            BY <1>1, <2>1, <3>1, OneIfRange
    <2>2. CASE ~Completes(c, in)
        <3>1. d = OneIf(FALSE, cur[c])
            BY <1>2, <2>2 DEF OneIf
        <3> QED
            BY <1>1, <2>2, <3>1, OneIfRange
    <2> QED
        BY <2>1, <2>2
<1>6. \A x : x \in Range(ran'[c]) <=> x \in Range(ran[c]) \/ (Completes(c, in) /\ x = cur[c])
    BY <1>4, <1>5
<1>7. \A x : x \in Started(c) <=> x \in Range(ran[c]) \/ (state[c] # "idle" /\ x = cur[c])
    BY DEF Started
<1>8. \A x : x \in Started(c)' <=> x \in Range(ran'[c]) \/ (state'[c] # "idle" /\ x = cur'[c])
    BY DEF Started
<1>9. CASE Starts(c)
    <2>1. state[c] = "idle" /\ ~Completes(c, in) /\ state'[c] # "idle" /\ cur'[c] = cur[c]
        BY <1>9, StageSteps DEF Starts
    <2> QED
        BY <1>6, <1>7, <1>8, <1>9, <2>1
<1>10. CASE ~Starts(c) /\ Completes(c, in)
    <2>1. state[c] # "idle" /\ state'[c] = "idle"
        BY <1>10, StageSteps
    <2> QED
        BY <1>6, <1>7, <1>8, <1>10, <2>1
<1>11. CASE ~Starts(c) /\ ~Completes(c, in)
    <2>1. state'[c] = state[c] /\ (state[c] # "idle" => cur'[c] = cur[c])
        BY <1>11, StageSteps
    <2> QED
        BY <1>6, <1>7, <1>8, <1>11, <2>1
<1> QED
    BY <1>6, <1>9, <1>10, <1>11

\* The calls done in a cycle: the pops of the instructions that start, the work
\* and the pushes of those that complete.
DoneNow(o, in) ==
    \E c \in Core :
        \/ Starts(c) /\ o \in Pops(cur[c])
        \/ Completes(c, in) /\ (o \in Works(cur[c]) \/ o \in Pushes(cur[c]))

LEMMA DoneInCycle ==
    ASSUME FetchTypes, StageTypes, Burst, DispatchedInOrder, Running, stream' = stream,
           NEW in, StageTick(in),
           \A c \in Core : ran'[c] = ran[c] \o OneIf(Completes(c, in), cur[c]),
           NEW o
    PROVE  /\ o \in CallsDone => o \in CallsDone'
           /\ o \in CallsDone' /\ o \notin CallsDone <=>
                DoneNow(o, in)
           /\ o \in CallsDone' => o \in Calls
<1>1. o \in CallsDone' <=> \E c \in Core : \/ \E i \in Started(c)' : o \in Pops(i)
                                           \/ \E i \in Range(ran'[c]) : o \in Works(i) \/ o \in Pushes(i)
    <2>1. \A i : Pops(i)' = Pops(i) /\ Works(i)' = Works(i) /\ Pushes(i)' = Pushes(i)
        BY DEF Pops, Works, Pushes
    <2>2. ASSUME NEW c \in Core
          PROVE  o \in (UNION {Pops(i)' : i \in Started(c)'}) \cup (UNION {Works(i)' \cup Pushes(i)' : i \in Range(ran'[c])})
                 <=> \/ \E i \in Started(c)' : o \in Pops(i)
                     \/ \E i \in Range(ran'[c]) : o \in Works(i) \/ o \in Pushes(i)
        <3>1. PICK a : a = UNION {Pops(i)' : i \in Started(c)'}
            OBVIOUS
        <3>2. PICK b : b = UNION {Works(i)' \cup Pushes(i)' : i \in Range(ran'[c])}
            OBVIOUS
        <3>3. o \in a <=> \E i \in Started(c)' : o \in Pops(i)
            BY <2>1, <3>1
        <3>4. o \in b <=> \E i \in Range(ran'[c]) : o \in Works(i) \cup Pushes(i)
            BY <2>1, <3>2
        <3>5. o \in a \cup b <=> \/ \E i \in Started(c)' : o \in Pops(i)
                                 \/ \E i \in Range(ran'[c]) : o \in Works(i) \/ o \in Pushes(i)
            BY <3>3, <3>4
        <3> QED
            BY <3>1, <3>2, <3>5
    <2>3. o \in CallsDone' <=>
            \E c \in Core : o \in (UNION {Pops(i)' : i \in Started(c)'}) \cup (UNION {Works(i)' \cup Pushes(i)' : i \in Range(ran'[c])})
        BY DEF CallsDone
    <2> QED
        BY <2>2, <2>3
<1>2. o \in CallsDone <=> \E c \in Core : \/ \E i \in Started(c) : o \in Pops(i)
                                          \/ \E i \in Range(ran[c]) : o \in Works(i) \/ o \in Pushes(i)
    BY CallMembers
<1>3. ASSUME NEW c \in Core
      PROVE  /\ \A x : x \in Range(ran'[c]) <=> x \in Range(ran[c]) \/ (Completes(c, in) /\ x = cur[c])
             /\ \A x : x \in Started(c)' <=> x \in Started(c) \/ (Starts(c) /\ x = cur[c])
    BY Progress
<1>4. o \in CallsDone' <=> o \in CallsDone \/ DoneNow(o, in)
    <2>1. ASSUME NEW c \in Core
          PROVE  /\ (\E i \in Started(c)' : o \in Pops(i)) <=> \/ \E i \in Started(c) : o \in Pops(i)
                                                               \/ Starts(c) /\ o \in Pops(cur[c])
                 /\ (\E i \in Range(ran'[c]) : o \in Works(i) \/ o \in Pushes(i)) <=>
                       \/ \E i \in Range(ran[c]) : o \in Works(i) \/ o \in Pushes(i)
                       \/ Completes(c, in) /\ (o \in Works(cur[c]) \/ o \in Pushes(cur[c]))
        <3>1. PICK s : s = Started(c)
            OBVIOUS
        <3>2. PICK t : t = Started(c)'
            OBVIOUS
        <3>3. PICK r : r = Range(ran[c])
            OBVIOUS
        <3>4. PICK u : u = Range(ran'[c])
            OBVIOUS
        <3>5. /\ \A x : x \in t <=> x \in s \/ (Starts(c) /\ x = cur[c])
              /\ \A x : x \in u <=> x \in r \/ (Completes(c, in) /\ x = cur[c])
            BY <1>3, <3>1, <3>2, <3>3, <3>4
        <3>6. (\E i \in t : o \in Pops(i)) <=> \/ \E i \in s : o \in Pops(i)
                                               \/ Starts(c) /\ o \in Pops(cur[c])
            BY <3>5
        <3>7. (\E i \in u : o \in Works(i) \/ o \in Pushes(i)) <=>
                 \/ \E i \in r : o \in Works(i) \/ o \in Pushes(i)
                 \/ Completes(c, in) /\ (o \in Works(cur[c]) \/ o \in Pushes(cur[c]))
            BY <3>5
        <3> QED
            BY <3>1, <3>2, <3>3, <3>4, <3>6, <3>7
    <2> QED
        BY <1>1, <1>2, <2>1 DEF DoneNow
\* None of them was done before.
<1>5. ASSUME NEW c \in Core, Starts(c), o \in Pops(cur[c])
      PROVE  o \notin CallsDone
    <2> SUFFICES ASSUME o \in CallsDone
                 PROVE  FALSE
        OBVIOUS
    <2>1. o.at = 3 * cur[c] /\ o.kind = "pop"
        BY <1>5, CallFields
    <2>2. PICK e \in Core : \E i \in Started(e) : o \in Pops(i)
        BY <1>2, <2>1, CallFields
    <2>3. PICK i \in Started(e) : o \in Pops(i)
        BY <2>2
    <2>4. o.at = 3 * i
        BY <2>3, CallFields
    <2>5. cur[c] # 0 /\ state[c] = "idle"
        BY <1>5 DEF Starts
    <2>6. i \in Nat /\ Dispatch(stream[i]) = e /\ cur[c] \in Nat
        BY <2>3, <2>5, NotBehind
    <2>7. i = cur[c]
        BY <2>1, <2>4, <2>6
    <2>8. e = c
        BY <2>5, <2>6, <2>7, NotBehind
    <2>9. cur[c] \in Range(ran[c])
        BY <2>3, <2>5, <2>7, <2>8 DEF Started
    <2> QED
        BY <2>5, <2>9, NotBehind
<1>6. ASSUME NEW c \in Core, Completes(c, in), o \in Works(cur[c]) \/ o \in Pushes(cur[c])
      PROVE  o \notin CallsDone
    <2> SUFFICES ASSUME o \in CallsDone
                 PROVE  FALSE
        OBVIOUS
    <2>1. \/ o.at = 3 * cur[c] + 1 /\ o.kind = "work"
          \/ o.at = 3 * cur[c] + 2 /\ o.kind = "push"
        BY <1>6, CallFields
    <2>2. PICK e \in Core : \E i \in Range(ran[e]) : o \in Works(i) \/ o \in Pushes(i)
        BY <1>2, <2>1, CallFields
    <2>3. PICK i \in Range(ran[e]) : o \in Works(i) \/ o \in Pushes(i)
        BY <2>2
    <2>4. \/ o.at = 3 * i + 1 /\ o.kind = "work"
          \/ o.at = 3 * i + 2 /\ o.kind = "push"
        BY <2>3, CallFields
    <2>5. cur[c] # 0
        BY <1>6, StageSteps
    <2>6. i \in Nat /\ Dispatch(stream[i]) = e /\ cur[c] \in Nat
        BY <2>3, <2>5, NotBehind
    <2>7. i = cur[c]
        <3>1. \A m, n \in Nat : 3 * m + 1 = 3 * n + 1 \/ 3 * m + 2 = 3 * n + 2 => m = n
            OBVIOUS
        <3>2. 3 * i + 1 = 3 * cur[c] + 1 \/ 3 * i + 2 = 3 * cur[c] + 2
            BY <2>1, <2>4
        <3> QED
            BY <2>6, <3>1, <3>2
    <2>8. e = c
        BY <2>5, <2>6, <2>7, NotBehind
    <2> QED
        BY <2>3, <2>5, <2>7, <2>8, NotBehind
\* They are calls of the stream.
<1>7. o \in CallsDone' => o \in Calls
    <2>1. ASSUME NEW c \in Core, NEW i \in Started(c)
          PROVE  i \in DOMAIN stream
        BY <2>1, NotBehind
    <2>2. ASSUME NEW c \in Core, NEW i \in Range(ran[c])
          PROVE  i \in DOMAIN stream
        BY <2>2, NotBehind
    <2>3. ASSUME NEW c \in Core, Starts(c) \/ Completes(c, in)
          PROVE  cur[c] \in DOMAIN stream
        <3>1. cur[c] # 0
            BY <2>3, StageSteps
        <3> QED
            BY <3>1, NotBehind
    <2> QED
        BY <1>2, <1>4, <2>1, <2>2, <2>3, CallMembers DEF DoneNow
<1> QED
    <2>1. DoneNow(o, in) => o \notin CallsDone
        BY <1>5, <1>6 DEF DoneNow
    <2> QED
        BY <1>4, <1>7, <2>1

\* Of each link, the cycle does one pop if its stage starts to wait for it, one
\* push if its stage posts it.
LEMMA MovedInCycle ==
    ASSUME FetchTypes, StageTypes, Burst, DispatchedInOrder, Running, stream' = stream,
           NEW in, StageTick(in),
           \A c \in Core : ran'[c] = ran[c] \o OneIf(Completes(c, in), cur[c]),
           NEW q \in Queue
    PROVE  /\ Cardinality({o \in CallsDone' \ CallsDone : o.kind = "pop" /\ o.link = q}) = IF SWait(q) THEN 1 ELSE 0
           /\ Cardinality({o \in CallsDone' \ CallsDone : o.kind = "push" /\ o.link = q}) = IF SPost(q, in) THEN 1 ELSE 0
<1>1. PICK d : d = CallsDone' \ CallsDone
    OBVIOUS
<1>2. \A o : o \in d <=> DoneNow(o, in)
    BY <1>1, DoneInCycle
<1>3. ASSUME NEW c \in Core, Starts(c) \/ Completes(c, in)
      PROVE  /\ Dispatch(stream[cur[c]]) = c
             /\ \A r \in Waits(stream[cur[c]]) : c = PoppingCore[r]
             /\ \A r \in Posts(stream[cur[c]]) : c = PushingCore[r]
    <2>1. cur[c] # 0
        BY <1>3, StageSteps
    <2>2. Dispatch(stream[cur[c]]) = c
        BY <2>1, NotBehind
    <2> QED
        BY <2>2, QueueStages
<1>4. PICK x : x = [stage |-> PoppingCore[q], at |-> 3 * cur[PoppingCore[q]], kind |-> "pop", link |-> q]
    OBVIOUS
<1>5. PICK y : y = [stage |-> PushingCore[q], at |-> 3 * cur[PushingCore[q]] + 2, kind |-> "push", link |-> q]
    OBVIOUS
<1>6. PICK a : a = {o \in d : o.kind = "pop" /\ o.link = q}
    OBVIOUS
<1>7. PICK b : b = {o \in d : o.kind = "push" /\ o.link = q}
    OBVIOUS
<1>8. \A o : o \in a <=> SWait(q) /\ o = x
    <2>1. ASSUME NEW o \in a
          PROVE  SWait(q) /\ o = x
        <3>1. o.kind = "pop" /\ o.link = q /\ o \in d
            BY <1>6
        <3>2. PICK c \in Core : Starts(c) /\ o \in Pops(cur[c])
            BY <1>2, <3>1, CallFields DEF DoneNow
        <3>3. PICK r \in Waits(stream[cur[c]]) :
                o = [stage |-> Dispatch(stream[cur[c]]), at |-> 3 * cur[c], kind |-> "pop", link |-> r]
            BY <3>2, CallFields
        <3>4. r = q
            BY <3>1, <3>3
        <3>5. Dispatch(stream[cur[c]]) = c /\ c = PoppingCore[q]
            BY <1>3, <3>2, <3>3, <3>4
        <3>6. SWait(q)
            BY <3>2, <3>3, <3>4 DEF SWait
        <3> QED
            BY <1>4, <3>3, <3>4, <3>5, <3>6
    <2>2. ASSUME SWait(q)
          PROVE  x \in a
        <3>1. PICK c \in Core : Starts(c) /\ q \in Waits(stream[cur[c]])
            BY <2>2 DEF SWait
        <3>2. Dispatch(stream[cur[c]]) = c /\ c = PoppingCore[q]
            BY <1>3, <3>1
        <3>3. x \in Pops(cur[c])
            BY <1>4, <3>1, <3>2, CallFields
        <3>4. x.kind = "pop" /\ x.link = q
            BY <1>4
        <3>5. x \in d
            BY <1>2, <3>1, <3>3, Zenon DEF DoneNow
        <3> QED
            BY <1>6, <3>4, <3>5
    <2> QED
        BY <2>1, <2>2
<1>9. \A o : o \in b <=> SPost(q, in) /\ o = y
    <2>1. ASSUME NEW o \in b
          PROVE  SPost(q, in) /\ o = y
        <3>1. o.kind = "push" /\ o.link = q /\ o \in d
            BY <1>7
        <3>2. PICK c \in Core : Completes(c, in) /\ o \in Pushes(cur[c])
            BY <1>2, <3>1, CallFields DEF DoneNow
        <3>3. PICK r \in Posts(stream[cur[c]]) :
                o = [stage |-> Dispatch(stream[cur[c]]), at |-> 3 * cur[c] + 2, kind |-> "push", link |-> r]
            BY <3>2, CallFields
        <3>4. r = q
            BY <3>1, <3>3
        <3>5. Dispatch(stream[cur[c]]) = c /\ c = PushingCore[q]
            BY <1>3, <3>2, <3>3, <3>4
        <3>6. SPost(q, in)
            BY <3>2, <3>3, <3>4 DEF SPost
        <3> QED
            BY <1>5, <3>3, <3>4, <3>5, <3>6
    <2>2. ASSUME SPost(q, in)
          PROVE  y \in b
        <3>1. PICK c \in Core : Completes(c, in) /\ q \in Posts(stream[cur[c]])
            BY <2>2 DEF SPost
        <3>2. Dispatch(stream[cur[c]]) = c /\ c = PushingCore[q]
            BY <1>3, <3>1
        <3>3. y \in Pushes(cur[c])
            BY <1>5, <3>1, <3>2, CallFields
        <3>4. y.kind = "push" /\ y.link = q
            BY <1>5
        <3>5. y \in d
            BY <1>2, <3>1, <3>3, Zenon DEF DoneNow
        <3> QED
            BY <1>7, <3>4, <3>5
    <2> QED
        BY <2>1, <2>2
<1>10. Cardinality(a) = IF SWait(q) THEN 1 ELSE 0
    <2>1. CASE SWait(q)
        <3>1. a = {x}
            BY <1>8, <2>1
        <3> QED
            BY <2>1, <3>1, FS_Singleton
    <2>2. CASE ~SWait(q)
        <3>1. a = {}
            BY <1>8, <2>2
        <3> QED
            BY <2>2, <3>1, FS_EmptySet
    <2> QED
        BY <2>1, <2>2
<1>11. Cardinality(b) = IF SPost(q, in) THEN 1 ELSE 0
    <2>1. CASE SPost(q, in)
        <3>1. b = {y}
            BY <1>9, <2>1
        <3> QED
            BY <2>1, <3>1, FS_Singleton
    <2>2. CASE ~SPost(q, in)
        <3>1. b = {}
            BY <1>9, <2>2
        <3> QED
            BY <2>2, <3>1, FS_EmptySet
    <2> QED
        BY <2>1, <2>2
<1> QED
    BY <1>1, <1>6, <1>7, <1>10, <1>11

\* What a stage does comes before what it has still to do.
LEMMA DoneInOrder ==
    ASSUME FetchTypes, StageTypes, Burst, DispatchedInOrder, Running, stream' = stream,
           NEW in, StageTick(in),
           \A c \in Core : ran'[c] = ran[c] \o OneIf(Completes(c, in), cur[c]),
           NEW o, DoneNow(o, in), NEW p \in Calls, p \notin CallsDone', p.stage = o.stage
    PROVE  p.at >= o.at
<1>1. PICK c \in Core : \/ Starts(c) /\ o \in Pops(cur[c])
                        \/ Completes(c, in) /\ (o \in Works(cur[c]) \/ o \in Pushes(cur[c]))
    BY DEF DoneNow
<1>2. cur[c] # 0
    BY <1>1, StageSteps
<1>3. cur[c] \in Nat /\ Dispatch(stream[cur[c]]) = c
    BY <1>2, NotBehind
<1>4. o.stage = c
    BY <1>1, <1>3, CallFields
<1>5. PICK y \in DOMAIN stream : p \in Pops(y) \/ p \in Works(y) \/ p \in Pushes(y)
    BY CallMembers
<1>6. y \in Nat
    BY LenProperties DEF FetchTypes
<1>7. p.stage = Dispatch(stream[y])
    BY <1>5, CallFields
<1>8. Dispatch(stream[y]) = c
    BY <1>4, <1>7
<1>9. p \notin CallsDone
    BY DoneInCycle
<1>10. y \notin Range(ran[c])
    <2>1. ASSUME y \in Range(ran[c])
          PROVE  p \in CallsDone
        <3>1. y \in Started(c)
            BY <2>1, NotBehind
        <3> QED
            BY <1>5, <2>1, <3>1, CallMembers
    <2> QED
        BY <1>9, <2>1
<1>11. y >= cur[c]
    BY <1>2, <1>8, <1>10, NotBehind
<1>12. p.at \in {3 * y, 3 * y + 1, 3 * y + 2}
    BY <1>5, CallFields
<1>13. CASE Starts(c)
    <2>1. ~Completes(c, in)
        BY <1>13, StageSteps
    <2>2. o.at = 3 * cur[c]
        BY <1>1, <2>1, CallFields
    <2>3. \A k, n \in Nat : n >= k => 3 * n >= 3 * k /\ 3 * n + 1 >= 3 * k /\ 3 * n + 2 >= 3 * k
        OBVIOUS
    <2> QED
        BY <1>3, <1>6, <1>11, <1>12, <2>2, <2>3
<1>14. CASE ~Starts(c)
    <2>1. Completes(c, in) /\ (o \in Works(cur[c]) \/ o \in Pushes(cur[c]))
        BY <1>1, <1>14
    <2>2. o.at = 3 * cur[c] + 1 \/ o.at = 3 * cur[c] + 2
        BY <2>1, CallFields
    <2>3. y # cur[c]
        <3> SUFFICES ASSUME y = cur[c]
                     PROVE  FALSE
            OBVIOUS
        <3>1. state[c] # "idle"
            BY <2>1, StageSteps
        <3>2. y \in Started(c)
            BY <3>1 DEF Started
        <3>3. p \in Pops(y) => p \in CallsDone
            BY <3>2, CallMembers
        <3>4. p \in Works(y) \/ p \in Pushes(y) => DoneNow(p, in)
            BY <2>1 DEF DoneNow
        <3>5. DoneNow(p, in) => p \in CallsDone'
            BY DoneInCycle
        <3> QED
            BY <1>5, <1>9, <3>3, <3>4, <3>5
    <2>4. \A k, n \in Nat : n >= k /\ n # k => /\ 3 * n >= 3 * k + 2 /\ 3 * n + 1 >= 3 * k + 2 /\ 3 * n + 2 >= 3 * k + 2
                                               /\ 3 * n >= 3 * k + 1 /\ 3 * n + 1 >= 3 * k + 1 /\ 3 * n + 2 >= 3 * k + 1
        OBVIOUS
    <2> QED
        BY <1>3, <1>6, <1>11, <1>12, <2>2, <2>3, <2>4
<1> QED
    BY <1>13, <1>14

\* The two modules count alike.
LEMMA SameCount == \A S : Promise!Cardinality(S) = Cardinality(S)
BY DEF Promise!Cardinality, Cardinality

\* A cycle while the core runs is some calls of some stages, or nothing.
LEMMA CycleAdvances ==
    ASSUME FetchTypes, StageTypes, Burst, DispatchedInOrder, Running, stream' = stream, launch', RoomForPosts,
           NEW in, StageTick(in),
           \A c \in Core : ran'[c] = ran[c] \o OneIf(Completes(c, in), cur[c])
    PROVE  Promise!Advance \/ UNCHANGED <<Asked, Answered, sem>>
<1>1. Asked = Calls /\ Asked' = Calls /\ Answered = CallsDone /\ Answered' = CallsDone'
    <2>1. Calls' = Calls
        BY DEF Calls, Pops, Works, Pushes
    <2> QED
        BY <2>1 DEF Asked, Answered, Running
<1>2. Answered \subseteq Answered' /\ Answered' \subseteq Asked'
    BY <1>1, DoneInCycle
<1>3. \A o : o \in Answered' \ Answered <=> DoneNow(o, in)
    BY <1>1, DoneInCycle
<1>4. \A o \in Answered' \ Answered, p \in Asked \ Answered' : p.stage = o.stage => p.at >= o.at
    BY <1>1, <1>3, DoneInOrder
<1>5. ASSUME NEW q \in Queue
      PROVE  /\ Cardinality({o \in Answered' \ Answered : o.kind = "pop" /\ o.link = q}) = IF SWait(q) THEN 1 ELSE 0
             /\ Cardinality({o \in Answered' \ Answered : o.kind = "push" /\ o.link = q}) = IF SPost(q, in) THEN 1 ELSE 0
    BY <1>1, MovedInCycle
<1>6. ASSUME NEW q \in Queue
      PROVE  /\ sem[q] \in Nat /\ (SWait(q) => sem[q] > 0)
             /\ sem'[q] = sem[q] - (IF SWait(q) THEN 1 ELSE 0) + (IF SPost(q, in) THEN 1 ELSE 0)
    <2>1. sem'[q] = Semaphore(q, in)
        BY DEF StageTick
    <2>2. /\ sem[q] \in Nat
          /\ SWait(q) => sem[q] > 0
          /\ SPost(q, in) /\ SWait(q) => Semaphore(q, in) = sem[q]
          /\ ~SPost(q, in) /\ SWait(q) => Semaphore(q, in) = sem[q] - 1
          /\ ~SPost(q, in) /\ ~SWait(q) => Semaphore(q, in) = sem[q]
        BY SemaphoreSteps
    <2>3. SPost(q, in) => sem[q] # SemMax
        BY DEF SPost, RoomForPosts, Completes
    <2>4. SPost(q, in) /\ ~SWait(q) => Semaphore(q, in) = sem[q] + 1
        BY <2>3 DEF Semaphore
    <2> QED
        BY <2>1, <2>2, <2>4
<1>7. sem' \in [Queue -> Nat]
    <2>1. sem' = [q \in Queue |-> Semaphore(q, in)]
        BY DEF StageTick
    <2>2. \A q \in Queue : Semaphore(q, in) \in Nat
        BY SemaphoreSteps
    <2> QED
        BY <2>1, <2>2
<1>8. CASE Answered' \ Answered = {}
    <2>1. Answered' = Answered
        BY <1>2, <1>8
    <2>2. ASSUME NEW q \in Queue
          PROVE  sem'[q] = sem[q]
        <3>1. ~SWait(q)
            <4> SUFFICES ASSUME SWait(q)
                         PROVE  FALSE
                OBVIOUS
            <4>1. Cardinality({o \in Answered' \ Answered : o.kind = "pop" /\ o.link = q}) = 1
                BY <1>5
            <4>2. PICK e : e = {o \in Answered' \ Answered : o.kind = "pop" /\ o.link = q}
                OBVIOUS
            <4>3. e = {}
                BY <1>8, <4>2
            <4>4. Cardinality(e) = 0
                BY <4>3, FS_EmptySet
            <4> QED
                BY <4>1, <4>2, <4>4
        <3>2. ~SPost(q, in)
            <4> SUFFICES ASSUME SPost(q, in)
                         PROVE  FALSE
                OBVIOUS
            <4>1. Cardinality({o \in Answered' \ Answered : o.kind = "push" /\ o.link = q}) = 1
                BY <1>5
            <4>2. PICK e : e = {o \in Answered' \ Answered : o.kind = "push" /\ o.link = q}
                OBVIOUS
            <4>3. e = {}
                BY <1>8, <4>2
            <4>4. Cardinality(e) = 0
                BY <4>3, FS_EmptySet
            <4> QED
                BY <4>1, <4>2, <4>4
        <3> QED
            BY <1>6, <3>1, <3>2
    <2>3. sem' = sem
        BY <1>7, <2>2 DEF StageTypes
    <2> QED
        BY <1>1, <2>1, <2>3
<1>9. CASE Answered' \ Answered # {}
    <2>1. \A q \in Queue : Cardinality({o \in Answered' \ Answered : o.kind = "pop" /\ o.link = q}) <= sem[q]
        <3> SUFFICES ASSUME NEW q \in Queue
                     PROVE  Cardinality({o \in Answered' \ Answered : o.kind = "pop" /\ o.link = q}) <= sem[q]
            OBVIOUS
        <3>1. Cardinality({o \in Answered' \ Answered : o.kind = "pop" /\ o.link = q}) = IF SWait(q) THEN 1 ELSE 0
            BY <1>5
        <3> QED
            BY <1>6, <3>1
    <2>2. sem' = [q \in Queue |-> sem[q]
                    - Cardinality({o \in Answered' \ Answered : o.kind = "pop" /\ o.link = q})
                    + Cardinality({o \in Answered' \ Answered : o.kind = "push" /\ o.link = q})]
        <3>1. sem' = [q \in Queue |-> sem'[q]]
            BY <1>7
        <3>2. \A q \in Queue : sem'[q] = sem[q]
                    - Cardinality({o \in Answered' \ Answered : o.kind = "pop" /\ o.link = q})
                    + Cardinality({o \in Answered' \ Answered : o.kind = "push" /\ o.link = q})
            BY <1>5, <1>6
        <3> QED
            BY <3>1, <3>2
    <2>3. Asked' = Asked
        BY <1>1
    <2> QED
        BY <1>2, <1>4, <1>9, <2>1, <2>2, <2>3, SameCount DEF Promise!Advance
<1> QED
    BY <1>8, <1>9

\* The finish comes when every call of the launch has been answered.
LEMMA FinishAnswersAll ==
    ASSUME StreamsRunnable, stream \in Streams, FetchTypes, StageTypes, Burst, DispatchedInOrder, Running, Quiet
    PROVE  CallsDone = Calls
<1>1. Received = Len(stream) /\ Len(stream) \in Nat /\ DOMAIN stream = 1..Len(stream)
    <2>1. dma.remaining = 0 /\ dma.left = 0
        BY DEF Quiet, Burst
    <2>2. Len(stream) \in Nat /\ DOMAIN stream = 1..Len(stream)
        BY LenProperties DEF FetchTypes
    <2> QED
        BY <2>1, <2>2 DEF Received
<1>2. ASSUME NEW i \in DOMAIN stream
      PROVE  \E c \in Core : i \in Range(ran[c]) /\ i \in Started(c)
    <2>1. Dispatch(stream[i]) # "unknown"
        BY DEF StreamsRunnable
    <2>2. PICK c \in Core : Dispatch(stream[i]) = c
        BY <2>1 DEF Dispatch, Core
    <2>3. i \in Range(Line(c))
        BY <1>1, <2>2, Positions
    <2>4. cur[c] = 0 /\ next[c] = 0 /\ addrQ[c] = <<>> /\ read = NoRead
        BY DEF Quiet
    <2>5. \A y : y \notin Range(After(c))
        <3>1. read.client # c
            BY <2>4 DEF NoRead, Core
        <3>2. After(c) = <<>> \o (<<>> \o Contents(<<>>, mem))
            BY <2>4, <3>1 DEF After, Coming, OneIf
        <3>3. Contents(<<>>, mem) = <<>>
            BY DEF Contents
        <3>4. After(c) = <<>>
            BY <3>2, <3>3
        <3>5. \A y : y \in Range(<<>>) <=> \E k \in DOMAIN <<>> : y = <<>>[k]
            BY DEF Range
        <3> QED
            BY <3>4, <3>5
    <2>6. i \in Range(ran[c])
        BY <2>3, <2>4, <2>5, Positions
    <2> QED
        BY <2>6, NotBehind
<1>3. ASSUME NEW o \in Calls
      PROVE  o \in CallsDone
    <2>1. PICK i \in DOMAIN stream : o \in Pops(i) \/ o \in Works(i) \/ o \in Pushes(i)
        BY CallMembers
    <2> QED
        BY <1>2, <2>1, CallMembers
<1>4. ASSUME NEW o \in CallsDone
      PROVE  o \in Calls
    <2>1. PICK c \in Core : \/ \E i \in Started(c) : o \in Pops(i)
                            \/ \E i \in Range(ran[c]) : o \in Works(i) \/ o \in Pushes(i)
        BY CallMembers
    <2> QED
        BY <2>1, NotBehind, CallMembers
<1> QED
    BY <1>3, <1>4

\* A launch that is requested asks for the calls of its stream.
LEMMA LaunchIssues ==
    ASSUME StreamsRunnable, Inv, ~launch, NEW in \in Inputs, Cycle(in), HostWrites(in)
    PROVE  Promise!Issue
<1>1. StageTypes /\ Quiet /\ ~finish
    BY DEF Inv, Phases, Running
<1>2. LaunchBit(in) /\ StageTick(in)
    BY DEF Cycle
<1>3. in.host \in Streams /\ in.host # <<>>
    BY DEF Inputs, HostWrites
<1>4. stream' = in.host /\ launch'
    BY <1>1, <1>2, <1>3 DEF LaunchBit
<1>5. /\ \A c \in Core : state'[c] = "idle"
      /\ \A q \in Queue : sem'[q] = 0
    BY <1>1, <1>2, QuietStages
<1>6. \A c \in Core : ran'[c] = <<>>
    BY DEF Cycle
<1>7. Range(<<>>) = {}
    <2>1. \A y : y \in Range(<<>>) <=> \E k \in DOMAIN <<>> : y = <<>>[k]
        BY DEF Range
    <2> QED
        BY <2>1
<1>8. Answered' = {}
    <2>1. ASSUME NEW c \in Core
          PROVE  Started(c)' = {} /\ Range(ran'[c]) = {}
        BY <1>5, <1>6, <1>7 DEF Started
    <2>2. CallsDone' = {}
        <3> SUFFICES ASSUME NEW o \in CallsDone'
                     PROVE  FALSE
            OBVIOUS
        <3>1. PICK c \in Core : o \in (UNION {Pops(i)' : i \in Started(c)'})
                                     \cup (UNION {Works(i)' \cup Pushes(i)' : i \in Range(ran'[c])})
            BY DEF CallsDone
        <3> QED
            BY <2>1, <3>1
    <2> QED
        BY <2>2 DEF Answered
<1>9. Asked = {} /\ Answered = {}
    BY DEF Asked, Answered
<1>10. Asked' # {}
    <2>1. FinishEnds(in.host) /\ in.host \in Seq(Insn)
        BY <1>3, RtlCoreAssumption DEF StreamsRunnable
    <2>2. Len(in.host) \in Nat /\ DOMAIN in.host = 1..Len(in.host)
        BY <2>1, LenProperties
    <2>3. Len(in.host) \in DOMAIN in.host /\ in.host[Len(in.host)].op = "FINISH"
        BY <2>1, <2>2 DEF FinishEnds
    <2>4. PICK n \in DOMAIN stream' : stream'[n].op = "FINISH"
        BY <1>4, <2>3
    <2>5. ~IsSync(stream'[n])
        BY <2>4 DEF IsSync
    <2>6. PICK w : w = [stage |-> Dispatch(stream'[n]), at |-> 3 * n + 1, kind |-> "work", link |-> "none"]
        OBVIOUS
    <2>7. w \in Works(n)'
        BY <2>5, <2>6 DEF Works
    <2>8. w \in Calls'
        BY <2>4, <2>7 DEF Calls
    <2> QED
        BY <1>4, <2>8 DEF Asked
<1>11. sem' = sem
    <2>1. \A q \in Queue : sem[q] = 0
        BY <1>1 DEF Quiet
    <2>2. sem' = [q \in Queue |-> sem'[q]]
        BY <1>2 DEF StageTick
    <2>3. sem = [q \in Queue |-> sem[q]]
        BY <1>1 DEF StageTypes
    <2> QED
        BY <1>5, <2>1, <2>2, <2>3
<1> QED
    BY <1>8, <1>9, <1>10, <1>11 DEF Promise!Issue

\* Nothing that a quiet core does is seen.
LEMMA QuietIsUnseen ==
    ASSUME StageTypes, Quiet, stream' = stream, NEW in, StageTick(in),
           \A c \in Core : ran'[c] = ran[c] \o OneIf(Completes(c, in), cur[c])
    PROVE  sem' = sem /\ CallsDone' = CallsDone /\ Calls' = Calls
<1>1. /\ \A c \in Core : state'[c] = "idle" /\ cur'[c] = 0 /\ ~Completes(c, in)
      /\ \A q \in Queue : sem'[q] = 0
    BY QuietStages
<1>2. sem' = sem
    <2>1. \A q \in Queue : sem[q] = 0
        BY DEF Quiet
    <2>2. sem' = [q \in Queue |-> sem'[q]]
        BY DEF StageTick
    <2>3. sem = [q \in Queue |-> sem[q]]
        BY DEF StageTypes
    <2> QED
        BY <1>1, <2>1, <2>2, <2>3
<1>3. ASSUME NEW c \in Core
      PROVE  ran'[c] = ran[c] /\ state[c] = "idle" /\ state'[c] = "idle"
    <2>1. OneIf(Completes(c, in), cur[c]) = <<>>
        BY <1>1 DEF OneIf
    <2>2. ran[c] \in Seq(Nat)
        BY DEF StageTypes
    <2>3. ran[c] \o <<>> = ran[c]
        BY <2>2, ConcatEmptySeq
    <2> QED
        BY <1>1, <2>1, <2>3 DEF Quiet
<1>4. CallsDone' = CallsDone
    <2>1. \A i : Pops(i)' = Pops(i) /\ Works(i)' = Works(i) /\ Pushes(i)' = Pushes(i)
        BY DEF Pops, Works, Pushes
    <2>2. \A c \in Core : Started(c)' = Started(c)
        BY <1>3 DEF Started
    <2> QED
        BY <1>3, <2>1, <2>2 DEF CallsDone
<1>5. Calls' = Calls
    BY DEF Calls, Pops, Works, Pushes
<1> QED
    BY <1>2, <1>4, <1>5

LEMMA CycleRefines ==
    ASSUME StreamsRunnable, Inv, RoomForPosts, [Next]_vars
    PROVE  Promise!Next \/ UNCHANGED <<Asked, Answered, sem>>
<1>1. CASE UNCHANGED vars
    <2>1. stream' = stream /\ ran' = ran /\ state' = state /\ cur' = cur /\ sem' = sem /\ launch' = launch
        BY <1>1 DEF vars, fetchVars, stageVars
    <2>2. Asked' = Asked
        BY <2>1 DEF Asked, Calls, Pops, Works, Pushes
    <2>3. Answered' = Answered
        BY <2>1 DEF Answered, CallsDone, Started, Pops, Works, Pushes
    <2> QED
        BY <2>1, <2>2, <2>3
<1>2. CASE Next
    <2>1. PICK in \in Inputs : Cycle(in)
        BY <1>2 DEF Next
    <2>2. /\ LaunchBit(in) /\ StageTick(in)
          /\ ran' = [c \in Core |-> IF HostWrites(in) THEN <<>>
                                    ELSE ran[c] \o OneIf(Completes(c, in), cur[c])]
        BY <2>1 DEF Cycle
    <2>3. /\ FetchTypes /\ StageTypes /\ Burst /\ DispatchedInOrder
          /\ ~Running => Quiet /\ ~finish
          /\ launch => stream \in Streams
          /\ finish => Quiet
        BY DEF Inv, Phases
    <2>4. CASE HostWrites(in)
        <3>1. ~launch
            BY <2>4 DEF HostWrites
        <3> QED
            BY <2>1, <2>4, <3>1, LaunchIssues DEF Promise!Next
    <2>5. ASSUME ~HostWrites(in)
          PROVE  /\ stream' = stream /\ (launch' <=> launch /\ ~finish)
                 /\ \A c \in Core : ran'[c] = ran[c] \o OneIf(Completes(c, in), cur[c])
        BY <2>2, <2>5 DEF LaunchBit
    <2>6. CASE ~HostWrites(in) /\ ~Running
        <3>1. sem' = sem /\ CallsDone' = CallsDone /\ Calls' = Calls /\ (launch' <=> launch)
            BY <2>2, <2>3, <2>5, <2>6, QuietIsUnseen
        <3> QED
            BY <3>1 DEF Asked, Answered
    <2>7. CASE ~HostWrites(in) /\ Running /\ finish
        <3>1. sem' = sem /\ ~launch'
            BY <2>2, <2>3, <2>5, <2>7, QuietIsUnseen
        <3>2. CallsDone = Calls /\ launch
            BY <2>3, <2>7, FinishAnswersAll DEF Running
        <3>3. Asked = Answered /\ Asked' = {} /\ Answered' = {}
            BY <3>1, <3>2 DEF Asked, Answered
        <3> QED
            BY <3>1, <3>3 DEF Promise!Next, Promise!Settle
    <2>8. CASE ~HostWrites(in) /\ Running /\ ~finish
        <3>1. launch'
            BY <2>5, <2>8 DEF Running
        <3> QED
            BY <2>2, <2>3, <2>5, <2>8, <3>1, CycleAdvances DEF Promise!Next
    <2> QED
        BY <2>4, <2>6, <2>7, <2>8
<1> QED
    BY <1>1, <1>2

\* The RTL is the token pipeline that the API promises: every stage does the
\* pops, the work and the pushes of its instructions in stream order, finds the
\* tokens it pops, and the finish comes when every stage has done all.  The one
\* condition is that no semaphore is posted when it is full.
THEOREM RtlIsTokenPipeline ==
    StreamsRunnable => (Spec /\ []RoomForPosts => RefinesTokenPipeline)
<1> SUFFICES ASSUME StreamsRunnable
             PROVE  Spec /\ []RoomForPosts => RefinesTokenPipeline
    OBVIOUS
<1>1. Init => Promise!Init
    <2> SUFFICES ASSUME Init
                 PROVE  Promise!Init
        OBVIOUS
    <2>1. Asked = {} /\ Answered = {} /\ sem = [q \in Queue |-> 0]
        BY DEF Init, Asked, Answered
    <2> QED
        BY <2>1 DEF Promise!Init
<1>2. Inv /\ RoomForPosts /\ [Next]_vars => [Promise!Next]_(Promise!specVars)
    BY CycleRefines DEF Promise!specVars
<1>3. Spec => []Inv
    BY InvHolds
<1> QED
    BY <1>1, <1>2, <1>3, PTL DEF Spec, RefinesTokenPipeline, Promise!Spec

\* A stream with no more pushes of a queue than its semaphore can count never
\* fills one.
THEOREM FewPushesLeaveRoom ==
    StreamsRunnable /\ FewPushes => (Spec => []RoomForPosts)
<1> SUFFICES ASSUME StreamsRunnable, FewPushes
             PROVE  Spec => []RoomForPosts
    OBVIOUS
<1>1. Inv => RoomForPosts
    <2> SUFFICES ASSUME Inv, NEW c \in Core, state[c] # "idle", NEW q \in Posts(stream[cur[c]])
                 PROVE  sem[q] # SemMax
        BY DEF RoomForPosts
    <2>1. FetchTypes /\ StageTypes /\ Burst /\ DispatchedInOrder /\ Tokens
        BY DEF Inv
    <2>2. Running /\ stream \in Streams
        <3>1. Running
            BY DEF Inv, Phases, Quiet
        <3> QED
            BY <3>1 DEF Inv, Phases, Running
    <2>3. cur[c] # 0
        BY <2>1 DEF StageTypes
    <2>4. cur[c] \in DOMAIN stream /\ Dispatch(stream[cur[c]]) = c /\ cur[c] \notin Range(ran[c])
        BY <2>1, <2>2, <2>3, NotBehind
    <2>5. q \in Queue
        BY <2>4, QueueStages
    <2>6. cur[c] \in Pushers(stream, q)
        BY <2>1, <2>2, <2>4, Routed DEF Pushers
    <2>7. cur[c] \notin DonePushes(q)
        <3> SUFFICES ASSUME NEW o \in Core, cur[c] \in Range(ran[o])
                     PROVE  FALSE
            BY DEF DonePushes
        <3>1. Dispatch(stream[cur[c]]) = o
            BY <2>1, <2>2, NotBehind
        <3> QED
            BY <2>4, <3>1
    <2>8. PICK d : d = DonePushes(q)
        OBVIOUS
    <2>9. PICK p : p = Pushers(stream, q)
        OBVIOUS
    <2>10. d \subseteq p /\ IsFiniteSet(p) /\ Cardinality(d) \in Nat /\ Cardinality(StartedPops(q)) \in Nat
        BY <2>1, <2>8, <2>9, TokenSets
    <2>11. Cardinality(d) < Cardinality(p)
        <3>1. Cardinality(d) <= Cardinality(p) /\ Cardinality(p) \in Nat /\ (Cardinality(p) = Cardinality(d) => p = d)
            BY <2>10, FS_Subset, FS_CardinalityType
        <3>2. p # d
            BY <2>6, <2>7, <2>8, <2>9
        <3> QED
            BY <2>10, <3>1, <3>2
    <2>12. Cardinality(p) <= SemMax
        BY <2>2, <2>5, <2>9 DEF FewPushes
    <2>13. sem[q] + Cardinality(StartedPops(q)) <= Cardinality(d) /\ sem[q] \in Nat
        BY <2>1, <2>2, <2>5, <2>8 DEF Tokens, StageTypes
    <2>14. Cardinality(p) \in Nat /\ SemMax \in Nat
        BY <2>10, FS_CardinalityType, RtlCoreAssumption
    <2> QED
        BY <2>10, <2>11, <2>12, <2>13, <2>14
<1> QED
    BY InvHolds, <1>1, PTL
================================================================================
