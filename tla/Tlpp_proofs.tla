------------------------------ MODULE Tlpp_proofs ------------------------------
(***************************************************************************)
(* Theorems about the task-level pipeline simulator, for every set of      *)
(* streams.                                                                *)
(***************************************************************************)
EXTENDS Tlpp, WellFoundedInduction, TLAPS, FiniteSetTheorems, SequenceTheorems

\* A set of natural numbers has a least element: the way to an induction.
LEMMA LeastNumber ==
    ASSUME NEW S \in SUBSET Nat, S # {}
    PROVE  \E m \in S : \A j \in S : m <= j
<1> DEFINE R == {p \in Nat \X Nat : p[1] < p[2]}
<1>1. IsWellFoundedOn(R, Nat)
    BY NatLessThanWellFounded DEF OpToRel
<1>2. PICK m \in S : \A j \in S : <<j, m>> \notin R
    BY <1>1, WFMin
<1>3. \A j \in S : ~(j < m)
    BY <1>2
<1> QED
    BY <1>3

(***************************************************************************)
(* A core's front: the least position of a non-empty queue.                *)
(***************************************************************************)
\* The positions of a sequence of instructions are natural numbers and its
\* elements are instructions.
LEMMA Positions ==
    ASSUME NEW s \in Seq(Insn)
    PROVE  /\ Len(s) \in Nat
           /\ DOMAIN s = 1..Len(s)
           /\ DOMAIN s \subseteq Nat
           /\ IsFiniteSet(DOMAIN s)
           /\ \A i \in DOMAIN s : s[i] \in Insn
<1>1. Len(s) \in Nat /\ DOMAIN s = 1..Len(s)
  BY LenProperties
<1>2. IsFiniteSet(1..Len(s))
  BY <1>1, FS_Interval
<1>3. \A i \in DOMAIN s : s[i] \in Insn
  BY <1>1, ElementOfSeq
<1>4. QED
  BY <1>1, <1>2, <1>3

LEMMA FrontIsLeast ==
    ASSUME TypeOK, NEW c \in Core, insnq[c] # {}
    PROVE  /\ Front(c) \in insnq[c]
           /\ Front(c) \in DOMAIN stream
           /\ \A j \in insnq[c] : Front(c) <= j
<1>1. insnq[c] \subseteq DOMAIN stream /\ insnq[c] \in SUBSET Nat
  BY Positions DEF TypeOK
<1>2. \E m \in insnq[c] : \A j \in insnq[c] : m <= j
  BY <1>1, LeastNumber
<1>3. QED
  BY <1>1, <1>2 DEF Front

\* Where an instruction runs and which queues it touches.
LEMMA InsnQueues ==
    ASSUME NEW insn \in Insn
    PROVE  /\ GetCoreType(insn) \in Core
           /\ PopQueues(insn) \subseteq Queue
           /\ PushQueues(insn) \subseteq Queue
           /\ Wakes(insn) \in Seq(Core)
<1>1. GetCoreType(insn) \in Core
  BY DEF GetCoreType, Core
<1>2. PopQueues(insn) \subseteq Queue /\ PushQueues(insn) \subseteq Queue
  BY DEF PopQueues, PushQueues
<1>3. /\ <<>> \in Seq(Core) /\ <<"LOAD">> \in Seq(Core)
      /\ <<"GEMM">> \in Seq(Core) /\ <<"STORE">> \in Seq(Core)
  BY DEF Core
<1>4. Wakes(insn) \in Seq(Core)
  BY <1>3, ConcatProperties DEF Wakes
<1>5. QED
  BY <1>1, <1>2, <1>4

--------------------------------------------------------------------------------
(* Type correctness. *)

\* Between two runs no instruction is queued and no core is due.
Idle == ~running => insnq = NoInsns /\ agenda = <<>>

LEMMA ExecuteTokens ==
    ASSUME TypeOK, NEW insn \in Insn, Ready(insn)
    PROVE  TokAfter(insn) \in [Queue -> Nat]
BY InsnQueues DEF TypeOK, Ready, TokAfter

LEMMA TypeInit == Init => TypeOK /\ Idle
<1>1. <<>> \in Seq(Insn) /\ <<>> \in Seq(Core)
  BY EmptySeq
<1>2. NoInsns \in [Core -> SUBSET (DOMAIN stream)]
  BY DEF NoInsns
<1>3. Init => tok \in [Queue -> Nat]
  BY DEF Init
<1>4. QED
  BY <1>1, <1>2, <1>3 DEF Init, TypeOK, Idle

LEMMA TypeStep == TypeOK /\ Idle /\ [Next]_vars => TypeOK' /\ Idle'
<1> SUFFICES ASSUME TypeOK, Idle, [Next]_vars
             PROVE  TypeOK' /\ Idle'
  OBVIOUS
<1>r. \A r \in Rotations : r \in Seq(Core)
  <2>1. "GEMM" \in Core /\ "LOAD" \in Core /\ "STORE" \in Core
    BY DEF Core
  <2>2. \A a, b, d \in Core : <<a, b, d>> \in Seq(Core)
    OBVIOUS
  <2>3. QED
    BY <2>1, <2>2 DEF Rotations
<1>1. ASSUME NEW s \in Streams, Run(s)
      PROVE  TypeOK' /\ Idle'
  <2>1. s \in Seq(Insn)
    BY StreamsAssumption
  <2>2. insnq' \in [Core -> SUBSET (DOMAIN stream')]
    BY <1>1 DEF Run, Idle, NoInsns
  <2>3. QED
    BY <1>1, <1>r, <2>1, <2>2 DEF Run, TypeOK, Idle
<1>2. ASSUME Execute
      PROVE  TypeOK' /\ Idle'
  <2> DEFINE c == Head(agenda)
             insn == stream[Front(c)]
  <2>1. c \in Core
    BY <1>2, HeadTailProperties DEF Execute, TypeOK
  <2>2. insn \in Insn
    BY <1>2, <2>1, FrontIsLeast, Positions DEF Execute, TypeOK
  <2>3. tok' \in [Queue -> Nat]
    BY <1>2, <2>2, ExecuteTokens DEF Execute
  <2>4. event' \in Seq(Core)
    BY <1>2, <2>2, InsnQueues, ConcatProperties DEF Execute, TypeOK
  <2>5. insnq' \in [Core -> SUBSET (DOMAIN stream')]
    BY <1>2, <2>1 DEF Execute, TypeOK
  <2>6. QED
    BY <1>2, <2>3, <2>4, <2>5 DEF Execute, TypeOK, Idle
<1>3. ASSUME Yield
      PROVE  TypeOK' /\ Idle'
  BY <1>3, HeadTailProperties DEF Yield, TypeOK, Idle
<1>4. ASSUME Wake
      PROVE  TypeOK' /\ Idle'
  <2>1. Head(event) \in Core /\ Tail(event) \in Seq(Core)
    BY <1>4, HeadTailProperties DEF Wake, TypeOK
  <2>2. QED
    BY <1>4, <2>1 DEF Wake, TypeOK, Idle
<1>5. ASSUME Rescan
      PROVE  TypeOK' /\ Idle'
  BY <1>5, <1>r DEF Rescan, TypeOK, Idle
<1>6. ASSUME Return
      PROVE  TypeOK' /\ Idle'
  BY <1>6 DEF Return, TypeOK, Idle, NoInsns
<1>7. ASSUME UNCHANGED vars
      PROVE  TypeOK' /\ Idle'
  BY <1>7 DEF vars, TypeOK, Idle
<1>8. QED
  BY <1>1, <1>2, <1>3, <1>4, <1>5, <1>6, <1>7 DEF Next, Step

\* Every queue of a core holds positions of the stream, every token count is
\* a natural number: DependencyProcess never takes from an empty queue.
THEOREM TypeCorrect == Spec => []TypeOK
<1>1. Init => TypeOK /\ Idle
  BY TypeInit
<1>2. TypeOK /\ Idle /\ [Next]_vars => TypeOK' /\ Idle'
  BY TypeStep
<1>3. QED
  BY <1>1, <1>2, PTL DEF Spec

--------------------------------------------------------------------------------
(* Order. *)

\* What CoreRun does to the positions still queued: the least one of the core
\* leaves, every earlier one of that core has left before.
LEMMA ExecuteRemovesFront ==
    ASSUME TypeOK, InOrder, Execute
    PROVE  LET c == Head(agenda)  i == Front(c) IN
           /\ c \in Core /\ i \in DOMAIN stream /\ stream[i] \in Insn
           /\ GetCoreType(stream[i]) = c
           /\ i \in insnq[c] /\ i \in Pending
           /\ \A j \in Pending : GetCoreType(stream[j]) = c => i <= j
           /\ Pending' = Pending \ {i}
           /\ stream' = stream /\ running /\ running'
<1> DEFINE c == Head(agenda)
           i == Front(c)
<1>1. c \in Core
  BY HeadTailProperties DEF Execute, TypeOK
<1>2. i \in insnq[c] /\ i \in DOMAIN stream /\ \A j \in insnq[c] : i <= j
  BY <1>1, FrontIsLeast DEF Execute
<1>3. stream[i] \in Insn
  BY <1>2, Positions DEF TypeOK
<1>4. running /\ running' /\ stream' = stream
  BY DEF Execute
<1>5. \A d \in Core : \A j \in insnq[d] : GetCoreType(stream[j]) = d
  BY <1>4, Positions DEF InOrder, TypeOK
<1>6. i \in Pending
  BY <1>1, <1>2 DEF Pending
<1>7. \A j \in Pending : GetCoreType(stream[j]) = c => i <= j
  BY <1>2, <1>5 DEF Pending
<1>8. \A d \in Core : insnq'[d] = insnq[d] \ {i}
  BY <1>1, <1>2, <1>5 DEF Execute, TypeOK
<1>9. Pending' = Pending \ {i}
  BY <1>8 DEF Pending
<1>10. QED
  BY <1>1, <1>2, <1>3, <1>4, <1>5, <1>6, <1>7, <1>9

LEMMA OrderStep == TypeOK /\ Idle /\ InOrder /\ [Next]_vars => InOrder'
<1> SUFFICES ASSUME TypeOK, Idle, InOrder, [Next]_vars
             PROVE  InOrder'
  OBVIOUS
<1>1. ASSUME NEW s \in Streams, Run(s)
      PROVE  InOrder'
  <2>1. stream' = s /\ \A d \in Core : insnq'[d] = {i \in DOMAIN s : GetCoreType(s[i]) = d}
    BY <1>1 DEF Run, Idle, NoInsns
  <2>2. QED
    BY <2>1 DEF InOrder
<1>2. ASSUME Execute
      PROVE  InOrder'
  <2> DEFINE c == Head(agenda)
             i == Front(c)
  <2>1. c \in Core /\ i \in insnq[c] /\ i \in DOMAIN stream /\ stream' = stream /\ running
    BY <1>2, ExecuteRemovesFront
  <2>2. \A d \in Core : insnq'[d] = IF d = c THEN insnq[c] \ {i} ELSE insnq[d]
    BY <1>2, <2>1 DEF Execute, TypeOK
  <2>3. \A k \in insnq[c] : i <= k
    BY <1>2, <2>1, FrontIsLeast
  <2>4. DOMAIN stream \subseteq Nat
    BY Positions DEF TypeOK
  <2>5. SUFFICES ASSUME NEW d \in Core, NEW k \in insnq'[d], NEW j \in DOMAIN stream
                 PROVE  /\ GetCoreType(stream[k]) = d
                        /\ GetCoreType(stream[j]) = d /\ j > k => j \in insnq'[d]
    BY <2>1 DEF InOrder
  <2>6. k \in insnq[d] /\ k \in Nat /\ j \in Nat /\ i \in Nat
    BY <2>1, <2>2, <2>4 DEF TypeOK
  <2>7. GetCoreType(stream[k]) = d /\ (GetCoreType(stream[j]) = d /\ j > k => j \in insnq[d])
    BY <2>1, <2>6 DEF InOrder
  <2>8. d = c => i < k
    BY <2>2, <2>3, <2>6
  <2>9. QED
    BY <2>2, <2>6, <2>7, <2>8
<1>3. ASSUME Yield \/ Wake \/ Rescan \/ UNCHANGED vars
      PROVE  InOrder'
  BY <1>3 DEF Yield, Wake, Rescan, vars, InOrder
<1>4. ASSUME Return
      PROVE  InOrder'
  BY <1>4 DEF Return, InOrder
<1>5. QED
  BY <1>1, <1>2, <1>3, <1>4 DEF Next, Step

\* Whatever the streams, a core never executes an instruction before one that
\* precedes it in the stream and runs on the same core.
THEOREM OrderKept == Spec => []InOrder
<1>1. Init => TypeOK /\ Idle /\ InOrder
  BY TypeInit DEF Init, InOrder
<1>2. TypeOK /\ Idle /\ InOrder /\ [Next]_vars => TypeOK' /\ Idle' /\ InOrder'
  BY TypeStep, OrderStep
<1>3. QED
  BY <1>1, <1>2, PTL DEF Spec

--------------------------------------------------------------------------------
(* Tokens.  From here on the streams are well formed. *)

\* The core that pushes to a queue and the core that pops it.
Source == [l2g |-> "LOAD", g2l |-> "GEMM", s2g |-> "STORE", g2s |-> "GEMM"]
Target == [l2g |-> "GEMM", g2l |-> "LOAD", s2g |-> "GEMM", g2s |-> "STORE"]

LEMMA QueueEnds ==
    ASSUME NEW insn \in Insn, NEW q \in Queue
    PROVE  /\ q \in PushQueues(insn) => GetCoreType(insn) = Source[q]
           /\ q \in PopQueues(insn)  => GetCoreType(insn) = Target[q]
<1>1. GetCoreType(insn) \in Core
  BY InsnQueues
<1>2. \A c \in Core : /\ q = PushPrevQueue[c] \/ q = PushNextQueue[c] => c = Source[q]
                      /\ q = PopPrevQueue[c] \/ q = PopNextQueue[c] => c = Target[q]
  BY DEF Core, Queue, Source, Target, PushPrevQueue, PushNextQueue, PopPrevQueue, PopNextQueue
<1>3. QED
  BY <1>1, <1>2 DEF PushQueues, PopQueues

\* Removing one position from the pending ones adds it to the executed ones
\* of a set, if it is in it.
LEMMA OneMoreExecuted ==
    ASSUME NEW S, IsFiniteSet(S), NEW P, NEW i \in P
    PROVE  /\ Cardinality(S \ P) \in Nat
           /\ Cardinality(S \ (P \ {i})) = Cardinality(S \ P) + (IF i \in S THEN 1 ELSE 0)
<1>1. IsFiniteSet(S \ P)
  BY FS_Difference
<1>2. Cardinality(S \ P) \in Nat
  BY <1>1, FS_CardinalityType
<1>3. CASE i \in S
  <2>1. S \ (P \ {i}) = (S \ P) \cup {i} /\ i \notin S \ P
    BY <1>3
  <2>2. QED
    BY <1>1, <1>2, <1>3, <2>1, FS_AddElement
<1>4. CASE i \notin S
  <2>1. S \ (P \ {i}) = S \ P
    BY <1>4
  <2>2. QED
    BY <1>2, <1>4, <2>1
<1>5. QED
  BY <1>3, <1>4

LEMMA TouchersFinite ==
    ASSUME NEW s \in Seq(Insn), NEW q \in Queue
    PROVE  /\ Pushers(s, q) \subseteq DOMAIN s /\ IsFiniteSet(Pushers(s, q))
           /\ Poppers(s, q) \subseteq DOMAIN s /\ IsFiniteSet(Poppers(s, q))
<1>1. Pushers(s, q) \subseteq DOMAIN s /\ Poppers(s, q) \subseteq DOMAIN s
  BY DEF Pushers, Poppers
<1>2. QED
  BY <1>1, Positions, FS_Subset

\* The tokens and the order of pops and pushes when the queues held b tokens
\* before the stream; a well-formed stream needs none.
NoTokens == [q \in Queue |-> 0]
AccountedFrom(b) ==
    \A q \in Queue : tok[q] + Cardinality(Poppers(stream, q) \ Pending)
                            = b[q] + Cardinality(Pushers(stream, q) \ Pending)
OrderedFrom(s, b) ==
    \A q \in Queue : \A i \in Poppers(s, q) :
        b[q] + Cardinality(Before(Pushers(s, q), i)) > Cardinality(Before(Poppers(s, q), i))

LEMMA FromNothing ==
    /\ NoTokens \in [Queue -> Nat]
    /\ TypeOK => (TokenAccounting <=> AccountedFrom(NoTokens))
    /\ TypeOK' => (TokenAccounting' <=> AccountedFrom(NoTokens)')
    /\ \A s \in Seq(Insn) : PopsFollowPushes(s) => OrderedFrom(s, NoTokens)
<1>1. \A q \in Queue : NoTokens[q] = 0
  BY DEF NoTokens
<1>2. ASSUME NEW s \in Seq(Insn), NEW q \in Queue, NEW P, NEW i
      PROVE  /\ NoTokens[q] + Cardinality(Pushers(s, q) \ P) = Cardinality(Pushers(s, q) \ P)
             /\ NoTokens[q] + Cardinality(Before(Pushers(s, q), i)) = Cardinality(Before(Pushers(s, q), i))
  <2>1. IsFiniteSet(Pushers(s, q)) /\ Before(Pushers(s, q), i) \subseteq Pushers(s, q)
    BY TouchersFinite DEF Before
  <2>2. /\ Cardinality(Pushers(s, q) \ P) \in Nat
        /\ Cardinality(Before(Pushers(s, q), i)) \in Nat
    BY <2>1, FS_Subset, FS_Difference, FS_CardinalityType
  <2>3. QED
    BY <1>1, <2>2
<1>3. ASSUME TypeOK
      PROVE  TokenAccounting <=> AccountedFrom(NoTokens)
  <2>1. \A q \in Queue : NoTokens[q] + Cardinality(Pushers(stream, q) \ Pending)
                             = Cardinality(Pushers(stream, q) \ Pending)
    BY <1>2, <1>3 DEF TypeOK
  <2>2. QED
    BY <2>1 DEF TokenAccounting, AccountedFrom
<1>4. ASSUME TypeOK'
      PROVE  TokenAccounting' <=> AccountedFrom(NoTokens)'
  <2>1. \A q \in Queue : NoTokens[q] + Cardinality(Pushers(stream', q) \ Pending')
                             = Cardinality(Pushers(stream', q) \ Pending')
    BY <1>2, <1>4 DEF TypeOK
  <2>2. QED
    BY <2>1 DEF TokenAccounting, AccountedFrom
<1>5. \A s \in Seq(Insn) : PopsFollowPushes(s) => OrderedFrom(s, NoTokens)
  BY <1>2, TouchersFinite DEF PopsFollowPushes, OrderedFrom
<1>6. QED
  BY <1>3, <1>4, <1>5 DEF NoTokens

\* The facts that make TokenAccounting inductive: the stream being run is
\* well formed, no token is there when none is, and done_ says whether the
\* FINISH has left its queue.
RunsWellFormed == running => WellFormed(stream)
NoTokenBetweenRuns == ~running => \A q \in Queue : tok[q] = 0
DoneMeansFinished == running => (done <=> Len(stream) \notin Pending)

Inv == /\ TypeOK /\ Idle /\ InOrder
       /\ TokenAccounting /\ RunsWellFormed /\ NoTokenBetweenRuns /\ DoneMeansFinished

\* The last instruction is the FINISH; it runs on the GEMM core.
LEMMA FinishIsLast ==
    ASSUME NEW s \in Seq(Insn), WellFormed(s)
    PROVE  /\ Len(s) \in DOMAIN s
           /\ GetCoreType(s[Len(s)]) = "GEMM"
           /\ \A i \in DOMAIN s : s[i].op = "FINISH" <=> i = Len(s)
           /\ \A i \in DOMAIN s : i <= Len(s)
<1>1. Len(s) \in Nat /\ DOMAIN s = 1..Len(s) /\ Len(s) > 0
  BY Positions DEF WellFormed, FinishEnds
<1>2. Len(s) \in DOMAIN s /\ \A i \in DOMAIN s : i <= Len(s)
  BY <1>1
<1>3. \A i \in DOMAIN s : s[i].op = "FINISH" <=> i = Len(s)
  BY DEF WellFormed, FinishEnds
<1>4. GetCoreType(s[Len(s)]) = "GEMM"
  BY <1>2, <1>3 DEF GetCoreType
<1>5. QED
  BY <1>2, <1>3, <1>4

\* Once the FINISH has run, so has everything else.  The GEMM core has run all
\* its instructions, so every token of l2g and s2g has been popped, so
\* the LOAD and STORE cores have run every instruction that pushes one, and
\* after each of their instructions there is one that does.
LEMMA FinishedMeansAll ==
    ASSUME TypeOK, InOrder, TokenAccounting, RunsWellFormed
    PROVE  FinishLast
<1> SUFFICES ASSUME running, Len(stream) \notin Pending
             PROVE  Pending = {}
  BY DEF FinishLast
<1> DEFINE n == Len(stream)
<1>1. WellFormed(stream) /\ stream \in Seq(Insn)
  BY DEF RunsWellFormed, TypeOK
<1>2. /\ n \in DOMAIN stream /\ GetCoreType(stream[n]) = "GEMM"
      /\ \A i \in DOMAIN stream : i <= n
  BY <1>1, FinishIsLast
<1>3. DOMAIN stream \subseteq Nat /\ Pending \subseteq DOMAIN stream
  BY <1>1, Positions DEF TypeOK, Pending
<1>4. \A i \in Pending : i \in insnq[GetCoreType(stream[i])] /\ GetCoreType(stream[i]) \in Core
  BY DEF Pending, InOrder, TypeOK
<1>5. \A i \in Pending, j \in DOMAIN stream :
          GetCoreType(stream[j]) = GetCoreType(stream[i]) /\ j > i => j \in Pending
  BY <1>4 DEF Pending, InOrder
<1>6. \A i \in Pending : GetCoreType(stream[i]) # "GEMM"
  <2>1. SUFFICES ASSUME NEW i \in Pending, GetCoreType(stream[i]) = "GEMM"
                 PROVE  FALSE
    OBVIOUS
  <2>2. i <= n /\ i # n /\ i \in Nat /\ n \in Nat
    BY <1>2, <1>3
  <2>3. n \in Pending
    BY <1>2, <1>5, <2>1, <2>2
  <2>4. QED
    BY <2>3
<1>7. ASSUME NEW q \in Queue, Target[q] = "GEMM"
      PROVE  Pushers(stream, q) \cap Pending = {}
  <2> DEFINE S == Pushers(stream, q)
             T == Poppers(stream, q)
  <2>1. IsFiniteSet(S) /\ IsFiniteSet(T) /\ T \subseteq DOMAIN stream
    BY <1>1, TouchersFinite
  <2>2. T \ Pending = T
    BY <1>1, <1>6, <1>7, QueueEnds, Positions DEF Poppers
  <2>3. /\ tok[q] + Cardinality(T) = Cardinality(S \ Pending)
        /\ Cardinality(S) = Cardinality(T)
        /\ tok[q] \in Nat
    BY <1>1, <2>2 DEF TokenAccounting, WellFormed, TokensBalance, TypeOK
  <2>4. S \ Pending \in SUBSET S /\ Cardinality(S) \in Nat
    BY <2>1, FS_CardinalityType
  <2>5. /\ Cardinality(S \ Pending) <= Cardinality(S)
        /\ Cardinality(S) = Cardinality(S \ Pending) => S = S \ Pending
        /\ Cardinality(S \ Pending) \in Nat
    BY <2>1, <2>4, FS_Subset, FS_CardinalityType
  <2>6. S = S \ Pending
    BY <2>3, <2>4, <2>5
  <2>7. QED
    BY <2>6
<1>8. \A i \in Pending : \A q \in Queue :
          Target[q] = "GEMM" => ~ \E j \in Pushers(stream, q) : j >= i /\ GetCoreType(stream[j]) = GetCoreType(stream[i])
  <2>1. SUFFICES ASSUME NEW i \in Pending, NEW q \in Queue, Target[q] = "GEMM",
                        NEW j \in Pushers(stream, q), j >= i,
                        GetCoreType(stream[j]) = GetCoreType(stream[i])
                 PROVE  FALSE
    OBVIOUS
  <2>2. j \in DOMAIN stream /\ j \in Nat /\ i \in Nat
    BY <1>3 DEF Pushers
  <2>3. j \in Pending
    BY <1>5, <2>1, <2>2
  <2>4. QED
    BY <1>7, <2>1, <2>3
<1>9. SUFFICES ASSUME NEW i \in Pending
               PROVE  FALSE
  OBVIOUS
<1>10. i \in DOMAIN stream /\ GetCoreType(stream[i]) \in {"LOAD", "STORE"}
  BY <1>3, <1>4, <1>6 DEF Core
<1>11. /\ "l2g" \in Queue /\ "s2g" \in Queue
       /\ Target["l2g"] = "GEMM" /\ Target["s2g"] = "GEMM"
       /\ Source["l2g"] = "LOAD" /\ Source["s2g"] = "STORE"
  BY DEF Queue, Target, Source
<1>12. \A q \in Queue : \A j \in Pushers(stream, q) : GetCoreType(stream[j]) = Source[q]
  BY <1>1, QueueEnds, Positions DEF Pushers
<1>13. CASE GetCoreType(stream[i]) = "LOAD"
  <2>1. PICK j \in Pushers(stream, "l2g") : j >= i
    BY <1>1, <1>10, <1>13 DEF WellFormed, WorkIsAnnounced
  <2>2. QED
    BY <1>8, <1>11, <1>12, <1>13, <2>1
<1>14. CASE GetCoreType(stream[i]) = "STORE"
  <2>1. PICK j \in Pushers(stream, "s2g") : j >= i
    BY <1>1, <1>10, <1>14 DEF WellFormed, WorkIsAnnounced
  <2>2. QED
    BY <1>8, <1>11, <1>12, <1>14, <2>1
<1>15. QED
  BY <1>10, <1>13, <1>14

LEMMA CountStep ==
    ASSUME TypeOK, Idle, InOrder, Execute, NEW b \in [Queue -> Nat], AccountedFrom(b)
    PROVE  AccountedFrom(b)'
<1> DEFINE c == Head(agenda)
           i == Front(c)
<1>1. /\ c \in Core /\ i \in DOMAIN stream /\ stream[i] \in Insn /\ i \in Pending
      /\ Pending' = Pending \ {i} /\ stream' = stream
  BY ExecuteRemovesFront
<1>2. tok' = TokAfter(stream[i]) /\ Ready(stream[i])
  BY DEF Execute
<1>3. SUFFICES ASSUME NEW q \in Queue
               PROVE  tok'[q] + Cardinality(Poppers(stream, q) \ Pending')
                             = b[q] + Cardinality(Pushers(stream, q) \ Pending')
  BY <1>1 DEF AccountedFrom
<1> DEFINE S == Pushers(stream, q)
           T == Poppers(stream, q)
<1>4. IsFiniteSet(S) /\ IsFiniteSet(T)
  BY TouchersFinite DEF TypeOK
<1>5. /\ Cardinality(S \ Pending) \in Nat /\ Cardinality(T \ Pending) \in Nat
      /\ Cardinality(S \ Pending') = Cardinality(S \ Pending) + (IF i \in S THEN 1 ELSE 0)
      /\ Cardinality(T \ Pending') = Cardinality(T \ Pending) + (IF i \in T THEN 1 ELSE 0)
  BY <1>1, <1>4, OneMoreExecuted
<1>6. /\ tok[q] + Cardinality(T \ Pending) = b[q] + Cardinality(S \ Pending)
      /\ tok[q] \in Nat /\ b[q] \in Nat
  BY DEF AccountedFrom, TypeOK
<1>7. (i \in S <=> q \in PushQueues(stream[i])) /\ (i \in T <=> q \in PopQueues(stream[i]))
  BY <1>1 DEF Pushers, Poppers
<1>8. tok'[q] = tok[q] - (IF i \in T THEN 1 ELSE 0) + (IF i \in S THEN 1 ELSE 0)
  BY <1>2, <1>6, <1>7 DEF TokAfter
<1>9. QED
  BY <1>5, <1>6, <1>8

LEMMA RunPending ==
    ASSUME Idle, NEW s \in Streams, Run(s)
    PROVE  Pending' = DOMAIN s
<1>1. s \in Seq(Insn) /\ ~running
  BY StreamsAssumption DEF Run
<1>2. \A c \in Core : insnq'[c] = {i \in DOMAIN s : GetCoreType(s[i]) = c}
  BY <1>1 DEF Run, Idle, NoInsns
<1>3. \A i \in DOMAIN s : GetCoreType(s[i]) \in Core
  BY <1>1, Positions, InsnQueues
<1>4. \A i : i \in Pending' <=> \E c \in Core : i \in insnq'[c]
  BY DEF Pending
<1>5. \A i : i \in Pending' <=> i \in DOMAIN s
  BY <1>2, <1>3, <1>4
<1>6. QED
  BY <1>5

\* The tokens at the start of a run are those the queues hold.
LEMMA CountRun ==
    ASSUME Idle, NEW s \in Streams, Run(s), NEW b \in [Queue -> Nat], tok = b
    PROVE  AccountedFrom(b)'
<1>1. stream' = s /\ tok' = b
  BY DEF Run
<1>2. Pending' = DOMAIN s
  BY RunPending
<1>3. \A q \in Queue : Poppers(s, q) \ DOMAIN s = {} /\ Pushers(s, q) \ DOMAIN s = {}
  BY DEF Poppers, Pushers
<1>4. \A q \in Queue : b[q] + Cardinality(Poppers(s, q) \ DOMAIN s)
                             = b[q] + Cardinality(Pushers(s, q) \ DOMAIN s)
  BY <1>3
<1>5. QED
  BY <1>1, <1>2, <1>4 DEF AccountedFrom

LEMMA InvInit == Init => Inv
<1> SUFFICES ASSUME Init
             PROVE  Inv
  OBVIOUS
<1>1. TypeOK /\ Idle
  BY TypeInit
<1>2. \A q \in Queue : Pushers(stream, q) = {} /\ Poppers(stream, q) = {}
  BY EmptySeq DEF Init, Pushers, Poppers
<1>3. TokenAccounting
  <2>1. \A q \in Queue : tok[q] = 0
    BY DEF Init
  <2>2. Cardinality({}) = 0 /\ \A P : {} \ P = {}
    BY FS_EmptySet
  <2>3. QED
    BY <1>2, <2>1, <2>2 DEF TokenAccounting
<1>4. InOrder /\ RunsWellFormed /\ NoTokenBetweenRuns /\ DoneMeansFinished
  BY DEF Init, InOrder, RunsWellFormed, NoTokenBetweenRuns, DoneMeansFinished
<1>5. QED
  BY <1>1, <1>3, <1>4 DEF Inv

\* A well-formed stream is run, of whatever streams there are.
LEMMA InvRun ==
    ASSUME Inv, NEW s \in Streams, WellFormed(s), Run(s)
    PROVE  Inv'
<1>t. TypeOK' /\ Idle' /\ InOrder'
  BY TypeStep, OrderStep DEF Inv, Next
<1>1. s \in Seq(Insn) /\ WellFormed(s) /\ stream' = s /\ ~running /\ tok' = tok
  BY StreamsAssumption DEF Run
<1>2. Pending' = DOMAIN s
  BY RunPending DEF Inv
<1>3. TokenAccounting'
  <2>1. tok = NoTokens
    BY <1>1 DEF Inv, TypeOK, NoTokenBetweenRuns, NoTokens
  <2>2. QED
    BY <1>t, <2>1, FromNothing, CountRun DEF Inv
<1>4. RunsWellFormed' /\ NoTokenBetweenRuns'
  BY <1>1 DEF Run, RunsWellFormed, NoTokenBetweenRuns
<1>5. DoneMeansFinished'
  BY <1>1, <1>2, FinishIsLast DEF Run, DoneMeansFinished
<1>6. QED
  BY <1>t, <1>3, <1>4, <1>5 DEF Inv

LEMMA InvWithin == Inv /\ [Step]_vars => Inv'
<1> SUFFICES ASSUME Inv, [Step]_vars
             PROVE  Inv'
  OBVIOUS
<1>t. TypeOK' /\ Idle' /\ InOrder'
  BY TypeStep, OrderStep DEF Inv, Next
<1>1. ASSUME Execute
      PROVE  Inv'
  <2> DEFINE c == Head(agenda)
             i == Front(c)
  <2>1. /\ i \in DOMAIN stream /\ i \in Pending /\ Pending' = Pending \ {i}
        /\ stream' = stream /\ running /\ running'
    BY <1>1, ExecuteRemovesFront DEF Inv
  <2>2. WellFormed(stream) /\ stream \in Seq(Insn)
    BY <2>1 DEF Inv, RunsWellFormed, TypeOK
  <2>3. TokenAccounting'
    BY <1>1, <1>t, FromNothing, CountStep DEF Inv
  <2>4. RunsWellFormed' /\ NoTokenBetweenRuns'
    BY <2>1, <2>2 DEF RunsWellFormed, NoTokenBetweenRuns
  <2>5. done' <=> i = Len(stream)
    BY <1>1, <2>1, <2>2, FinishIsLast DEF Execute
  <2>6. Len(stream) \in Pending
    BY <2>1, FinishedMeansAll DEF Inv, FinishLast
  <2>7. DoneMeansFinished'
    BY <2>1, <2>5, <2>6 DEF DoneMeansFinished
  <2>8. QED
    BY <1>t, <2>3, <2>4, <2>7 DEF Inv
<1>2. ASSUME Yield \/ Wake \/ Rescan \/ UNCHANGED vars
      PROVE  Inv'
  <2>1. UNCHANGED <<stream, insnq, tok, done, running>>
    BY <1>2 DEF Yield, Wake, Rescan, vars
  <2>2. Pending' = Pending
    BY <2>1 DEF Pending
  <2>3. QED
    BY <1>t, <2>1, <2>2 DEF Inv, TokenAccounting, RunsWellFormed, NoTokenBetweenRuns,
                            DoneMeansFinished
<1>3. ASSUME Return
      PROVE  Inv'
  <2>1. running /\ done /\ ~running' /\ stream' = stream /\ tok' = tok /\ insnq' = NoInsns
    BY <1>3 DEF Return
  <2>2. Pending = {}
    BY <2>1, FinishedMeansAll DEF Inv, DoneMeansFinished, FinishLast
  <2>3. Pending' = {}
    BY <2>1 DEF Pending, NoInsns
  <2>4. TokenAccounting'
    BY <2>1, <2>2, <2>3 DEF Inv, TokenAccounting
  <2>5. NoTokenBetweenRuns'
    <3>1. SUFFICES ASSUME NEW q \in Queue
                   PROVE  tok[q] = 0
      BY <2>1 DEF NoTokenBetweenRuns
    <3>2. stream \in Seq(Insn) /\ WellFormed(stream) /\ tok[q] \in Nat
      BY <2>1 DEF Inv, TypeOK, RunsWellFormed
    <3>3. tok[q] + Cardinality(Poppers(stream, q)) = Cardinality(Pushers(stream, q))
      <4>1. \A S : S \ {} = S
        OBVIOUS
      <4>2. QED
        BY <2>2, <4>1 DEF Inv, TokenAccounting
    <3>4. Cardinality(Pushers(stream, q)) = Cardinality(Poppers(stream, q))
      BY <3>2 DEF WellFormed, TokensBalance
    <3>5. Cardinality(Poppers(stream, q)) \in Nat
      BY <3>2, TouchersFinite, FS_CardinalityType
    <3>6. QED
      BY <3>2, <3>3, <3>4, <3>5
  <2>6. RunsWellFormed' /\ DoneMeansFinished'
    BY <2>1 DEF RunsWellFormed, DoneMeansFinished
  <2>7. QED
    BY <1>t, <2>4, <2>5, <2>6 DEF Inv
<1>4. QED
  BY <1>1, <1>2, <1>3 DEF Step

LEMMA InvStep == StreamsWellFormed /\ Inv /\ [Next]_vars => Inv'
BY InvRun, InvWithin DEF StreamsWellFormed, Next

LEMMA InvAlways ==
    ASSUME StreamsWellFormed
    PROVE  Spec => []Inv
<1>1. Init => Inv
  BY InvInit
<1>2. Inv /\ [Next]_vars => Inv'
  BY InvStep
<1>3. QED
  BY <1>1, <1>2, PTL DEF Spec

\* On well-formed streams no token is lost, duplicated or left over from an
\* earlier run, at any step of any run.
THEOREM TokensAccounted ==
    ASSUME StreamsWellFormed
    PROVE  Spec => []TokenAccounting
<1>1. Inv => TokenAccounting
  BY DEF Inv
<1>2. Spec => []Inv
  BY InvAlways
<1>3. QED
  BY <1>1, <1>2, PTL

\* On well-formed streams the FINISH is the last instruction to execute,
\* although it waits only for the GEMM core's own instructions.
THEOREM FinishComesLast ==
    ASSUME StreamsWellFormed
    PROVE  Spec => []FinishLast
<1>1. Inv => FinishLast
  BY FinishedMeansAll DEF Inv
<1>2. Spec => []Inv
  BY InvAlways
<1>3. QED
  BY <1>1, <1>2, PTL

\* On well-formed streams TlppSynchronization returns with nothing queued, no
\* token and no wake-up left: one run never disturbs the next.
THEOREM ReturnsClean ==
    ASSUME StreamsWellFormed
    PROVE  Spec => CleanReturn
<1> DEFINE Clean == running /\ ~running' => /\ Pending = {}
                                            /\ \A q \in Queue : tok[q] = 0
                                            /\ event = <<>>
<1>1. Inv /\ Inv' /\ [Next]_vars => [Clean]_vars
  <2> SUFFICES ASSUME Inv, Inv', [Next]_vars, running, ~running'
               PROVE  Pending = {} /\ (\A q \in Queue : tok[q] = 0) /\ event = <<>>
    OBVIOUS
  <2>1. Return
    BY DEF Next, Step, Run, Execute, Yield, Wake, Rescan, vars
  <2>2. done /\ event = <<>> /\ tok' = tok
    BY <2>1 DEF Return
  <2>3. Pending = {}
    BY <2>2, FinishedMeansAll DEF Inv, DoneMeansFinished, FinishLast
  <2>4. \A q \in Queue : tok[q] = 0
    BY <2>2 DEF Inv, NoTokenBetweenRuns
  <2>5. QED
    BY <2>2, <2>3, <2>4
<1>2. Spec => []Inv
  BY InvAlways
<1>3. QED
  BY <1>1, <1>2, PTL DEF CleanReturn, Spec

--------------------------------------------------------------------------------
(* Progress, as far as it is a safety property. *)

\* The oldest instruction still queued is the front of its core, and all the
\* pushes and pops before it in the stream have happened, so its tokens are
\* there.
LEMMA OldestCanRun ==
    ASSUME TypeOK, InOrder, running,
           NEW b \in [Queue -> Nat], AccountedFrom(b), OrderedFrom(stream, b)
    PROVE  SomeCoreCanRun
<1> SUFFICES ASSUME Pending # {}
             PROVE  \E c \in Core : insnq[c] # {} /\ Ready(stream[Front(c)])
  BY DEF SomeCoreCanRun, CanRun
<1>1. stream \in Seq(Insn)
  BY DEF TypeOK
<1>2. DOMAIN stream \subseteq Nat /\ Pending \subseteq DOMAIN stream
  BY <1>1, Positions DEF TypeOK, Pending
<1>3. PICK m \in Pending : \A j \in Pending : m <= j
  BY <1>2, LeastNumber
<1>4. PICK c \in Core : m \in insnq[c]
  BY DEF Pending
<1>5. Front(c) = m
  <2>1. Front(c) \in insnq[c] /\ Front(c) <= m
    BY <1>4, FrontIsLeast
  <2>2. m <= Front(c)
    BY <1>3, <1>4, <2>1 DEF Pending
  <2>3. Front(c) \in Nat /\ m \in Nat
    BY <1>2, <1>4, <2>1 DEF Pending
  <2>4. QED
    BY <2>1, <2>2, <2>3
<1>6. \A i \in insnq[c] : GetCoreType(stream[i]) = c
  BY <1>2 DEF InOrder, TypeOK, Pending
<1>7. \A j \in DOMAIN stream : GetCoreType(stream[j]) = c /\ j > m => j \in Pending
  BY <1>4 DEF InOrder, Pending
<1>8. ASSUME NEW q \in PopQueues(stream[m])
      PROVE  tok[q] > 0
  <2> DEFINE S == Pushers(stream, q)
             T == Poppers(stream, q)
  <2>1. q \in Queue /\ m \in T /\ m \in DOMAIN stream
    BY <1>2, <1>8 DEF PopQueues, Poppers
  <2>2. /\ S \subseteq DOMAIN stream /\ IsFiniteSet(S)
        /\ T \subseteq DOMAIN stream /\ IsFiniteSet(T)
    BY <1>1, <2>1, TouchersFinite
  <2>3. Target[q] = c
    BY <1>1, <1>4, <1>6, <1>8, <2>1, QueueEnds, Positions
  <2>4. \A j \in T : GetCoreType(stream[j]) = c
    BY <1>1, <2>1, <2>2, <2>3, QueueEnds, Positions DEF Poppers
  <2>5. T \ Pending = Before(T, m)
    <3>1. \A j \in T : j \in Nat /\ m \in Nat
      BY <1>2, <2>1, <2>2
    <3>2. \A j \in T : j < m => j \notin Pending
      BY <1>3, <3>1
    <3>3. \A j \in T : j \notin Pending => j < m
      BY <1>7, <2>2, <2>4, <3>1
    <3>4. QED
      BY <3>2, <3>3 DEF Before
  <2>6. Before(S, m) \subseteq S \ Pending
    <3>1. \A j \in S : j \in Nat /\ m \in Nat
      BY <1>2, <2>1, <2>2
    <3>2. QED
      BY <1>3, <3>1 DEF Before
  <2>7. IsFiniteSet(S \ Pending) /\ IsFiniteSet(T \ Pending)
    BY <2>2, FS_Difference
  <2>8. /\ Cardinality(Before(S, m)) <= Cardinality(S \ Pending)
        /\ IsFiniteSet(Before(S, m))
    BY <2>6, <2>7, FS_Subset
  <2>9. /\ Cardinality(S \ Pending) \in Nat /\ Cardinality(T \ Pending) \in Nat
        /\ Cardinality(Before(S, m)) \in Nat
    BY <2>7, <2>8, FS_CardinalityType
  <2>10. b[q] + Cardinality(Before(S, m)) > Cardinality(Before(T, m))
    BY <2>1 DEF OrderedFrom
  <2>11. /\ tok[q] + Cardinality(T \ Pending) = b[q] + Cardinality(S \ Pending)
         /\ tok[q] \in Nat /\ b[q] \in Nat
    BY <2>1 DEF AccountedFrom, TypeOK
  <2>12. Cardinality(T \ Pending) = Cardinality(Before(T, m))
    BY <2>5
  <2> HIDE DEF S, T
  <2>13. QED
    BY <2>8, <2>9, <2>10, <2>11, <2>12
<1>9. QED
  BY <1>4, <1>5, <1>8 DEF Ready

LEMMA OldestIsReady == Inv => NoStuck
<1> SUFFICES ASSUME Inv, running, WellFormed(stream)
             PROVE  SomeCoreCanRun
  BY DEF NoStuck, SomeCoreCanRun
<1>1. TypeOK /\ InOrder /\ AccountedFrom(NoTokens)
  BY FromNothing DEF Inv
<1>2. OrderedFrom(stream, NoTokens)
  BY FromNothing DEF Inv, TypeOK, WellFormed
<1>3. QED
  BY <1>1, <1>2, OldestCanRun, FromNothing

\* On well-formed streams the cores never all wait for each other.
THEOREM NeverStuck ==
    ASSUME StreamsWellFormed
    PROVE  Spec => []NoStuck
<1>1. Spec => []Inv
  BY InvAlways
<1>2. QED
  BY <1>1, OldestIsReady, PTL

\* What a sequence of cores holds after a step of the queues.
LEMMA ItemsOf ==
    ASSUME NEW S, NEW s \in Seq(S), NEW t \in Seq(S)
    PROVE  /\ Items(s \o t) = Items(s) \cup Items(t)
           /\ s # <<>> => Items(s) = {Head(s)} \cup Items(Tail(s))
<1>1. /\ Len(s) \in Nat /\ DOMAIN s = 1..Len(s)
      /\ Len(t) \in Nat /\ DOMAIN t = 1..Len(t)
  BY LenProperties
<1>2. Items(s \o t) = Items(s) \cup Items(t)
  <2> DEFINE u == s \o t
  <2>1. /\ u \in Seq(S) /\ Len(u) = Len(s) + Len(t)
        /\ \A i \in 1..Len(u) : u[i] = IF i <= Len(s) THEN s[i] ELSE t[i - Len(s)]
    BY ConcatProperties
  <2>2. DOMAIN u = 1..Len(u)
    BY <2>1, LenProperties
  <2>3. \A i \in DOMAIN s : i \in DOMAIN u /\ u[i] = s[i]
    BY <1>1, <2>1, <2>2
  <2>4. \A i \in DOMAIN t : i + Len(s) \in DOMAIN u /\ u[i + Len(s)] = t[i]
    BY <1>1, <2>1, <2>2
  <2>5. \A i \in DOMAIN u : u[i] \in Items(s) \cup Items(t)
    <3>1. SUFFICES ASSUME NEW i \in DOMAIN u
                   PROVE  u[i] \in Items(s) \cup Items(t)
      OBVIOUS
    <3>2. CASE i <= Len(s)
      BY <1>1, <2>1, <2>2, <3>2 DEF Items
    <3>3. CASE ~(i <= Len(s))
      <4>1. i - Len(s) \in DOMAIN t /\ u[i] = t[i - Len(s)]
        BY <1>1, <2>1, <2>2, <3>3
      <4>2. QED
        BY <4>1 DEF Items
    <3>4. QED
      BY <3>2, <3>3
  <2>6. Items(u) \subseteq Items(s) \cup Items(t)
    BY <2>5 DEF Items
  <2>7. Items(s) \cup Items(t) \subseteq Items(u)
    BY <2>3, <2>4 DEF Items
  <2>8. QED
    BY <2>6, <2>7
<1>3. ASSUME s # <<>>
      PROVE  Items(s) = {Head(s)} \cup Items(Tail(s))
  <2>1. /\ Tail(s) \in Seq(S) /\ Len(Tail(s)) = Len(s) - 1
        /\ \A i \in 1..Len(Tail(s)) : Tail(s)[i] = s[i + 1]
        /\ Head(s) = s[1] /\ Len(s) > 0
    BY <1>3, HeadTailProperties, EmptySeq
  <2>2. DOMAIN Tail(s) = 1..Len(Tail(s))
    BY <2>1, LenProperties
  <2>3. \A i \in DOMAIN s : i = 1 \/ (i - 1 \in DOMAIN Tail(s) /\ Tail(s)[i - 1] = s[i])
    BY <1>1, <2>1, <2>2
  <2>4. \A i \in DOMAIN Tail(s) : i + 1 \in DOMAIN s /\ Tail(s)[i] = s[i + 1]
    BY <1>1, <2>1, <2>2
  <2>5. 1 \in DOMAIN s
    BY <1>1, <2>1
  <2>6. \A i \in DOMAIN s : s[i] = Head(s) \/ s[i] \in Items(Tail(s))
    BY <2>1, <2>3 DEF Items
  <2>9. Items(s) \subseteq {Head(s)} \cup Items(Tail(s))
    BY <2>6 DEF Items
  <2>7. {Head(s)} \cup Items(Tail(s)) \subseteq Items(s)
    BY <2>1, <2>4, <2>5 DEF Items
  <2>8. QED
    BY <2>7, <2>9
<1>4. QED
  BY <1>2, <1>3

\* Starting a scan makes every core due.
LEMMA ScanHasAllCores == \A r \in Rotations : Items(r) = Core
<1>1. \A a, b, d : Items(<<a, b, d>>) = {a, b, d}
  <2>1. SUFFICES ASSUME NEW a, NEW b, NEW d
                 PROVE  Items(<<a, b, d>>) = {a, b, d}
    OBVIOUS
  <2>2. DOMAIN <<a, b, d>> = {1, 2, 3}
    OBVIOUS
  <2>3. QED
    BY <2>2 DEF Items
<1>2. QED
  BY <1>1 DEF Rotations, Core

\* A push wakes the core that pops the queue.
LEMMA PushWakes ==
    ASSUME NEW insn \in Insn, NEW q \in PushQueues(insn)
    PROVE  Target[q] \in Items(Wakes(insn))
<1> DEFINE c == GetCoreType(insn)
           prev == IF insn.pushPrev THEN IF c = "GEMM" THEN <<"LOAD">> ELSE <<"GEMM">> ELSE <<>>
           next == IF insn.pushNext THEN IF c = "GEMM" THEN <<"STORE">> ELSE <<"GEMM">> ELSE <<>>
<1>1. /\ <<>> \in Seq(Core) /\ <<"LOAD">> \in Seq(Core)
      /\ <<"GEMM">> \in Seq(Core) /\ <<"STORE">> \in Seq(Core)
  BY DEF Core
<1>2. prev \in Seq(Core) /\ next \in Seq(Core) /\ Wakes(insn) = prev \o next
  BY <1>1 DEF Wakes
<1>3. Items(Wakes(insn)) = Items(prev) \cup Items(next)
  <2> HIDE DEF prev, next
  <2>1. QED
    BY <1>2, ItemsOf
<1>4. \A d : d \in Items(<<d>>)
  BY DEF Items
<1>5. c \in Core /\ q \in Queue
  BY InsnQueues
<1>6. CASE insn.pushPrev /\ q = PushPrevQueue[c]
  <2>1. (c = "GEMM" => Target[q] = "LOAD") /\ (c # "GEMM" => Target[q] = "GEMM")
    BY <1>5, <1>6 DEF Core, Queue, PushPrevQueue, Target
  <2>2. Target[q] \in Items(prev)
    BY <1>4, <1>6, <2>1
  <2>3. QED
    BY <1>3, <2>2
<1>7. CASE insn.pushNext /\ q = PushNextQueue[c]
  <2>1. (c = "GEMM" => Target[q] = "STORE") /\ (c # "GEMM" => Target[q] = "GEMM")
    BY <1>5, <1>7 DEF Core, Queue, PushNextQueue, Target
  <2>2. Target[q] \in Items(next)
    BY <1>4, <1>7, <2>1
  <2>3. QED
    BY <1>3, <2>2
<1>8. QED
  BY <1>6, <1>7 DEF PushQueues

\* CoreRun on one core makes another one ready only by pushing it a token.
LEMMA ExecuteWakes ==
    ASSUME TypeOK, InOrder, NoMissedWake, Execute
    PROVE  NoMissedWake'
<1> DEFINE c == Head(agenda)
           i == Front(c)
<1>1. /\ c \in Core /\ i \in DOMAIN stream /\ stream[i] \in Insn
      /\ GetCoreType(stream[i]) = c /\ i \in insnq[c] /\ stream' = stream /\ running
  BY ExecuteRemovesFront
<1>2. /\ agenda' = agenda /\ agenda \in Seq(Core) /\ agenda # <<>>
      /\ event' = event \o Wakes(stream[i])
      /\ tok' = TokAfter(stream[i])
  BY DEF Execute, TypeOK
<1>3. c \in Items(agenda')
  BY <1>2, ItemsOf
<1>4. Items(event') = Items(event) \cup Items(Wakes(stream[i]))
  BY <1>1, <1>2, InsnQueues, ItemsOf DEF TypeOK
<1>5. SUFFICES ASSUME NEW d \in Core, d # c, insnq'[d] # {}, Ready(stream[Front(d)])'
               PROVE  d \in Items(agenda') \cup Items(event')
  BY <1>3 DEF NoMissedWake, CanRun
<1>6. insnq'[d] = insnq[d]
  BY <1>1, <1>5 DEF Execute, TypeOK
<1>7. Front(d)' = Front(d)
  BY <1>6 DEF Front
<1> DEFINE k == Front(d)
<1>8. k \in insnq[d] /\ k \in DOMAIN stream /\ stream[k] \in Insn
  BY <1>5, <1>6, FrontIsLeast, Positions DEF TypeOK
<1>9. GetCoreType(stream[k]) = d
  BY <1>1, <1>8 DEF InOrder
<1>10. CASE Ready(stream[k])
  <2>1. d \in Items(agenda) \cup Items(event)
    BY <1>1, <1>5, <1>6, <1>10 DEF NoMissedWake, CanRun
  <2>2. QED
    BY <1>2, <1>4, <2>1
<1>11. CASE ~Ready(stream[k])
  <2>1. PICK q \in PopQueues(stream[k]) : ~(tok[q] > 0)
    BY <1>11 DEF Ready
  <2>2. tok'[q] > 0
    BY <1>1, <1>5, <1>7, <2>1 DEF Ready
  <2>3. q \in Queue /\ tok[q] \in Nat
    BY <1>8, <2>1, InsnQueues DEF TypeOK
  <2>4. q \in PushQueues(stream[i])
    BY <1>2, <2>1, <2>2, <2>3 DEF TokAfter
  <2>5. Target[q] = d
    BY <1>8, <1>9, <2>1, <2>3, QueueEnds
  <2>6. QED
    BY <1>1, <1>4, <2>4, <2>5, PushWakes
<1>12. QED
  BY <1>10, <1>11

LEMMA WakeStep == TypeOK /\ Idle /\ InOrder /\ NoMissedWake /\ [Next]_vars => NoMissedWake'
<1> SUFFICES ASSUME TypeOK, Idle, InOrder, NoMissedWake, [Next]_vars
             PROVE  NoMissedWake'
  OBVIOUS
<1>1. ASSUME NEW s \in Streams, Run(s)
      PROVE  NoMissedWake'
  BY <1>1, ScanHasAllCores DEF Run, NoMissedWake, CanRun
<1>2. ASSUME Execute
      PROVE  NoMissedWake'
  BY <1>2, ExecuteWakes
<1>f. ASSUME UNCHANGED <<stream, insnq, tok>>
      PROVE  \A d \in Core : /\ insnq'[d] = insnq[d]
                             /\ Ready(stream[Front(d)])' <=> Ready(stream[Front(d)])
  BY <1>f DEF Ready, Front
<1>3. ASSUME Yield
      PROVE  NoMissedWake'
  <2>1. /\ agenda' = Tail(agenda) /\ event' = event /\ running
        /\ UNCHANGED <<stream, insnq, tok>>
        /\ insnq[Head(agenda)] # {} => ~Ready(stream[Front(Head(agenda))])
    BY <1>3 DEF Yield
  <2>2. Items(agenda) = {Head(agenda)} \cup Items(agenda')
    BY <1>3, <2>1, ItemsOf DEF Yield, TypeOK
  <2>3. QED
    BY <1>f, <2>1, <2>2 DEF NoMissedWake, CanRun
<1>4. ASSUME Wake
      PROVE  NoMissedWake'
  <2>1. /\ agenda = <<>> /\ agenda' = <<Head(event)>> /\ event' = Tail(event) /\ running
        /\ UNCHANGED <<stream, insnq, tok>>
    BY <1>4 DEF Wake
  <2>2. Items(event) = {Head(event)} \cup Items(event')
    BY <1>4, <2>1, ItemsOf DEF Wake, TypeOK
  <2>3. Items(agenda) = {} /\ Head(event) \in Items(agenda')
    BY <2>1 DEF Items
  <2>4. QED
    BY <1>f, <2>1, <2>2, <2>3 DEF NoMissedWake, CanRun
<1>5. ASSUME Rescan
      PROVE  NoMissedWake'
  BY <1>5, ScanHasAllCores DEF Rescan, NoMissedWake, CanRun
<1>6. ASSUME Return
      PROVE  NoMissedWake'
  BY <1>6 DEF Return, NoMissedWake, CanRun
<1>7. ASSUME UNCHANGED vars
      PROVE  NoMissedWake'
  <2>1. agenda' = agenda /\ event' = event /\ running' = running /\ UNCHANGED <<stream, insnq, tok>>
    BY <1>7 DEF vars
  <2>2. QED
    BY <1>f, <2>1 DEF NoMissedWake, CanRun
<1>8. QED
  BY <1>1, <1>2, <1>3, <1>4, <1>5, <1>6, <1>7 DEF Next, Step

\* Whatever the streams, a core that could run is always due to be run: the
\* events CoreRun posts are enough.
THEOREM NoWakeMissed == Spec => []NoMissedWake
<1> DEFINE I == TypeOK /\ Idle /\ InOrder /\ NoMissedWake
<1>1. Init => I
  BY TypeInit DEF Init, InOrder, NoMissedWake, CanRun
<1>2. I /\ [Next]_vars => I'
  BY TypeStep, OrderStep, WakeStep
<1>3. I => NoMissedWake
  OBVIOUS
<1> HIDE DEF I
<1>4. QED
  BY <1>1, <1>2, <1>3, PTL DEF Spec

\* On well-formed streams one scan of the cores, with the wake-ups it causes,
\* runs everything: the do-while loop never goes around again.
THEOREM OneScanIsEnough ==
    ASSUME StreamsWellFormed
    PROVE  Spec => []ScanOnce
<1>1. Inv /\ NoMissedWake => ScanOnce
  <2>1. SUFFICES ASSUME Inv, NoMissedWake, running, agenda = <<>>, event = <<>>
                 PROVE  done
    BY DEF ScanOnce
  <2>2. Items(<<>>) = {}
    BY DEF Items
  <2>3. \A c \in Core : ~(insnq[c] # {} /\ Ready(stream[Front(c)]))
    BY <2>1, <2>2 DEF NoMissedWake, CanRun
  <2>4. Pending = {}
    BY <2>1, <2>3, OldestIsReady DEF NoStuck, SomeCoreCanRun, CanRun, Inv, RunsWellFormed
  <2>5. QED
    BY <2>1, <2>4 DEF Inv, DoneMeansFinished
<1>2. Spec => []Inv
  BY InvAlways
<1>3. Spec => []NoMissedWake
  BY NoWakeMissed
<1>4. QED
  BY <1>1, <1>2, <1>3, PTL
================================================================================
