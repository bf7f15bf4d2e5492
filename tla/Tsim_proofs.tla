------------------------------ MODULE Tsim_proofs ------------------------------
(***************************************************************************)
(* The cycle simulation, for any number of clients, slots and beats, when  *)
(* memory reads have no latency (the default): each beat that comes back   *)
(* has a slot of the engine, each client gets its beats in order, a call   *)
(* that saw the finish bit finds all its results in memory, and the        *)
(* profiler's sum is that of the runs since it was cleared.                *)
(***************************************************************************)
EXTENDS Tsim, WellFoundedInduction, TLAPS, SequenceTheorems, FiniteSetTheorems

LEMMA DivMod ==
    ASSUME NEW n \in Nat, NEW p \in Nat \ {0}
    PROVE  /\ n \div p \in Nat /\ n % p \in 0..p - 1
           /\ n = p * (n \div p) + (n % p)
OBVIOUS

LEMMA NextMultiple ==
    ASSUME NEW p \in Nat \ {0}, NEW a \in Nat, NEW b \in Nat, a < b
    PROVE  p * a + p <= p * b
OBVIOUS

\* A set of natural numbers has a least element: the way to an induction.
LEMMA LeastNumber ==
    ASSUME NEW S \in SUBSET Nat, S # {}
    PROVE  \E m \in S : \A j \in S : m <= j
<1> DEFINE R == {p \in Nat \X Nat : p[1] < p[2]}
<1>1. IsWellFoundedOn(R, Nat)
    BY NatLessThanWellFounded DEF OpToRel
<1>2. PICK m \in S : \A j \in S : <<j, m>> \notin R
    BY <1>1, WFMin
<1>3. \A j \in S : ~(j < m)
    BY <1>2
<1> QED
    BY <1>3

Burst == BurstLen + 1
Words == 1..MaxRuns * AreaWords
Data == [1..Blk -> Int]
Bases == {Base(r) : r \in 1..run}

LEMMA Sizes ==
    /\ Clients \in Nat \ {0} /\ Blk \in Nat \ {0} /\ Slots \in Nat \ {0}
    /\ BurstLen \in Nat /\ Burst \in Nat \ {0} /\ Burst - 1 = BurstLen
    /\ Beats \in Nat \ {0} /\ Beats = Clients * Burst
    /\ AreaWords \in Nat \ {0} /\ AreaWords = 2 * (Beats * Blk)
    /\ Beats * Blk \in Nat \ {0} /\ MaxRuns \in Nat
<1>1. /\ Clients \in Nat \ {0} /\ Blk \in Nat \ {0} /\ Slots \in Nat \ {0}
      /\ BurstLen \in Nat /\ MaxRuns \in Nat
    BY TsimMemAssumption, TsimAssumption
<1>2. Burst \in Nat \ {0} /\ Burst - 1 = BurstLen
    BY <1>1 DEF Burst
<1>3. \A a, b \in Nat \ {0} : a * b \in Nat \ {0}
    OBVIOUS
<1>4. Beats = Clients * Burst
    BY DEF Beats, Burst
<1>5. Beats \in Nat \ {0}
    BY <1>1, <1>2, <1>3, <1>4
<1>6. Beats * Blk \in Nat \ {0}
    BY <1>1, <1>3, <1>5
<1>7. AreaWords = 2 * (Beats * Blk)
    BY <1>1, <1>5 DEF AreaWords
<1> QED
    BY <1>1, <1>2, <1>4, <1>5, <1>6, <1>7

\* The beats a client reads lie between the start of the area and the target.
LEMMA SourceBeats ==
    ASSUME NEW base \in Nat, NEW c \in Client, NEW n \in 0..BurstLen
    PROVE  /\ Source(base, c) + n * Blk \in Nat
           /\ Source(base, c) + n * Blk = base + ((c - 1) * Burst + n) * Blk
           /\ base <= Source(base, c) + n * Blk
           /\ Source(base, c) + n * Blk + Blk <= Target(base)
<1> DEFINE k == (c - 1) * Burst + n
<1>1. c - 1 \in Nat /\ c - 1 < Clients /\ n < Burst /\ n \in Nat
    BY Sizes DEF Client
<1>2. (c - 1) * Burst \in Nat /\ (c - 1) * Burst + Burst <= Beats
    <2>1. Burst * (c - 1) + Burst <= Burst * Clients
        BY <1>1, Sizes, NextMultiple
    <2> QED
        BY <2>1, <1>1, Sizes
<1>3. k \in Nat /\ k < Beats
    BY <1>1, <1>2, Sizes
<1>4. Source(base, c) + n * Blk = base + k * Blk
    <2>1. Source(base, c) = base + ((c - 1) * Burst) * Blk
        BY <1>1, Sizes DEF Source, Burst
    <2>2. \A a, b, d \in Nat : a * d + b * d = (a + b) * d
        OBVIOUS
    <2> QED
        BY <2>1, <2>2, <1>1, <1>2, Sizes
<1> HIDE DEF k
<1>5. k * Blk \in Nat /\ k * Blk + Blk <= Beats * Blk
    <2>1. Blk * k + Blk <= Blk * Beats
        BY <1>3, Sizes, NextMultiple
    <2> QED
        BY <2>1, <1>3, Sizes
<1>6. Target(base) = base + Beats * Blk
    BY DEF Target
<1>7. /\ base + k * Blk \in Nat /\ base <= base + k * Blk
      /\ base + k * Blk + Blk <= base + Beats * Blk
    BY <1>5, Sizes
<1>8. Source(base, c) + n * Blk = base + ((c - 1) * Burst + n) * Blk
    BY <1>4 DEF k
<1> QED
    BY <1>4, <1>6, <1>7, <1>8

\* The areas of the runs are in memory and apart.
LEMMA AreasApart ==
    ASSUME NEW r \in 1..MaxRuns
    PROVE  /\ Base(r) \in Nat \ {0}
           /\ Base(r) + AreaWords <= MaxRuns * AreaWords + 1
           /\ \A q \in 1..r - 1 : Base(q) + AreaWords <= Base(r)
<1>1. AreaWords \in Nat \ {0} /\ MaxRuns \in Nat
    BY Sizes
<1>2. \A q \in 1..MaxRuns : Base(q) = 1 + AreaWords * (q - 1) /\ AreaWords * (q - 1) \in Nat
    BY <1>1 DEF Base
<1>3. AreaWords * (r - 1) + AreaWords <= AreaWords * MaxRuns
    BY <1>1, NextMultiple
<1>4. ASSUME NEW q \in 1..r - 1
      PROVE  AreaWords * (q - 1) + AreaWords <= AreaWords * (r - 1)
    BY <1>1, NextMultiple
<1>5. AreaWords * MaxRuns = MaxRuns * AreaWords
    BY <1>1
<1>6. ASSUME NEW q \in 1..r - 1
      PROVE  Base(q) + AreaWords <= Base(r)
    BY <1>1, <1>2, <1>4
<1> QED
    BY <1>1, <1>2, <1>3, <1>5, <1>6

\* A beat of the run that is written back is one beat of one client.
LEMMA BeatOfClient ==
    ASSUME NEW n \in 0..Beats - 1
    PROVE  /\ 1 + (n \div Burst) \in Client /\ n % Burst \in 0..BurstLen
           /\ (n \div Burst) * Burst + (n % Burst) = n
<1>1. n \div Burst \in Nat /\ n % Burst \in 0..Burst - 1 /\ n = Burst * (n \div Burst) + (n % Burst)
    BY Sizes, DivMod
<1>2. n \div Burst < Clients
    <2>1. CASE Clients < n \div Burst
        BY <2>1, <1>1, Sizes, NextMultiple
    <2>2. CASE Clients = n \div Burst
        BY <2>2, <1>1, Sizes
    <2> QED
        BY <2>1, <2>2, <1>1, Sizes
<1> QED
    BY <1>1, <1>2, Sizes DEF Client

LEMMA MinInSet ==
    ASSUME NEW S \in SUBSET Nat, S # {}
    PROVE  Min(S) \in S
BY LeastNumber DEF Min

--------------------------------------------------------------------------------
(* The control registers.  A run is launched with the base address of a    *)
(* call of VTADeviceRun, and from there until it finishes not again.       *)

Place == {"new", "launched", "idle", "resume", "base", "start", "poll", "polled", "counters",
          "update", "wait", "exit", "join", "gone"}
Between == {"new", "launched", "idle", "exit", "join", "gone"}
Read(a) == [op |-> "read", addr |-> a, value |-> 0]
Write(a, v) == [op |-> "write", addr |-> a, value |-> v]
Requests == {Read("ctrl"), Read("beats"), Write("ctrl", 1)} \cup {Write("base", b) : b \in Bases}

HostTyped ==
    /\ pc \in Place /\ run \in 0..MaxRuns /\ (pc \notin Between => run > 0)
    /\ reqs \in Seq(Requests) /\ answers \in Seq(Nat)
    /\ conv \in [state : {"idle", "readAddress", "writeAddress", "readData", "writeData",
                          "writeResponse"},
                 req : Requests \cup {NoReq}, shown : Requests \cup {NoReq}, rdata : Nat]
    /\ conv.state \in {"writeAddress", "writeData"} => conv.req.op = "write"
    /\ conv.state = "readAddress" => conv.req.op = "read"
    /\ reg \in [ctrl : 0..2, base : {0} \cup Bases, beats : Nat] /\ launchBefore \in BOOLEAN

\* The base address is written before the start bit.
BaseComes ==
    \/ conv.state = "writeData" /\ conv.req.addr = "base"
    \/ reqs # <<>> /\ Head(reqs).addr = "base"
BaseFirst ==
    reg.base = 0 =>
        /\ reg.ctrl = 0
        /\ \A q \in {conv.req, conv.shown} : q = NoReq \/ q.addr = "base"
        /\ \/ BaseComes
           \/ /\ pc \in Between \cup {"resume", "base"} /\ reqs = <<>>
              /\ conv.state = "idle" /\ conv.req = NoReq /\ conv.shown = NoReq

\* The core runs for the one launch.
Launched ==
    /\ core.phase # "idle" => reg.ctrl = 1 /\ launchBefore
    /\ IF core.base = 0 THEN core.phase = "idle" /\ \A c \in Client : core.got[c] = <<>>
       ELSE core.base \in Bases

Control == HostTyped /\ BaseFirst /\ Launched

LEMMA KnownBases ==
    ASSUME HostTyped
    PROVE  /\ Bases \subseteq Nat \ {0}
           /\ \A q \in Requests : /\ q.op \in {"read", "write"} /\ q.addr \in {"ctrl", "beats", "base"}
                                  /\ q.addr = "base" => q.op = "write" /\ q.value \in Bases
                                  /\ q.op = "write" /\ q.addr = "ctrl" => q.value = 1
                                  /\ q.op = "write" => q.addr \in {"ctrl", "base"}
                                  /\ q # NoReq
<1>1. Bases \subseteq Nat \ {0}
    <2>1. \A r \in 1..run : r \in 1..MaxRuns
        BY Sizes DEF HostTyped
    <2> QED
        BY <2>1, AreasApart DEF Bases
<1> QED
    BY <1>1 DEF Requests, Read, Write, NoReq

\* A step of the host that sends nothing.
LEMMA HostSilent ==
    ASSUME Control, UNCHANGED <<hardware, run, reqs>>, pc' \in Place,
           answers' = answers \/ (answers # <<>> /\ answers' = Tail(answers)),
           pc' \notin Between => pc \notin Between,
           pc \in Between \cup {"resume", "base"} => pc' \in Between \cup {"resume", "base"}
    PROVE  Control'
<1> USE DEF hardware, memPath
<1>1. Bases' = Bases
    BY DEF Bases
<1>2. answers' \in Seq(Nat)
    <2>1. answers \in Seq(Nat)
        BY DEF Control, HostTyped
    <2>2. answers # <<>> => Tail(answers) \in Seq(Nat)
        BY <2>1, HeadTailProperties
    <2> QED
        BY <2>1, <2>2
<1>3. HostTyped'
    BY <1>1, <1>2 DEF Control, HostTyped, Requests
<1>4. BaseFirst'
    BY DEF Control, BaseFirst, BaseComes
<1>5. Launched'
    BY <1>1 DEF Control, Launched
<1> QED
    BY <1>3, <1>4, <1>5 DEF Control

\* A step of the host that sends a request.
LEMMA HostSends ==
    ASSUME Control, UNCHANGED <<hardware, run, answers>>, NEW q \in Requests,
           pc \notin Between, pc' \in Place \ Between, reqs' = Append(reqs, q),
           pc \in {"resume", "base"} => q.addr = "base"
    PROVE  Control'
<1> USE DEF hardware, memPath
<1>1. Bases' = Bases /\ Requests' = Requests
    BY DEF Bases, Requests
<1>2. reqs' \in Seq(Requests) /\ reqs' # <<>> /\ Head(reqs') = IF reqs = <<>> THEN q ELSE Head(reqs)
    BY DEF Control, HostTyped
<1>3. HostTyped'
    BY <1>1, <1>2 DEF Control, HostTyped
<1>4. BaseFirst'
    <2>1. CASE BaseComes
        BY <2>1, <1>2 DEF Control, BaseFirst, BaseComes
    <2>2. CASE reqs = <<>> /\ pc \in {"resume", "base"}
        BY <2>2, <1>2 DEF Control, BaseFirst, BaseComes
    <2> QED
        BY <2>1, <2>2 DEF Control, BaseFirst
<1>5. Launched'
    BY <1>1 DEF Control, Launched
<1> QED
    BY <1>3, <1>4, <1>5 DEF Control

LEMMA StartRunControl ==
    ASSUME Control, StartRun
    PROVE  Control'
<1> USE DEF hardware, memPath, queues
<1>1. run \in Nat /\ run' = run + 1 /\ run' \in 1..MaxRuns /\ pc = "idle" /\ pc' = "resume"
    BY Sizes DEF StartRun, Goto, Control, HostTyped
<1>2. Bases \subseteq Bases'
    BY <1>1 DEF Bases
<1>3. Requests \subseteq Requests'
    BY <1>2 DEF Requests
<1>4. UNCHANGED <<hardware, reqs, answers>>
    BY DEF StartRun
<1>5. reqs' \in Seq(Requests')
    BY <1>3, <1>4 DEF Control, HostTyped
<1>6. HostTyped'
    <2>1. conv' \in [state : {"idle", "readAddress", "writeAddress", "readData", "writeData",
                          "writeResponse"},
                 req : Requests' \cup {NoReq}, shown : Requests' \cup {NoReq}, rdata : Nat]
        BY <1>3, <1>4 DEF Control, HostTyped
    <2>2. reg' \in [ctrl : 0..2, base : {0} \cup Bases', beats : Nat]
        BY <1>2, <1>4 DEF Control, HostTyped
    <2>3. pc' \in Place /\ run' \in 0..MaxRuns /\ run' > 0
        BY <1>1 DEF Place
    <2> QED
        BY <1>4, <1>5, <2>1, <2>2, <2>3 DEF Control, HostTyped
<1>7. BaseFirst'
    BY <1>1, <1>4 DEF Control, BaseFirst, BaseComes
<1>8. Launched'
    BY <1>2, <1>4 DEF Control, Launched
<1> QED
    BY <1>6, <1>7, <1>8 DEF Control

LEMMA HostControl ==
    ASSUME Control, HostStep
    PROVE  Control'
<1> USE DEF Place, Between, Goto, SameRun, host, queues
<1>1. ASSUME SimLaunch \/ InitWaits \/ Resumes \/ GiveUp \/ RunWaits \/ ClearAll \/ ExitResumes
             \/ SimFinish \/ Joined
      PROVE  Control'
    <2>1. /\ UNCHANGED <<hardware, run, reqs, answers>> /\ pc' \in Place
          /\ pc' \notin Between => pc \notin Between
          /\ pc \in Between \cup {"resume", "base"} => pc' \in Between \cup {"resume", "base"}
        BY <1>1 DEF SimLaunch, InitWaits, Resumes, GiveUp, RunWaits, ClearAll, ExitResumes, SimFinish,
                    Joined, SetWait
    <2> QED
        BY <2>1, HostSilent
<1>2. ASSUME Polled \/ Update
      PROVE  Control'
    <2>1. /\ UNCHANGED <<hardware, run, reqs>> /\ pc' \in Place
          /\ answers # <<>> /\ answers' = Tail(answers)
          /\ pc' \notin Between => pc \notin Between
          /\ pc \notin Between \cup {"resume", "base"}
        BY <1>2 DEF Polled, Update, WaitPop
    <2> QED
        BY <2>1, HostSilent
<1>3. CASE WriteBase
    <2>1. Base(run) \in Bases
        BY <1>3 DEF Control, HostTyped, WriteBase, Push, Bases
    <2>2. Write("base", Base(run)) \in Requests
        BY <2>1 DEF Requests
    <2>3. /\ UNCHANGED <<hardware, run, answers>> /\ pc = "base" /\ pc' = "start"
          /\ reqs' = Append(reqs, Write("base", Base(run))) /\ Write("base", Base(run)).addr = "base"
        BY <1>3 DEF WriteBase, Push, Write
    <2> QED
        BY <2>2, <2>3, HostSends
<1>4. CASE WriteStart
    <2>1. /\ UNCHANGED <<hardware, run, answers>> /\ pc = "start" /\ pc' = "poll"
          /\ reqs' = Append(reqs, Write("ctrl", 1)) /\ Write("ctrl", 1) \in Requests
        BY <1>4 DEF WriteStart, Push, Write, Requests
    <2> QED
        BY <2>1, HostSends
<1>5. CASE ReadDone
    <2>1. /\ UNCHANGED <<hardware, run, answers>> /\ pc = "poll" /\ pc' = "polled"
          /\ reqs' = Append(reqs, Read("ctrl")) /\ Read("ctrl") \in Requests
        BY <1>5 DEF ReadDone, Push, Read, Requests
    <2> QED
        BY <2>1, HostSends
<1>6. CASE ReadCounter
    <2>1. /\ UNCHANGED <<hardware, run, answers>> /\ pc = "counters" /\ pc' = "update"
          /\ reqs' = Append(reqs, Read("beats")) /\ Read("beats") \in Requests
        BY <1>6 DEF ReadCounter, Push, Read, Requests
    <2> QED
        BY <2>1, HostSends
<1> QED
    BY <1>1, <1>2, <1>3, <1>4, <1>5, <1>6, StartRunControl DEF HostStep

Phase == {"idle", "read", "write", "finish", "finished"}
Handshake == {"idle", "addr", "data", "resp"}
Request0 == [addr : Nat, len : Nat, id : Nat]

MemTyped ==
    /\ dram \in [Words -> Int]
    /\ mdev \in [raddr : Int, rlen : Nat, rid : Nat, waddr : Int, wlen : Nat]
    /\ shown \in [valid : BOOLEAN, id : Nat, data : Data]
    /\ bridge \in [queue : Seq(Request0), r : {"idle", "data"}, ar : Request0, delay : {0},
                   w : Handshake, aw : Request0, awBefore : BOOLEAN]
    /\ vme \in [ar : Request0, free : SUBSET Slot, issued : SUBSET Slot, owner : [Slot -> 0..Clients],
                left : [Slot -> Nat], w : Handshake, sent : Nat, beats : Nat]
    /\ resps \in [Client -> Seq(Data)]
    /\ core \in [phase : Phase, base : Nat, quiet : SUBSET Client, asks : SUBSET Client,
                 got : [Client -> Seq(Data)]]

LEMMA NextPhases ==
    ASSUME core.phase \in Phase
    PROVE  /\ NextPhase \in Phase
           /\ NextPhase = "read" => core.phase = "read"
           /\ NextPhase = "write" =>
                \/ core.phase = "write"
                \/ core.phase = "read" /\ (\A c \in Client : Len(core.got[c]) = Burst)
           /\ NextPhase = "finish" => core.phase = "write" /\ Ack
           /\ NextPhase = "finished" => core.phase = "finish"
           /\ NextPhase = "idle" => core.phase \in {"idle", "finished"}
           /\ core.phase = "write" /\ Ack => NextPhase = "finish"
BY DEF NextPhase, Phase, Burst

Starts == Launch /\ ~launchBefore

\* The registers of the core after a cycle.
LEMMA CoreNext ==
    ASSUME MemTyped, NEW ask \in SUBSET core.quiet, NEW take, NEW data, Clock(ask, take, data)
    PROVE  /\ core'.phase = IF Starts THEN "read" ELSE NextPhase
           /\ core'.base = IF Starts THEN reg.base ELSE core.base
           /\ core'.quiet = IF Starts THEN Client ELSE core.quiet \ ask
           /\ core'.asks = IF Starts THEN core.asks
                           ELSE (core.asks \ (IF Issue THEN {Min(core.asks)} ELSE {})) \cup ask
           /\ core'.got = IF Starts THEN [c \in Client |-> <<>>]
                          ELSE [c \in Client |-> IF c \in take THEN Append(core.got[c], Head(resps[c]))
                                                 ELSE core.got[c]]
           /\ core' = [phase |-> core'.phase, base |-> core'.base, quiet |-> core'.quiet,
                       asks |-> core'.asks, got |-> core'.got]
BY DEF MemTyped, Clock, MemCycle, CoreCycle, Starts

\* The registers of the converter and of the VCR after a cycle.
LEMMA ControlNext ==
    ASSUME Control, MemTyped, HostDPI, conv' = Converted, reg' = Registers
    PROVE  /\ conv'.shown = IF reqs = <<>> THEN NoReq ELSE Head(reqs)
           /\ conv'.req = IF conv.state = "idle" /\ conv.shown # NoReq THEN conv.shown ELSE conv.req
           /\ conv'.rdata = IF conv.state = "readAddress" THEN reg[conv.req.addr] ELSE conv.rdata
           /\ conv'.state = CASE conv.state = "idle" /\ conv.shown.op = "read" -> "readAddress"
                  [] conv.state = "idle" /\ conv.shown.op = "write" -> "writeAddress"
                  [] conv.state = "readAddress" -> "readData"
                  [] conv.state = "writeAddress" -> "writeData"
                  [] conv.state = "writeData" -> "writeResponse"
                  [] OTHER -> "idle"
           /\ conv' = [state |-> conv'.state, req |-> conv'.req, shown |-> conv'.shown, rdata |-> conv'.rdata]
           /\ conv.req \in Requests \cup {NoReq} /\ conv.shown \in Requests \cup {NoReq}
           /\ conv.state = "writeData" => conv.req \in Requests /\ conv.req.op = "write"
           /\ reg'.base = IF conv.state = "writeData" /\ conv.req.addr = "base" THEN conv.req.value ELSE reg.base
           /\ reg'.ctrl = IF core.phase = "finished" THEN 2
                          ELSE IF conv.state = "writeData" /\ conv.req.addr = "ctrl" THEN 1 ELSE reg.ctrl
           /\ reg'.beats = IF core.phase = "finish" THEN vme.beats ELSE reg.beats
           /\ reg' = [ctrl |-> reg'.ctrl, base |-> reg'.base, beats |-> reg'.beats]
<1>1. HostTyped
    BY DEF Control
<1>2. conv.req \in Requests \cup {NoReq} /\ conv.shown \in Requests \cup {NoReq}
    BY <1>1 DEF HostTyped
<1>3. conv.state = "writeData" => conv.req \in Requests /\ conv.req.op = "write"
    BY <1>1, <1>2 DEF HostTyped, NoReq
<1> DEFINE written == IF conv.state = "writeData"
                      THEN [reg EXCEPT ![conv.req.addr] = conv.req.value] ELSE reg
<1>4. /\ written = [ctrl |-> written.ctrl, base |-> written.base, beats |-> reg.beats]
      /\ written.beats = reg.beats
      /\ written.base = IF conv.state = "writeData" /\ conv.req.addr = "base" THEN conv.req.value
                        ELSE reg.base
      /\ written.ctrl = IF conv.state = "writeData" /\ conv.req.addr = "ctrl" THEN 1 ELSE reg.ctrl
    <2>1. CASE conv.state = "writeData"
        <3>1. \/ conv.req.addr = "ctrl" /\ conv.req.value = 1
              \/ conv.req.addr = "base" /\ conv.req.value \in Bases
            BY <1>1, <1>3, <2>1, KnownBases
        <3>2. reg \in [ctrl : 0..2, base : {0} \cup Bases, beats : Nat]
            BY <1>1 DEF HostTyped
        <3>3. written = [reg EXCEPT ![conv.req.addr] = conv.req.value]
            BY <2>1
        <3> HIDE DEF written
        <3>4. CASE conv.req.addr = "ctrl" /\ conv.req.value = 1
            <4>1. written = [reg EXCEPT !["ctrl"] = 1]
                BY <3>3, <3>4
            <4>2. written = [ctrl |-> 1, base |-> reg.base, beats |-> reg.beats]
                BY <3>2, <4>1
            <4>3. written.ctrl = 1 /\ written.base = reg.base /\ written.beats = reg.beats
                BY <4>2
            <4> QED
                BY <2>1, <3>4, <4>2, <4>3
        <3>5. CASE conv.req.addr = "base" /\ conv.req.value \in Bases
            <4>1. written = [reg EXCEPT !["base"] = conv.req.value]
                BY <3>3, <3>5
            <4> QED
                BY <2>1, <3>2, <3>5, <4>1
        <3> QED
            BY <3>1, <3>4, <3>5
    <2>2. CASE conv.state # "writeData"
        BY <1>1, <2>2 DEF HostTyped
    <2> QED
        BY <2>1, <2>2
<1>5. reg' = [written EXCEPT !.ctrl = IF core.phase = "finished" THEN 2 ELSE @,
                             !.beats = IF core.phase = "finish" THEN vme.beats ELSE @]
    BY DEF Registers
<1> HIDE DEF written
<1>6. /\ reg'.ctrl = IF core.phase = "finished" THEN 2 ELSE written.ctrl
      /\ reg'.base = written.base
      /\ reg'.beats = IF core.phase = "finish" THEN vme.beats ELSE written.beats
      /\ reg' = [ctrl |-> reg'.ctrl, base |-> reg'.base, beats |-> reg'.beats]
    BY <1>4, <1>5
<1>7. /\ conv'.shown = IF reqs = <<>> THEN NoReq ELSE Head(reqs)
      /\ conv'.req = IF conv.state = "idle" /\ conv.shown # NoReq THEN conv.shown ELSE conv.req
      /\ conv'.rdata = IF conv.state = "readAddress" THEN reg[conv.req.addr] ELSE conv.rdata
      /\ conv'.state = CASE conv.state = "idle" /\ conv.shown.op = "read" -> "readAddress"
                  [] conv.state = "idle" /\ conv.shown.op = "write" -> "writeAddress"
                  [] conv.state = "readAddress" -> "readData"
                  [] conv.state = "writeAddress" -> "writeData"
                  [] conv.state = "writeData" -> "writeResponse"
                  [] OTHER -> "idle"
      /\ conv' = [state |-> conv'.state, req |-> conv'.req, shown |-> conv'.shown, rdata |-> conv'.rdata]
    BY <1>1 DEF Converted, HostTyped
<1> QED
    BY <1>2, <1>3, <1>4, <1>6, <1>7

LEMMA ConvertedControl ==
    ASSUME Control, MemTyped, HostDPI, conv' = Converted, reg' = Registers, launchBefore' = Launch,
           UNCHANGED host
    PROVE  HostTyped' /\ BaseFirst'
<1> USE DEF host
<1>1. Bases' = Bases /\ Requests' = Requests
    BY DEF Bases, Requests
<1>2. HostTyped
    BY DEF Control
<1>3. reqs # <<>> => Head(reqs) \in Requests /\ Tail(reqs) \in Seq(Requests)
    BY <1>2, HeadTailProperties DEF HostTyped
<1>4. reqs' \in Seq(Requests)
    BY <1>2, <1>3 DEF HostDPI, HostTyped
<1>5. /\ conv'.shown = IF reqs = <<>> THEN NoReq ELSE Head(reqs)
      /\ conv'.req = IF conv.state = "idle" /\ conv.shown # NoReq THEN conv.shown ELSE conv.req
      /\ conv'.rdata = IF conv.state = "readAddress" THEN reg[conv.req.addr] ELSE conv.rdata
      /\ conv'.state = CASE conv.state = "idle" /\ conv.shown.op = "read" -> "readAddress"
                  [] conv.state = "idle" /\ conv.shown.op = "write" -> "writeAddress"
                  [] conv.state = "readAddress" -> "readData"
                  [] conv.state = "writeAddress" -> "writeData"
                  [] conv.state = "writeData" -> "writeResponse"
                  [] OTHER -> "idle"
      /\ conv' = [state |-> conv'.state, req |-> conv'.req, shown |-> conv'.shown, rdata |-> conv'.rdata]
    BY ControlNext, Zenon
<1>6. NoReq.op = "none"
    BY DEF NoReq
<1>7. conv.req \in Requests \cup {NoReq} /\ conv.shown \in Requests \cup {NoReq}
    BY <1>2 DEF HostTyped
<1>8. /\ conv'.req \in Requests \cup {NoReq} /\ conv'.shown \in Requests \cup {NoReq}
      /\ conv'.state \in {"idle", "readAddress", "writeAddress", "readData", "writeData", "writeResponse"}
      /\ conv'.state \in {"writeAddress", "writeData"} => conv'.req.op = "write"
      /\ conv'.state = "readAddress" => conv'.req.op = "read"
    <2>1. conv'.req \in Requests \cup {NoReq} /\ conv'.shown \in Requests \cup {NoReq}
        BY <1>3, <1>5, <1>7
    <2>2. conv'.state \in {"idle", "readAddress", "writeAddress", "readData", "writeData", "writeResponse"}
        BY <1>5
    <2>3. ASSUME conv'.state \in {"writeAddress", "writeData"}
          PROVE  conv'.req.op = "write"
        <3>1. \/ conv.state = "idle" /\ conv.shown.op = "write"
              \/ conv.state = "writeAddress" /\ conv.req.op = "write"
            BY <2>3, <1>2, <1>5 DEF HostTyped
        <3> QED
            BY <3>1, <1>5, <1>6
    <2>4. ASSUME conv'.state = "readAddress"
          PROVE  conv'.req.op = "read"
        <3>1. conv.state = "idle" /\ conv.shown.op = "read"
            BY <2>4, <1>5
        <3> QED
            BY <3>1, <1>5, <1>6
    <2> QED
        BY <2>1, <2>2, <2>3, <2>4
<1>9. conv'.rdata \in Nat
    <2>1. ASSUME conv.state = "readAddress"
          PROVE  reg[conv.req.addr] \in Nat
        <3>1. conv.req.op = "read"
            BY <2>1, <1>2 DEF HostTyped
        <3>2. conv.req \in Requests
            BY <3>1, <1>6, <1>7
        <3>3. conv.req.addr \in {"ctrl", "beats"}
            BY <3>1, <3>2 DEF Requests, Read, Write
        <3> QED
            BY <3>3, <1>2 DEF HostTyped
    <2> QED
        BY <2>1, <1>2, <1>5 DEF HostTyped
<1>10. answers' \in Seq(Nat)
    <2>1. answers \in Seq(Nat) /\ conv.rdata \in Nat
        BY <1>2 DEF HostTyped
    <2>2. Append(answers, conv.rdata) \in Seq(Nat)
        BY <2>1, AppendProperties
    <2> QED
        BY <2>1, <2>2 DEF HostDPI
<1>11. /\ reg'.ctrl \in 0..2 /\ reg'.base \in {0} \cup Bases /\ reg'.beats \in Nat
       /\ reg' = [ctrl |-> reg'.ctrl, base |-> reg'.base, beats |-> reg'.beats]
       /\ reg'.base = IF conv.state = "writeData" /\ conv.req.addr = "base" THEN conv.req.value ELSE reg.base
       /\ core.phase = "finished" => reg'.ctrl = 2
       /\ core.phase # "finished" =>
            reg'.ctrl = IF conv.state = "writeData" /\ conv.req.addr = "ctrl" THEN 1 ELSE reg.ctrl
    <2>1. /\ conv.state = "writeData" => conv.req \in Requests /\ conv.req.op = "write"
          /\ reg'.base = IF conv.state = "writeData" /\ conv.req.addr = "base" THEN conv.req.value ELSE reg.base
          /\ reg'.ctrl = IF core.phase = "finished" THEN 2
                         ELSE IF conv.state = "writeData" /\ conv.req.addr = "ctrl" THEN 1 ELSE reg.ctrl
          /\ reg'.beats = IF core.phase = "finish" THEN vme.beats ELSE reg.beats
          /\ reg' = [ctrl |-> reg'.ctrl, base |-> reg'.base, beats |-> reg'.beats]
        BY ControlNext, Zenon
    <2>2. reg.ctrl \in 0..2 /\ reg.base \in {0} \cup Bases /\ reg.beats \in Nat /\ vme.beats \in Nat
        BY <1>2 DEF HostTyped, MemTyped
    <2>3. conv.state = "writeData" /\ conv.req.addr = "base" => conv.req.value \in Bases
        BY <1>2, <2>1, KnownBases
    <2> QED
        BY <2>1, <2>2, <2>3
<1>12. HostTyped'
    <2>1. launchBefore' \in BOOLEAN
        BY DEF Launch
    <2>2. conv' \in [state : {"idle", "readAddress", "writeAddress", "readData", "writeData",
                          "writeResponse"},
                 req : Requests \cup {NoReq}, shown : Requests \cup {NoReq}, rdata : Nat]
        BY <1>5, <1>8, <1>9
    <2>3. reg' \in [ctrl : 0..2, base : {0} \cup Bases, beats : Nat]
        BY <1>11
    <2> QED
        BY <1>1, <1>2, <1>4, <1>8, <1>10, <2>1, <2>2, <2>3 DEF HostTyped
<1>13. ASSUME reg'.base = 0
       PROVE  /\ reg'.ctrl = 0
              /\ \A q \in {conv'.req, conv'.shown} : q = NoReq \/ q.addr = "base"
              /\ \/ BaseComes'
                 \/ /\ pc' \in Between \cup {"resume", "base"} /\ reqs' = <<>>
                    /\ conv'.state = "idle" /\ conv'.req = NoReq /\ conv'.shown = NoReq
    <2>1. conv.state = "writeData" => conv.req \in Requests
        BY <1>2, <1>6, <1>7 DEF HostTyped
    <2>2. reg.base = 0 /\ ~(conv.state = "writeData" /\ conv.req.addr = "base")
        <3>1. conv.state = "writeData" /\ conv.req.addr = "base" => conv.req.value # 0
            BY <2>1, <1>2, KnownBases
        <3> QED
            BY <3>1, <1>11, <1>13
    <2>3. /\ reg.ctrl = 0
          /\ \A q \in {conv.req, conv.shown} : q = NoReq \/ q.addr = "base"
          /\ \/ reqs # <<>> /\ Head(reqs).addr = "base"
             \/ /\ pc \in Between \cup {"resume", "base"} /\ reqs = <<>>
                /\ conv.state = "idle" /\ conv.req = NoReq /\ conv.shown = NoReq
        BY <2>2 DEF Control, BaseFirst, BaseComes
    <2>4. conv.state # "writeData" /\ conv.state # "readAddress"
        <3>1. conv.state = "readAddress" => conv.req.op = "read" /\ conv.req \in Requests
            BY <1>2, <1>6, <1>7 DEF HostTyped
        <3>2. conv.state = "readAddress" => conv.req.addr # "base" /\ conv.req # NoReq
            BY <3>1, <1>2, KnownBases
        <3>3. conv.state = "writeData" => conv.req # NoReq
            BY <2>1, <1>2, KnownBases
        <3> QED
            BY <3>2, <3>3, <2>2, <2>3
    <2>5. reg'.ctrl = 0
        BY <2>2, <2>3, <2>4, <1>11 DEF Control, Launched
    <2>6. CASE reqs # <<>> /\ Head(reqs).addr = "base"
        <3>1. \A q \in {conv'.req, conv'.shown} : q = NoReq \/ q.addr = "base"
            BY <2>3, <2>6, <1>5
        <3>2. CASE conv.state = "writeAddress"
            <4>1. conv'.state = "writeData" /\ conv'.req = conv.req /\ conv.req.op = "write"
                BY <3>2, <1>2, <1>5 DEF HostTyped
            <4>2. conv'.req.addr = "base"
                BY <4>1, <1>6, <2>3
            <4> QED
                BY <4>1, <4>2, <3>1, <2>5 DEF BaseComes
        <3>3. CASE conv.state # "writeAddress"
            <4>1. reqs' = reqs
                BY <3>3, <2>4 DEF HostDPI, Deq
            <4> QED
                BY <4>1, <3>1, <2>5, <2>6 DEF BaseComes
        <3> QED
            BY <3>2, <3>3
    <2>7. CASE /\ pc \in Between \cup {"resume", "base"} /\ reqs = <<>>
               /\ conv.state = "idle" /\ conv.req = NoReq /\ conv.shown = NoReq
        BY <2>5, <2>7, <1>5, <1>6 DEF HostDPI
    <2> QED
        BY <2>3, <2>6, <2>7
<1> QED
    BY <1>12, <1>13 DEF BaseFirst

LEMMA ClockControl ==
    ASSUME Control, MemTyped, NEW ask \in SUBSET core.quiet, NEW take \in SUBSET Takers,
           NEW data \in BOOLEAN, Clock(ask, take, data), \A c \in Client : resps[c] = <<>> \/ core.base # 0
    PROVE  Control'
<1>1. HostTyped' /\ BaseFirst'
    BY ConvertedControl DEF Clock
<1>4. /\ core'.phase = IF Starts THEN "read" ELSE NextPhase
      /\ core'.base = IF Starts THEN reg.base ELSE core.base
      /\ core'.got = IF Starts THEN [c \in Client |-> <<>>]
                     ELSE [c \in Client |-> IF c \in take THEN Append(core.got[c], Head(resps[c]))
                                            ELSE core.got[c]]
    BY CoreNext
<1>5. Bases' = Bases
    BY DEF Clock, host, Bases
<1>6. Starts => core.phase = "idle" /\ reg.base \in Bases /\ reg.base # 0 /\ reg.ctrl = 1
    BY DEF Starts, Launch, Control, Launched, BaseFirst, HostTyped
<1>7. ASSUME core'.phase # "idle"
      PROVE  reg'.ctrl = 1 /\ launchBefore'
    <2>1. core.phase # "finished" /\ reg.ctrl = 1
        BY <1>4, <1>6, <1>7 DEF Control, Launched, NextPhase
    <2>2. conv.state = "writeData" /\ conv.req.addr = "ctrl" => conv.req.value = 1
        <3>1. conv.state = "writeData" => conv.req.op = "write" /\ conv.req \in Requests \cup {NoReq}
            BY DEF Control, HostTyped
        <3> QED
            BY <3>1, KnownBases DEF NoReq, Control
    <2>3. reg'.ctrl = 1
        BY <2>1, <2>2 DEF Clock, Registers, Control, HostTyped
    <2> QED
        BY <2>1, <2>3 DEF Clock, Launch
<1>8. Launched'
    <2>1. CASE Starts
        BY <2>1, <1>4, <1>5, <1>6, <1>7 DEF Launched
    <2>2. CASE ~Starts /\ core.base # 0
        BY <2>2, <1>4, <1>5, <1>7 DEF Control, Launched
    <2>3. CASE ~Starts /\ core.base = 0
        <3>1. take = {}
            BY <2>3 DEF Takers
        <3>2. core'.phase = "idle"
            BY <2>3, <1>4 DEF Control, Launched, NextPhase
        <3> QED
            BY <2>3, <3>1, <3>2, <1>4 DEF Control, Launched
    <2> QED
        BY <2>1, <2>2, <2>3
<1> QED
    BY <1>1, <1>8 DEF Control

--------------------------------------------------------------------------------
(* The memory path.  A client of the run has asked for nothing yet, or     *)
(* holds a slot, or has all its beats.  A slot counts down the beats its   *)
(* client has still to receive; MemDevice serves one slot at a time.       *)

Received(c) == Len(core.got[c]) + Len(resps[c])
Busy == Slot \ vme.free

Counted ==
    /\ core.quiet \cap core.asks = {}
    /\ \A c \in core.quiet \cup core.asks : Received(c) = 0
    /\ \A c \in Client : Received(c) <= Burst
    /\ \A s \in Busy : /\ vme.owner[s] \in Client \ (core.quiet \cup core.asks)
                       /\ Received(vme.owner[s]) = IF s \in vme.issued THEN Burst - vme.left[s] ELSE 0
    /\ \A s, t \in Busy : vme.owner[s] = vme.owner[t] => s = t

\* The request of a slot.
AsksFor(q, s) == q = [addr |-> Source(core.base, vme.owner[s]), len |-> BurstLen, id |-> s]
Waiting(s) == \E k \in 1..Len(bridge.queue) : bridge.queue[k].id = s
Tracked ==
    /\ vme.issued \subseteq Busy
    /\ \A s \in vme.issued : vme.left[s] \in 1..Burst
    /\ vme.ar # None => vme.ar.id \in Busy \ vme.issued /\ AsksFor(vme.ar, vme.ar.id)
    /\ \A k \in 1..Len(bridge.queue) :
          /\ bridge.queue[k].id \in vme.issued /\ AsksFor(bridge.queue[k], bridge.queue[k].id)
          /\ vme.left[bridge.queue[k].id] = Burst
    /\ \A j, k \in 1..Len(bridge.queue) : bridge.queue[j].id = bridge.queue[k].id => j = k

\* The bridge, MemDevice and the outputs of VTAMemDPI.v agree on the beat.
Serving ==
    LET s == bridge.ar.id IN
    IF bridge.r = "data"
    THEN /\ s \in vme.issued /\ ~Waiting(s)
         /\ vme.left[s] = bridge.ar.len + 1 /\ mdev.rlen = bridge.ar.len + 1 /\ mdev.rid = s
         /\ mdev.raddr = Source(core.base, vme.owner[s]) + (Burst - vme.left[s]) * Blk
         /\ shown = [valid |-> TRUE, id |-> s, data |-> [i \in 1..Blk |-> dram[mdev.raddr + i - 1]]]
    ELSE mdev.rlen = 0 /\ ~shown.valid

Beats0(c) == core.got[c] \o resps[c]
Arrived ==
    \A c \in Client : \A n \in 1..Received(c) :
        Beats0(c)[n] = [i \in 1..Blk |-> dram[Source(core.base, c) + (n - 1) * Blk + i - 1]]

\* Outside its read phase the core has no reads under way.
Resting ==
    /\ core.phase # "read" => /\ vme.free = Slot /\ core.quiet = {} /\ core.asks = {}
                             /\ \A c \in Client : resps[c] = <<>>
    /\ core.phase \in {"write", "finish", "finished"} => \A c \in Client : Len(core.got[c]) = Burst

\* The write burst, and how far it has come.
Writing ==
    /\ core.phase # "write" => vme.w = "idle" /\ bridge.w = "idle"
    /\ core.phase = "write" => <<vme.w, bridge.w>> \in {<<"idle", "idle">>, <<"addr", "idle">>,
                                 <<"addr", "addr">>, <<"data", "data">>, <<"resp", "resp">>}
    /\ bridge.w = "addr" => bridge.awBefore /\ bridge.aw = [addr |-> Target(core.base), len |-> Beats - 1, id |-> 0]
    /\ IF vme.w = "data"
       THEN /\ vme.sent \in 0..Beats - 1 /\ mdev.wlen = Beats - vme.sent
            /\ mdev.waddr = Target(core.base) + vme.sent * Blk
       ELSE mdev.wlen = 0
    /\ vme.w = "addr" => vme.sent = 0

Memory == MemTyped /\ Counted /\ Tracked /\ Serving /\ Arrived /\ Resting /\ Writing
Inv == Control /\ Memory

\* The words a client reads belong to the run that the core works on.
LEMMA SourceStays ==
    ASSUME Control, core.base # 0, NEW c \in Client, NEW n \in 0..BurstLen, NEW i \in 1..Blk
    PROVE  LET a == Source(core.base, c) + n * Blk + i - 1 IN
           a \in Words /\ a < Target(core.base) /\ \A q \in run + 1..MaxRuns : a \notin Source1(q)
<1> DEFINE a == Source(core.base, c) + n * Blk + i - 1
<1>1. PICK r \in 1..run : core.base = Base(r)
    BY DEF Control, Launched, Bases
<1>2. run \in 0..MaxRuns /\ MaxRuns \in Nat
    BY Sizes DEF Control, HostTyped
<1>3. r \in 1..MaxRuns
    BY <1>1, <1>2
<1>4. core.base \in Nat \ {0} /\ core.base + AreaWords <= MaxRuns * AreaWords + 1
    BY <1>1, <1>3, AreasApart
<1>5. a \in Nat /\ core.base <= a /\ a < Target(core.base)
    <2>1. i \in 1..Blk /\ Blk \in Nat
        BY Sizes
    <2>2. Target(core.base) \in Nat
        BY <1>4, Sizes DEF Target
    <2> QED
        BY <1>4, <2>1, <2>2, SourceBeats
<1>6. Target(core.base) = core.base + Beats * Blk /\ Target(core.base) < core.base + AreaWords
    BY <1>4, Sizes DEF Target
<1>7. MaxRuns * AreaWords \in Nat
    BY <1>2, Sizes
<1>8. a \in Words
    BY <1>4, <1>5, <1>6, <1>7, Sizes DEF Words
<1>9. ASSUME NEW q \in run + 1..MaxRuns
      PROVE  a \notin Source1(q)
    <2>1. q \in 1..MaxRuns /\ r \in 1..q - 1
        BY <1>2
    <2>2. Base(r) + AreaWords <= Base(q) /\ Base(q) \in Nat
        BY <2>1, AreasApart
    <2>3. a < Base(q)
        BY <2>2, <1>1, <1>4, <1>5, <1>6, Sizes
    <2> QED
        BY <2>2, <2>3, <1>5, Sizes DEF Source1
<1> QED
    BY <1>5, <1>8, <1>9

LEMMA Counts ==
    ASSUME MemTyped, NEW c \in Client
    PROVE  /\ core.got[c] \in Seq(Data) /\ resps[c] \in Seq(Data)
           /\ Len(core.got[c]) \in Nat /\ Len(resps[c]) \in Nat /\ Received(c) \in Nat
           /\ Received(c) = Len(core.got[c]) + Len(resps[c])
           /\ core.got[c] = <<>> /\ resps[c] = <<>> => Received(c) = 0
           /\ Beats0(c) \in Seq(Data) /\ Len(Beats0(c)) = Received(c)
<1>1. core.got[c] \in Seq(Data) /\ resps[c] \in Seq(Data)
    BY DEF MemTyped
<1>2. Len(core.got[c]) \in Nat /\ Len(resps[c]) \in Nat
    BY <1>1, LenProperties
<1>3. core.got[c] = <<>> /\ resps[c] = <<>> => Len(core.got[c]) = 0 /\ Len(resps[c]) = 0
    OBVIOUS
<1>4. Beats0(c) \in Seq(Data) /\ Len(Beats0(c)) = Len(core.got[c]) + Len(resps[c])
    BY <1>1, ConcatProperties DEF Beats0
<1>5. Received(c) = Len(core.got[c]) + Len(resps[c])
    BY DEF Received
<1>6. Received(c) \in Nat /\ (core.got[c] = <<>> /\ resps[c] = <<>> => Received(c) = 0)
    <2> DEFINE l == Len(core.got[c])
               m == Len(resps[c])
    <2>1. l \in Nat /\ m \in Nat /\ Received(c) = l + m
        BY <1>2, <1>5
    <2>2. core.got[c] = <<>> /\ resps[c] = <<>> => l = 0 /\ m = 0
        BY <1>3
    <2> HIDE DEF l, m
    <2>3. Received(c) \in Nat
        BY <2>1
    <2>4. l = 0 /\ m = 0 => Received(c) = 0
        BY <2>1
    <2> QED
        BY <2>2, <2>3, <2>4
<1> QED
    BY <1>1, <1>2, <1>4, <1>5, <1>6

\* What a client has received, or MemDevice shows, stays as long as the words
\* of its source do.
SourceKept ==
    \A c \in Client, n \in 0..BurstLen, i \in 1..Blk : core.base # 0 =>
        LET a == Source(core.base, c) + n * Blk + i - 1 IN dram'[a] = dram[a]

LEMMA SameSource ==
    ASSUME Inv, UNCHANGED memPath, dram' \in [Words -> Int], SourceKept
    PROVE  Memory'
<1> USE DEF memPath
<1>1. MemTyped' /\ Counted' /\ Resting' /\ Writing' /\ Tracked'
    <2>1. MemTyped'
        BY DEF Inv, Memory, MemTyped
    <2>2. Counted'
        BY DEF Inv, Memory, Counted, Busy, Received
    <2>4. Resting' /\ Writing'
        BY DEF Inv, Memory, Resting, Writing
    <2>5. Tracked'
        BY DEF Inv, Memory, Tracked, AsksFor, Busy
    <2> QED
        BY <2>1, <2>2, <2>4, <2>5
<1>2. Serving'
    <2>1. CASE bridge.r = "data"
        <3> DEFINE s == bridge.ar.id
        <3>1. s \in vme.issued /\ s \in Busy /\ vme.left[s] \in 1..Burst
            BY <2>1 DEF Inv, Memory, Serving, Tracked
        <3>2. vme.owner[s] \in Client
            BY <3>1 DEF Inv, Memory, Counted
        <3>3. Burst - vme.left[s] \in 0..BurstLen
            BY <3>1, Sizes
        <3>4. core.base # 0
            BY <3>1 DEF Inv, Memory, Resting, Control, Launched, Busy
        <3>5. \A i \in 1..Blk : dram'[mdev.raddr + i - 1] = dram[mdev.raddr + i - 1]
            BY <2>1, <3>2, <3>3, <3>4 DEF Inv, Memory, Serving, SourceKept
        <3>6. [i \in 1..Blk |-> dram'[mdev.raddr + i - 1]] = [i \in 1..Blk |-> dram[mdev.raddr + i - 1]]
            BY <3>5
        <3> QED
            BY <2>1, <3>6 DEF Inv, Memory, Serving, Waiting
    <2>2. CASE bridge.r # "data"
        BY <2>2 DEF Inv, Memory, Serving
    <2> QED
        BY <2>1, <2>2
<1>3. Arrived'
    <2>1. ASSUME NEW c \in Client, NEW n \in 1..Received(c)
          PROVE  Beats0(c)'[n] = [i \in 1..Blk |-> dram'[Source(core.base, c) + (n - 1) * Blk + i - 1]]
        <3>1. Received(c) \in Nat /\ Received(c) <= Burst
            BY Counts DEF Inv, Memory, Counted
        <3>3. n - 1 \in 0..BurstLen /\ Received(c) # 0
            BY <3>1, Sizes
        <3>4. core.base # 0
            <4>1. core.base = 0 => core.got[c] = <<>> /\ resps[c] = <<>>
                BY DEF Inv, Memory, Control, Launched, Resting
            <4> QED
                BY <4>1, <3>3, Counts, Zenon DEF Inv, Memory
        <3>5. \A i \in 1..Blk : dram'[Source(core.base, c) + (n - 1) * Blk + i - 1]
                                  = dram[Source(core.base, c) + (n - 1) * Blk + i - 1]
            BY <3>3, <3>4 DEF SourceKept
        <3>6. Beats0(c)[n] = [i \in 1..Blk |-> dram[Source(core.base, c) + (n - 1) * Blk + i - 1]]
            BY DEF Inv, Memory, Arrived
        <3> QED
            BY <3>5, <3>6 DEF Beats0
    <2>2. \A c \in Client : Received(c)' = Received(c)
        BY DEF Received
    <2> QED
        BY <2>1, <2>2 DEF Arrived
<1> QED
    BY <1>1, <1>2, <1>3 DEF Memory

LEMMA HostMemory ==
    ASSUME Inv, HostStep
    PROVE  Memory'
<1> USE DEF host, queues, hardware, SameRun
<1>1. CASE StartRun
    <2>1. /\ UNCHANGED memPath /\ run' = run + 1 /\ run' \in run + 1..MaxRuns
          /\ dram' = [a \in DOMAIN dram |-> IF a \in Source1(run') THEN a ELSE dram[a]]
        BY <1>1, Sizes DEF StartRun, Inv, Control, HostTyped
    <2>2. dram \in [Words -> Int] /\ DOMAIN dram = Words
        BY DEF Inv, Memory, MemTyped
    <2>3. Words \subseteq Int
        BY DEF Words
    <2>4. dram' \in [Words -> Int]
        BY <2>1, <2>2, <2>3
    <2>5. ASSUME NEW c \in Client, NEW n \in 0..BurstLen, NEW i \in 1..Blk, core.base # 0
          PROVE  LET a == Source(core.base, c) + n * Blk + i - 1 IN dram'[a] = dram[a]
        BY <2>1, <2>2, <2>5, SourceStays DEF Inv
    <2> QED
        BY <2>1, <2>4, <2>5, SameSource DEF SourceKept
<1>2. CASE ~StartRun
    <2>1. UNCHANGED <<memPath, dram>>
        BY <1>2 DEF HostStep, SimLaunch, InitWaits, Resumes, SetWait, WriteBase, WriteStart, ReadDone, Push,
                    GiveUp, Polled, ReadCounter, Update, RunWaits, ClearAll, ExitResumes, SimFinish, Joined
    <2>2. dram' \in [Words -> Int]
        BY <2>1 DEF Inv, Memory, MemTyped
    <2> QED
        BY <2>1, <2>2, SameSource DEF SourceKept
<1> QED
    BY <1>1, <1>2

--------------------------------------------------------------------------------
(* A cycle of the clock.                                                   *)

LEMMA BridgeNext ==
    ASSUME MemTyped, NEW ask, NEW take, NEW data \in BOOLEAN, Clock(ask, take, data), ReadDelay = 0
    PROVE  /\ bridge'.queue = (IF DeqFire THEN Tail(bridge.queue) ELSE bridge.queue)
                                \o (IF ArFire THEN <<vme.ar>> ELSE <<>>)
           /\ bridge'.r = IF DeqFire THEN "data"
                          ELSE IF bridge.r = "data" /\ RReady /\ RLast THEN "idle" ELSE bridge.r
           /\ bridge'.ar = IF DeqFire THEN Head(bridge.queue)
                           ELSE IF RFire /\ bridge.ar.len # 0
                                THEN [addr |-> bridge.ar.addr, len |-> bridge.ar.len - 1, id |-> bridge.ar.id]
                                ELSE bridge.ar
           /\ bridge'.delay = 0
           /\ bridge'.w = CASE bridge.w = "idle" -> IF vme.w = "addr" THEN "addr" ELSE "idle"
                            [] bridge.w = "addr" -> IF vme.w = "addr" THEN "data" ELSE "addr"
                            [] bridge.w = "data" -> IF WrValid(data) /\ WLast THEN "resp" ELSE "data"
                            [] OTHER -> IF vme.w = "resp" THEN "idle" ELSE bridge.w
           /\ bridge'.aw = IF bridge.w = "idle" /\ vme.w = "addr"
                           THEN [addr |-> Target(core.base), len |-> Beats - 1, id |-> 0] ELSE bridge.aw
           /\ bridge'.awBefore = (vme.w = "addr")
           /\ bridge' = [queue |-> bridge'.queue, r |-> bridge'.r, ar |-> bridge'.ar, delay |-> bridge'.delay,
                         w |-> bridge'.w, aw |-> bridge'.aw, awBefore |-> bridge'.awBefore]
<1> DEFINE q == (IF DeqFire THEN Tail(bridge.queue) ELSE bridge.queue)
                  \o (IF ArFire THEN <<vme.ar>> ELSE <<>>)
           r == IF DeqFire THEN "data" ELSE IF bridge.r = "data" /\ RReady /\ RLast THEN "idle" ELSE bridge.r
           a == IF DeqFire THEN Head(bridge.queue)
                ELSE IF RFire /\ bridge.ar.len # 0
                     THEN [addr |-> bridge.ar.addr, len |-> bridge.ar.len - 1, id |-> bridge.ar.id]
                     ELSE bridge.ar
           d == IF DeqFire THEN ReadDelay ELSE IF bridge.delay > 0 THEN bridge.delay - 1 ELSE 0
           b == BridgeRead(bridge)
<1>1. bridge = [queue |-> bridge.queue, r |-> bridge.r, ar |-> bridge.ar, delay |-> bridge.delay,
                w |-> bridge.w, aw |-> bridge.aw, awBefore |-> bridge.awBefore]
    BY DEF MemTyped
<1>2. b = [queue |-> q, r |-> r, ar |-> a, delay |-> d,
           w |-> bridge.w, aw |-> bridge.aw, awBefore |-> bridge.awBefore]
    <2>1. b = [bridge EXCEPT !.queue = q, !.r = r, !.ar = a, !.delay = d]
        BY DEF BridgeRead
    <2> HIDE DEF q, r, a, d, b
    <2> QED
        BY <2>1, <1>1
<1>3. bridge.delay = 0
    BY DEF MemTyped
<1>5. bridge' = BridgeWrite(b, data)
    BY DEF Clock, MemCycle
<1>7. d = 0
    BY <1>3
<1> HIDE DEF q, r, a, d, b
<1>6. /\ bridge'.queue = q /\ bridge'.r = r /\ bridge'.ar = a /\ bridge'.delay = d
      /\ bridge'.w = CASE bridge.w = "idle" -> IF vme.w = "addr" THEN "addr" ELSE bridge.w
                       [] bridge.w = "addr" -> IF vme.w = "addr" THEN "data" ELSE bridge.w
                       [] bridge.w = "data" -> IF WrValid(data) /\ WLast THEN "resp" ELSE bridge.w
                       [] OTHER -> IF vme.w = "resp" THEN "idle" ELSE bridge.w
      /\ bridge'.aw = IF bridge.w = "idle" /\ vme.w = "addr"
                      THEN [addr |-> Target(core.base), len |-> Beats - 1, id |-> 0] ELSE bridge.aw
      /\ bridge'.awBefore = (vme.w = "addr")
      /\ bridge' = [queue |-> bridge'.queue, r |-> bridge'.r, ar |-> bridge'.ar, delay |-> bridge'.delay,
                         w |-> bridge'.w, aw |-> bridge'.aw, awBefore |-> bridge'.awBefore]
    BY <1>2, <1>5 DEF BridgeWrite
<1> QED
    BY <1>6, <1>7 DEF q, r, a

LEMMA VmeNext ==
    ASSUME MemTyped, NEW ask, NEW take, NEW data \in BOOLEAN, Clock(ask, take, data)
    PROVE  /\ vme'.ar = IF Issue THEN [addr |-> Source(core.base, Min(core.asks)), len |-> BurstLen,
                                       id |-> Min(vme.free)]
                        ELSE IF ArFire THEN None ELSE vme.ar
           /\ vme'.owner = IF Issue THEN [vme.owner EXCEPT ![Min(vme.free)] = Min(core.asks)] ELSE vme.owner
           /\ vme'.free = (vme.free \cup Freed) \ (IF Issue THEN {Min(vme.free)} ELSE {})
           /\ vme'.issued = (vme.issued \cup (IF ArFire THEN {vme.ar.id} ELSE {})) \ Freed
           /\ vme'.left = [t \in Slot |->
                  IF RFire /\ t = shown.id
                  THEN (IF ArFire /\ vme.ar.id = t THEN vme.ar.len + 1 ELSE vme.left[t]) - 1
                  ELSE IF ArFire /\ vme.ar.id = t THEN vme.ar.len + 1 ELSE vme.left[t]]
           /\ vme'.beats = IF ~Launch THEN 0 ELSE IF RFire THEN vme.beats + 1 ELSE vme.beats
           /\ vme'.w = CASE vme.w = "idle" -> IF core.phase = "write" THEN "addr" ELSE "idle"
                         [] vme.w = "addr" -> IF bridge.w = "addr" THEN "data" ELSE "addr"
                         [] vme.w = "data" -> IF WrValid(data) /\ WLast THEN "resp" ELSE "data"
                         [] OTHER -> IF Ack THEN "idle" ELSE vme.w
           /\ vme'.sent = IF vme.w = "idle" THEN 0 ELSE IF WrValid(data) THEN vme.sent + 1 ELSE vme.sent
           /\ vme' = [ar |-> vme'.ar, free |-> vme'.free, issued |-> vme'.issued, owner |-> vme'.owner,
                      left |-> vme'.left, w |-> vme'.w, sent |-> vme'.sent, beats |-> vme'.beats]
<1> DEFINE ar == IF Issue THEN [addr |-> Source(core.base, Min(core.asks)), len |-> BurstLen,
                               id |-> Min(vme.free)]
                 ELSE IF ArFire THEN None ELSE vme.ar
           owner == IF Issue THEN [vme.owner EXCEPT ![Min(vme.free)] = Min(core.asks)] ELSE vme.owner
           free == (vme.free \cup Freed) \ (IF Issue THEN {Min(vme.free)} ELSE {})
           issued == (vme.issued \cup (IF ArFire THEN {vme.ar.id} ELSE {})) \ Freed
           left == [t \in Slot |->
                  IF RFire /\ t = shown.id
                  THEN (IF ArFire /\ vme.ar.id = t THEN vme.ar.len + 1 ELSE vme.left[t]) - 1
                  ELSE IF ArFire /\ vme.ar.id = t THEN vme.ar.len + 1 ELSE vme.left[t]]
           beats == IF ~Launch THEN 0 ELSE IF RFire THEN vme.beats + 1 ELSE vme.beats
           v == VmeRead(vme, Launch)
<1>1. vme = [ar |-> vme.ar, free |-> vme.free, issued |-> vme.issued, owner |-> vme.owner,
             left |-> vme.left, w |-> vme.w, sent |-> vme.sent, beats |-> vme.beats]
    BY DEF MemTyped
<1>2. v = [ar |-> ar, free |-> free, issued |-> issued, owner |-> owner,
           left |-> left, w |-> vme.w, sent |-> vme.sent, beats |-> beats]
    <2>1. v = [vme EXCEPT !.ar = ar, !.owner = owner, !.free = free, !.issued = issued, !.left = left,
                          !.beats = beats]
        BY Zenon DEF VmeRead
    <2> HIDE DEF ar, owner, free, issued, left, beats, v
    <2> QED
        BY <2>1, <1>1
<1>3. vme' = VmeWrite(v, data)
    BY DEF Clock, MemCycle
<1> HIDE DEF ar, owner, free, issued, left, beats, v
<1>4. /\ vme'.ar = ar /\ vme'.owner = owner /\ vme'.free = free /\ vme'.issued = issued
      /\ vme'.left = left /\ vme'.beats = beats
      /\ vme'.w = CASE vme.w = "idle" -> IF core.phase = "write" THEN "addr" ELSE "idle"
                    [] vme.w = "addr" -> IF bridge.w = "addr" THEN "data" ELSE "addr"
                    [] vme.w = "data" -> IF WrValid(data) /\ WLast THEN "resp" ELSE "data"
                    [] OTHER -> IF Ack THEN "idle" ELSE vme.w
      /\ vme'.sent = IF vme.w = "idle" THEN 0 ELSE IF WrValid(data) THEN vme.sent + 1 ELSE vme.sent
      /\ vme' = [ar |-> vme'.ar, free |-> vme'.free, issued |-> vme'.issued, owner |-> vme'.owner,
                 left |-> vme'.left, w |-> vme'.w, sent |-> vme'.sent, beats |-> vme'.beats]
    BY <1>2, <1>3 DEF VmeWrite
<1> QED
    BY <1>4 DEF ar, owner, free, issued, left, beats

\* What the wires mean when the invariant holds.
LEMMA Events ==
    ASSUME Inv, ReadDelay = 0
    PROVE  /\ Issue => /\ core.asks # {} /\ Min(core.asks) \in core.asks /\ Min(core.asks) \in Client
                       /\ Min(vme.free) \in vme.free /\ Min(vme.free) \in Slot /\ vme.ar = None
           /\ ArFire => vme.ar.id \in Busy \ vme.issued /\ AsksFor(vme.ar, vme.ar.id)
           /\ DeqFire => /\ bridge.queue # <<>> /\ bridge.r = "idle" /\ 1 \in 1..Len(bridge.queue)
                         /\ Head(bridge.queue) = bridge.queue[1]
                         /\ Head(bridge.queue).id \in vme.issued
                         /\ AsksFor(Head(bridge.queue), Head(bridge.queue).id)
           /\ RFire <=> bridge.r = "data" /\ RReady
           /\ RdReady <=> RFire
           /\ RFire => bridge.ar.id \in vme.issued /\ shown.id = bridge.ar.id
           /\ ArValid <=> DeqFire
           /\ core.phase # "read" => ~Issue /\ ~ArFire /\ ~DeqFire /\ ~RFire /\ bridge.queue = <<>>
                                     /\ bridge.r = "idle" /\ Busy = {}
           /\ core.phase = "read" => core.base # 0
           /\ vme.issued \subseteq Busy /\ Busy \subseteq Slot
<1>1. vme.issued \subseteq Busy /\ Busy \subseteq Slot
    BY DEF Inv, Memory, Tracked, Busy
<1>2. ASSUME Issue
      PROVE  /\ core.asks # {} /\ Min(core.asks) \in core.asks /\ Min(core.asks) \in Client
             /\ Min(vme.free) \in vme.free /\ Min(vme.free) \in Slot /\ vme.ar = None
    <2>1. core.asks \in SUBSET Client /\ vme.free \in SUBSET Slot
        BY DEF Inv, Memory, MemTyped
    <2>2. Client \subseteq Nat /\ Slot \subseteq Nat
        BY Sizes DEF Client, Slot
    <2>3. core.asks # {} /\ vme.free # {} /\ vme.ar = None
        BY <1>2 DEF Issue
    <2> QED
        BY <2>1, <2>2, <2>3, MinInSet
<1>3. ASSUME ArFire
      PROVE  vme.ar.id \in Busy \ vme.issued /\ AsksFor(vme.ar, vme.ar.id)
    BY <1>3 DEF ArFire, Inv, Memory, Tracked
<1>4. ASSUME bridge.queue # <<>>
      PROVE  /\ 1 \in 1..Len(bridge.queue) /\ Head(bridge.queue) = bridge.queue[1]
             /\ Head(bridge.queue).id \in vme.issued
             /\ AsksFor(Head(bridge.queue), Head(bridge.queue).id)
    <2>1. bridge.queue \in Seq(Request0)
        BY DEF Inv, Memory, MemTyped
    <2>2. 1 \in 1..Len(bridge.queue) /\ Head(bridge.queue) = bridge.queue[1]
        BY <1>4, <2>1
    <2> QED
        BY <2>2 DEF Inv, Memory, Tracked
<1>5. RFire <=> bridge.r = "data" /\ RReady
    BY DEF RFire, RValid, Inv, Memory, Serving
<1>6. RFire => bridge.ar.id \in vme.issued /\ shown.id = bridge.ar.id
    BY <1>5 DEF Inv, Memory, Serving
<1>7. ASSUME core.phase # "read"
      PROVE  /\ ~Issue /\ ~ArFire /\ ~DeqFire /\ ~RFire /\ bridge.queue = <<>>
             /\ bridge.r = "idle" /\ Busy = {}
    <2>1. Busy = {} /\ core.asks = {}
        BY <1>7 DEF Inv, Memory, Resting, Busy
    <2>2. bridge.queue = <<>>
        BY <2>1, <1>1, <1>4
    <2>3. bridge.r # "data"
        BY <2>1, <1>1 DEF Inv, Memory, Serving
    <2>4. bridge.r = "idle"
        BY <2>3 DEF Inv, Memory, MemTyped
    <2> QED
        BY <2>1, <2>2, <2>4, <1>3, <1>5 DEF Issue, DeqFire
<1>8. core.phase = "read" => core.base # 0
    BY DEF Inv, Control, Launched
<1> QED
    BY <1>1, <1>2, <1>3, <1>4, <1>5, <1>6, <1>7, <1>8 DEF DeqFire, RdReady, ArValid

Writes(data) == WrValid(data) /\ mdev.wlen > 0

\* MemDevice after a cycle.
LEMMA DeviceNext ==
    ASSUME Inv, ReadDelay = 0, NEW ask, NEW take, NEW data \in BOOLEAN, Clock(ask, take, data)
    PROVE  /\ mdev'.rlen = IF DeqFire THEN BurstLen + 1 ELSE IF RFire THEN mdev.rlen - 1 ELSE mdev.rlen
           /\ mdev'.raddr = IF DeqFire THEN Head(bridge.queue).addr
                            ELSE IF RFire THEN mdev.raddr + Blk ELSE mdev.raddr
           /\ mdev'.rid = IF DeqFire THEN Head(bridge.queue).id ELSE mdev.rid
           /\ mdev'.wlen = IF Writes(data) THEN mdev.wlen - 1 ELSE IF AwValid THEN Beats ELSE mdev.wlen
           /\ mdev'.waddr = IF Writes(data) THEN mdev.waddr + Blk
                            ELSE IF AwValid THEN Target(core.base) ELSE mdev.waddr
           /\ mdev' = [raddr |-> mdev'.raddr, rlen |-> mdev'.rlen, rid |-> mdev'.rid,
                       waddr |-> mdev'.waddr, wlen |-> mdev'.wlen]
<1> DEFINE m1 == IF Writes(data) THEN WriteData(mdev) ELSE mdev
           rd == IF ArValid THEN [m1 EXCEPT !.raddr = Request.addr, !.rlen = RequestLen(Request),
                                        !.rid = IF Request.addr # 0 THEN Request.id ELSE @]
                 ELSE m1
           m2 == SetRequest(m1)
<1>1. mdev' = ReadData(m2)
    BY DEF Clock, MemCycle, MemDPI, Writes
<1>2. mdev \in [raddr : Int, rlen : Nat, rid : Nat, waddr : Int, wlen : Nat]
    BY DEF Inv, Memory, MemTyped
<1>3. /\ m1.raddr = mdev.raddr /\ m1.rlen = mdev.rlen /\ m1.rid = mdev.rid
      /\ m1.wlen = IF Writes(data) THEN mdev.wlen - 1 ELSE mdev.wlen
      /\ m1.waddr = IF Writes(data) THEN mdev.waddr + Blk ELSE mdev.waddr
      /\ m1 = [raddr |-> m1.raddr, rlen |-> m1.rlen, rid |-> m1.rid, waddr |-> m1.waddr, wlen |-> m1.wlen]
    BY <1>2 DEF WriteData
<1> HIDE DEF m1
<1>4. DeqFire => /\ Request = Head(bridge.queue) /\ Request.addr # 0 /\ RequestLen(Request) = BurstLen + 1
                 /\ Request.addr = Head(bridge.queue).addr /\ Request.id = Head(bridge.queue).id
    <2>1. ASSUME DeqFire
          PROVE  Head(bridge.queue).addr # 0 /\ Head(bridge.queue).len = BurstLen
        <3> DEFINE s == Head(bridge.queue).id
        <3>1. s \in Busy /\ AsksFor(Head(bridge.queue), s) /\ core.phase = "read" /\ core.base # 0
            BY <2>1, Events
        <3>2. vme.owner[s] \in Client /\ core.base \in Nat
            BY <3>1 DEF Inv, Memory, Counted, MemTyped
        <3>3. 0 \in 0..BurstLen /\ Source(core.base, vme.owner[s]) \in Nat
                /\ core.base <= Source(core.base, vme.owner[s])
            <4>1. 0 \in 0..BurstLen /\ 0 * Blk = 0
                BY Sizes
            <4>2. core.base <= Source(core.base, vme.owner[s]) + 0 * Blk
                BY <3>2, <4>1, SourceBeats
            <4>3. Source(core.base, vme.owner[s]) + 0 * Blk \in Nat
                BY <3>2, <4>1, SourceBeats
            <4>4. Source(core.base, vme.owner[s]) \in Nat
                <5>1. vme.owner[s] - 1 \in Nat
                    BY <3>2, Sizes DEF Client
                <5> QED
                    BY <5>1, <3>2, Sizes DEF Source
            <4> QED
                BY <4>1, <4>2, <4>3, <4>4
        <3> HIDE DEF s
        <3> QED
            BY <3>1, <3>2, <3>3 DEF AsksFor
    <2> QED
        BY <2>1 DEF Request, RequestLen
<1>5. /\ rd.raddr = IF DeqFire THEN Head(bridge.queue).addr ELSE mdev.raddr
      /\ rd.rlen = IF DeqFire THEN BurstLen + 1 ELSE mdev.rlen
      /\ rd.rid = IF DeqFire THEN Head(bridge.queue).id ELSE mdev.rid
      /\ rd.wlen = m1.wlen /\ rd.waddr = m1.waddr
      /\ rd = [raddr |-> rd.raddr, rlen |-> rd.rlen, rid |-> rd.rid, waddr |-> rd.waddr, wlen |-> rd.wlen]
    <2>1. ArValid <=> DeqFire
        BY Events
    <2>2. CASE DeqFire
        <3>1. rd = [m1 EXCEPT !.raddr = Request.addr, !.rlen = RequestLen(Request), !.rid = Request.id]
            BY <2>1, <2>2, <1>4
        <3> HIDE DEF rd
        <3> QED
            BY <2>2, <3>1, <1>3, <1>4
    <2>3. CASE ~DeqFire
        <3>1. rd = m1
            BY <2>1, <2>3
        <3> HIDE DEF rd
        <3> QED
            BY <2>3, <3>1, <1>3
    <2> QED
        BY <2>2, <2>3
<1>6. m2 = IF AwValid THEN [rd EXCEPT !.waddr = bridge.aw.addr, !.wlen = RequestLen(bridge.aw)] ELSE rd
    BY DEF SetRequest
<1> HIDE DEF rd, m2
<1>7. AwValid => /\ bridge.aw.addr = Target(core.base) /\ RequestLen(bridge.aw) = Beats
                 /\ ~Writes(data)
    <2>1. ASSUME AwValid
          PROVE  bridge.aw = [addr |-> Target(core.base), len |-> Beats - 1, id |-> 0] /\ bridge.w = "addr"
        BY <2>1 DEF AwValid, Inv, Memory, Writing
    <2>2. AwValid => Target(core.base) # 0
        <3>1. core.base \in Nat /\ Target(core.base) = core.base + Beats * Blk
            BY DEF Inv, Memory, MemTyped, Target
        <3> QED
            BY <3>1, Sizes
    <2>3. Beats - 1 + 1 = Beats
        BY Sizes
    <2> QED
        BY <2>1, <2>2, <2>3 DEF RequestLen, Writes, WrValid
<1>8. /\ m2.raddr = rd.raddr /\ m2.rlen = rd.rlen /\ m2.rid = rd.rid
      /\ m2.wlen = IF AwValid THEN Beats ELSE m1.wlen
      /\ m2.waddr = IF AwValid THEN Target(core.base) ELSE m1.waddr
      /\ m2 = [raddr |-> m2.raddr, rlen |-> m2.rlen, rid |-> m2.rid, waddr |-> m2.waddr, wlen |-> m2.wlen]
    BY <1>5, <1>6, <1>7
<1>9. /\ mdev'.rlen = IF RdReady /\ m2.rlen > 0 THEN m2.rlen - 1 ELSE m2.rlen
      /\ mdev'.raddr = IF RdReady /\ m2.rlen > 0 THEN m2.raddr + Blk ELSE m2.raddr
      /\ mdev'.rid = m2.rid /\ mdev'.wlen = m2.wlen /\ mdev'.waddr = m2.waddr
      /\ mdev' = [raddr |-> mdev'.raddr, rlen |-> mdev'.rlen, rid |-> mdev'.rid,
                       waddr |-> mdev'.waddr, wlen |-> mdev'.wlen]
    BY <1>1, <1>8 DEF ReadData
<1>10. /\ RdReady <=> RFire
       /\ DeqFire => ~RFire
       /\ RFire => mdev.rlen > 0
    <2>1. RFire => bridge.r = "data"
        BY Events
    <2>2. bridge.r = "data" => mdev.rlen = bridge.ar.len + 1 /\ bridge.ar.len \in Nat
        BY DEF Inv, Memory, Serving, MemTyped, Request0
    <2> QED
        BY <2>1, <2>2, Events DEF DeqFire
<1> QED
    BY <1>3, <1>5, <1>7, <1>8, <1>9, <1>10

\* The beat that is written is one that a client has received.
LEMMA WrittenBeat ==
    ASSUME Inv, vme.w = "data"
    PROVE  Beat(vme.sent) \in Data /\ core.phase = "write" /\ core.base # 0
<1>1. core.phase = "write" /\ vme.sent \in 0..Beats - 1
    BY DEF Inv, Memory, Writing
<1> DEFINE c == 1 + (vme.sent \div Burst)
           k == 1 + (vme.sent % Burst)
<1>2. c \in Client /\ k \in 1..Burst
    <2>1. c \in Client /\ vme.sent % Burst \in 0..BurstLen
        BY <1>1, BeatOfClient
    <2> QED
        BY <2>1, Sizes
<1>3. Beat(vme.sent) = core.got[c][k]
    BY DEF Beat, Burst
<1> HIDE DEF c, k
<1>4. core.got[c] \in Seq(Data) /\ Len(core.got[c]) = Burst
    BY <1>1, <1>2 DEF Inv, Memory, MemTyped, Resting
<1>5. core.got[c][k] \in Data
    BY <1>2, <1>4, ElementOfSeq
<1> QED
    BY <1>1, <1>3, <1>5 DEF Inv, Control, Launched

LEMMA WordsNext ==
    ASSUME Inv, NEW ask, NEW take, NEW data \in BOOLEAN, Clock(ask, take, data)
    PROVE  /\ dram' \in [Words -> Int] /\ SourceKept
           /\ Writes(data) => core.phase = "write"
           /\ ~Writes(data) => dram' = dram
           /\ Writes(data) => \A a \in Words : dram'[a] =
                  IF a \in mdev.waddr..mdev.waddr + Blk - 1 /\ Strobe(vme.sent, a - mdev.waddr + 1)
                  THEN Beat(vme.sent)[a - mdev.waddr + 1] ELSE dram[a]
<1>1. dram' = IF Writes(data) THEN Written(mdev) ELSE dram
    BY DEF Clock, MemCycle, MemDPI, Writes
<1>2. dram \in [Words -> Int] /\ DOMAIN dram = Words
    BY DEF Inv, Memory, MemTyped
<1>3. CASE ~Writes(data)
    <2>1. dram' = dram
        BY <1>1, <1>3
    <2> QED
        BY <2>1, <1>2, <1>3 DEF SourceKept
<1>4. CASE Writes(data)
    <2>1. vme.w = "data"
        BY <1>4 DEF Writes, WrValid
    <2>2. Beat(vme.sent) \in Data /\ core.phase = "write" /\ core.base # 0
        BY <2>1, WrittenBeat
    <2>3. mdev.waddr \in Int /\ mdev.waddr >= Target(core.base)
        <3>1. vme.sent \in 0..Beats - 1 /\ mdev.waddr = Target(core.base) + vme.sent * Blk
            BY <2>1 DEF Inv, Memory, Writing
        <3>2. core.base \in Nat
            BY DEF Inv, Memory, MemTyped
        <3>3. Target(core.base) \in Nat
            BY <3>2, Sizes DEF Target
        <3>4. vme.sent * Blk \in Nat
            BY <3>1, Sizes
        <3> QED
            BY <3>1, <3>3, <3>4
    <2>4. dram' = [a \in Words |->
                     IF a \in mdev.waddr..mdev.waddr + Blk - 1 /\ Strobe(vme.sent, a - mdev.waddr + 1)
                     THEN Beat(vme.sent)[a - mdev.waddr + 1] ELSE dram[a]]
        BY <1>1, <1>2, <1>4 DEF Written
    <2>5. ASSUME NEW a \in Words, a \in mdev.waddr..mdev.waddr + Blk - 1
          PROVE  Beat(vme.sent)[a - mdev.waddr + 1] \in Int
        <3>1. a - mdev.waddr + 1 \in 1..Blk
            BY <2>3, <2>5, Sizes DEF Words
        <3> QED
            BY <3>1, <2>2 DEF Data
    <2>6. dram' \in [Words -> Int]
        BY <2>4, <2>5, <1>2
    <2>7. ASSUME NEW c \in Client, NEW n \in 0..BurstLen, NEW i \in 1..Blk
          PROVE  LET a == Source(core.base, c) + n * Blk + i - 1 IN dram'[a] = dram[a]
        <3> DEFINE a == Source(core.base, c) + n * Blk + i - 1
        <3>1. a \in Words /\ a < Target(core.base)
            BY <2>2, SourceStays DEF Inv
        <3> HIDE DEF a
        <3>2. a \notin mdev.waddr..mdev.waddr + Blk - 1
            <4>1. core.base \in Nat /\ a \in Nat
                BY <3>1, Sizes DEF Inv, Memory, MemTyped, Words
            <4>2. Target(core.base) \in Nat
                BY <4>1, Sizes DEF Target
            <4> QED
                BY <4>1, <4>2, <3>1, <2>3, Sizes
        <3>3. dram'[a] = dram[a]
            BY <2>4, <3>1, <3>2
        <3> QED
            BY <3>3 DEF a
    <2>8. SourceKept
        BY <2>7 DEF SourceKept
    <2> QED
        BY <2>2, <2>4, <2>6, <2>8, <1>4
<1> QED
    BY <1>3, <1>4

\* What is left of the slots after a cycle.
LEMMA LeftNext ==
    ASSUME Inv, ReadDelay = 0, NEW ask, NEW take, NEW data \in BOOLEAN, Clock(ask, take, data)
    PROVE  /\ vme'.left = [t \in Slot |-> IF RFire /\ t = bridge.ar.id THEN vme.left[t] - 1
                                          ELSE IF ArFire /\ t = vme.ar.id THEN Burst ELSE vme.left[t]]
           /\ vme'.left \in [Slot -> Nat]
           /\ vme'.issued = (vme.issued \cup (IF ArFire THEN {vme.ar.id} ELSE {}))
                              \ (IF RFire /\ vme.left[bridge.ar.id] = 1 THEN {bridge.ar.id} ELSE {})
           /\ vme'.free = (vme.free \cup (IF RFire /\ vme.left[bridge.ar.id] = 1 THEN {bridge.ar.id} ELSE {}))
                              \ (IF Issue THEN {Min(vme.free)} ELSE {})
           /\ RFire => (RLast <=> vme.left[bridge.ar.id] = 1)
<1>1. RFire => /\ shown.id = bridge.ar.id /\ bridge.ar.id \in vme.issued
               /\ vme.left[bridge.ar.id] = bridge.ar.len + 1 /\ bridge.ar.len \in Nat
               /\ shown.valid
    <2>1. RFire => bridge.r = "data" /\ shown.id = bridge.ar.id /\ bridge.ar.id \in vme.issued
        BY Events
    <2>2. RFire => /\ vme.left[bridge.ar.id] = bridge.ar.len + 1
                   /\ shown = [valid |-> TRUE, id |-> bridge.ar.id,
                               data |-> [i \in 1..Blk |-> dram[mdev.raddr + i - 1]]]
        BY <2>1 DEF Inv, Memory, Serving
    <2>3. bridge.ar.len \in Nat
        BY DEF Inv, Memory, MemTyped, Request0
    <2>4. RFire => shown.valid
        BY <2>2
    <2> QED
        BY <2>1, <2>2, <2>3, <2>4
<1>2. RFire => (RLast <=> vme.left[bridge.ar.id] = 1)
    BY <1>1 DEF RLast
<1>3. ArFire => vme.ar.id \notin vme.issued /\ vme.ar.len + 1 = Burst
    BY Events DEF AsksFor, Burst
<1>4. vme'.left = [t \in Slot |-> IF RFire /\ t = bridge.ar.id THEN vme.left[t] - 1
                                  ELSE IF ArFire /\ t = vme.ar.id THEN Burst ELSE vme.left[t]]
    <2>1. vme'.left = [t \in Slot |->
                  IF RFire /\ t = shown.id
                  THEN (IF ArFire /\ vme.ar.id = t THEN vme.ar.len + 1 ELSE vme.left[t]) - 1
                  ELSE IF ArFire /\ vme.ar.id = t THEN vme.ar.len + 1 ELSE vme.left[t]]
        BY VmeNext DEF Inv, Memory
    <2> QED
        BY <2>1, <1>1, <1>3
<1>5. vme'.left \in [Slot -> Nat]
    <2>1. vme.left \in [Slot -> Nat] /\ Burst \in Nat
        BY Sizes DEF Inv, Memory, MemTyped
    <2>2. RFire => vme.left[bridge.ar.id] - 1 \in Nat
        BY <1>1
    <2> QED
        BY <1>4, <2>1, <2>2
<1>6. Freed = IF RFire /\ vme.left[bridge.ar.id] = 1 THEN {bridge.ar.id} ELSE {}
    BY <1>1, <1>2 DEF Freed
<1>7. /\ vme'.free = (vme.free \cup Freed) \ (IF Issue THEN {Min(vme.free)} ELSE {})
      /\ vme'.issued = (vme.issued \cup (IF ArFire THEN {vme.ar.id} ELSE {})) \ Freed
    BY VmeNext DEF Inv, Memory
<1> QED
    BY <1>2, <1>4, <1>5, <1>6, <1>7

\* Every register but the outputs of VTAMemDPI.v keeps its type.
LEMMA TypesNext ==
    ASSUME Inv, Control', ReadDelay = 0, NEW ask \in SUBSET core.quiet, NEW take \in SUBSET Takers,
           NEW data \in BOOLEAN, Clock(ask, take, data), shown' \in [valid : BOOLEAN, id : Nat, data : Data]
    PROVE  MemTyped'
<1>1. MemTyped
    BY DEF Inv, Memory
<1>2. dram' \in [Words -> Int]
    BY WordsNext
<1>3. mdev' \in [raddr : Int, rlen : Nat, rid : Nat, waddr : Int, wlen : Nat]
    <2>1. mdev \in [raddr : Int, rlen : Nat, rid : Nat, waddr : Int, wlen : Nat]
        BY <1>1 DEF MemTyped
    <2>2. RFire => mdev.rlen - 1 \in Nat
        <3>1. RFire => mdev.rlen = bridge.ar.len + 1 /\ bridge.ar.len \in Nat
            BY Events DEF Inv, Memory, Serving, MemTyped, Request0
        <3> QED
            BY <3>1
    <2>3. DeqFire => Head(bridge.queue).addr \in Int /\ Head(bridge.queue).id \in Nat
        <3>1. bridge.queue \in Seq(Request0)
            BY <1>1 DEF MemTyped
        <3>2. bridge.queue # <<>> => Head(bridge.queue) \in Request0
            BY <3>1, HeadTailProperties
        <3> QED
            BY <3>2 DEF DeqFire, Request0
    <2>4. core.base \in Nat /\ Target(core.base) \in Int
        BY <1>1, Sizes DEF MemTyped, Target
    <2>5. Writes(data) => mdev.wlen - 1 \in Nat
        BY <2>1 DEF Writes
    <2>6. mdev'.rlen \in Nat
        BY <2>1, <2>2, DeviceNext, Sizes
    <2>7. mdev'.raddr \in Int
        BY <2>1, <2>3, DeviceNext, Sizes
    <2>8. mdev'.rid \in Nat
        BY <2>1, <2>3, DeviceNext
    <2>9. mdev'.wlen \in Nat
        BY <2>1, <2>5, DeviceNext, Sizes
    <2>10. mdev'.waddr \in Int
        BY <2>1, <2>4, DeviceNext, Sizes
    <2>11. mdev' = [raddr |-> mdev'.raddr, rlen |-> mdev'.rlen, rid |-> mdev'.rid,
                       waddr |-> mdev'.waddr, wlen |-> mdev'.wlen]
        BY DeviceNext
    <2> QED
        BY <2>6, <2>7, <2>8, <2>9, <2>10, <2>11
<1>4. bridge' \in [queue : Seq(Request0), r : {"idle", "data"}, ar : Request0, delay : {0},
                   w : Handshake, aw : Request0, awBefore : BOOLEAN]
    <2>1. bridge \in [queue : Seq(Request0), r : {"idle", "data"}, ar : Request0, delay : {0},
                      w : Handshake, aw : Request0, awBefore : BOOLEAN] /\ vme.ar \in Request0
        BY <1>1 DEF MemTyped
    <2>2. bridge.queue \in Seq(Request0)
        BY <2>1
    <2>3. bridge.queue # <<>> => Head(bridge.queue) \in Request0 /\ Tail(bridge.queue) \in Seq(Request0)
        BY <2>2, HeadTailProperties
    <2>4. (IF DeqFire THEN Tail(bridge.queue) ELSE bridge.queue) \in Seq(Request0)
        BY <2>2, <2>3 DEF DeqFire
    <2>5. (IF ArFire THEN <<vme.ar>> ELSE <<>>) \in Seq(Request0)
        BY <2>1
    <2>6. bridge'.queue \in Seq(Request0)
        <3>1. bridge'.queue = (IF DeqFire THEN Tail(bridge.queue) ELSE bridge.queue)
                                \o (IF ArFire THEN <<vme.ar>> ELSE <<>>)
            BY <1>1, BridgeNext
        <3> QED
            BY <2>4, <2>5, <3>1, ConcatProperties
    <2>7. bridge'.ar \in Request0
        <3>1. bridge.ar \in Request0 /\ (DeqFire => Head(bridge.queue) \in Request0)
            BY <2>1, <2>3 DEF DeqFire
        <3>2. bridge.ar.len # 0 =>
                [addr |-> bridge.ar.addr, len |-> bridge.ar.len - 1, id |-> bridge.ar.id] \in Request0
            BY <3>1 DEF Request0
        <3> QED
            BY <1>1, <3>1, <3>2, BridgeNext
    <2>8. bridge'.r \in {"idle", "data"} /\ bridge'.delay = 0 /\ bridge'.awBefore \in BOOLEAN
        <3>1. /\ bridge'.r = IF DeqFire THEN "data"
                             ELSE IF bridge.r = "data" /\ RReady /\ RLast THEN "idle" ELSE bridge.r
              /\ bridge'.delay = 0 /\ bridge'.awBefore = (vme.w = "addr")
            BY <1>1, BridgeNext, Zenon
        <3> QED
            BY <2>1, <3>1
    <2>9. bridge'.w \in Handshake
        <3>1. bridge'.w = CASE bridge.w = "idle" -> IF vme.w = "addr" THEN "addr" ELSE "idle"
                            [] bridge.w = "addr" -> IF vme.w = "addr" THEN "data" ELSE "addr"
                            [] bridge.w = "data" -> IF WrValid(data) /\ WLast THEN "resp" ELSE "data"
                            [] OTHER -> IF vme.w = "resp" THEN "idle" ELSE bridge.w
            BY <1>1, BridgeNext
        <3>2. bridge.w \in Handshake
            BY <2>1
        <3> QED
            BY <3>1, <3>2 DEF Handshake
    <2>10. bridge'.aw \in Request0
        <3>1. Target(core.base) \in Nat /\ Beats - 1 \in Nat /\ 0 \in Nat
            <4>1. core.base \in Nat
                BY <1>1 DEF MemTyped
            <4> QED
                BY <4>1, Sizes DEF Target
        <3>2. [addr |-> Target(core.base), len |-> Beats - 1, id |-> 0] \in Request0
            BY <3>1 DEF Request0
        <3> QED
            <4>1. bridge'.aw = IF bridge.w = "idle" /\ vme.w = "addr"
                           THEN [addr |-> Target(core.base), len |-> Beats - 1, id |-> 0] ELSE bridge.aw
                BY <1>1, BridgeNext, Zenon
            <4> QED
                BY <2>1, <3>2, <4>1
    <2>11. bridge' = [queue |-> bridge'.queue, r |-> bridge'.r, ar |-> bridge'.ar, delay |-> bridge'.delay,
                         w |-> bridge'.w, aw |-> bridge'.aw, awBefore |-> bridge'.awBefore]
        BY <1>1, BridgeNext
    <2> QED
        BY <2>6, <2>7, <2>8, <2>9, <2>10, <2>11
<1>5. vme' \in [ar : Request0, free : SUBSET Slot, issued : SUBSET Slot, owner : [Slot -> 0..Clients],
                left : [Slot -> Nat], w : Handshake, sent : Nat, beats : Nat]
    <2>1. vme \in [ar : Request0, free : SUBSET Slot, issued : SUBSET Slot, owner : [Slot -> 0..Clients],
                left : [Slot -> Nat], w : Handshake, sent : Nat, beats : Nat]
        BY <1>1 DEF MemTyped
    <2>3. vme'.ar \in Request0
        <3>1. Issue => [addr |-> Source(core.base, Min(core.asks)), len |-> BurstLen,
                        id |-> Min(vme.free)] \in Request0
            <4>1. ASSUME Issue
                  PROVE  Source(core.base, Min(core.asks)) \in Nat
                <5>1. core.base \in Nat /\ Min(core.asks) \in Client
                    BY <1>1, <4>1, Events DEF MemTyped
                <5>2. Min(core.asks) - 1 \in Nat
                    BY <5>1, Sizes DEF Client
                <5> QED
                    BY <5>1, <5>2, Sizes DEF Source
            <4>2. Issue => Min(vme.free) \in Nat
                BY Events, Sizes DEF Slot
            <4> QED
                BY <4>1, <4>2, Sizes DEF Request0
        <3>2. None \in Request0
            BY DEF None, Request0
        <3> QED
            <4>1. vme'.ar = IF Issue THEN [addr |-> Source(core.base, Min(core.asks)), len |-> BurstLen,
                                       id |-> Min(vme.free)]
                        ELSE IF ArFire THEN None ELSE vme.ar
                BY <1>1, VmeNext, Zenon
            <4> QED
                BY <2>1, <3>1, <3>2, <4>1
    <2>4. vme'.owner \in [Slot -> 0..Clients]
        <3>1. Issue => Min(core.asks) \in 0..Clients
            BY Events, Sizes DEF Client
        <3>2. vme'.owner = IF Issue THEN [vme.owner EXCEPT ![Min(vme.free)] = Min(core.asks)] ELSE vme.owner
            BY <1>1, VmeNext
        <3>3. vme.owner \in [Slot -> 0..Clients]
            BY <2>1
        <3> QED
            BY <3>1, <3>2, <3>3
    <2>5. RFire => bridge.ar.id \in Slot
        BY <2>1, Events
    <2>6. ArFire => vme.ar.id \in Slot
        BY Events DEF Busy
    <2>7. vme'.left \in [Slot -> Nat] /\ vme'.free \in SUBSET Slot /\ vme'.issued \in SUBSET Slot
        <3>1. /\ vme'.left \in [Slot -> Nat]
              /\ vme'.issued = (vme.issued \cup (IF ArFire THEN {vme.ar.id} ELSE {}))
                              \ (IF RFire /\ vme.left[bridge.ar.id] = 1 THEN {bridge.ar.id} ELSE {})
              /\ vme'.free = (vme.free \cup (IF RFire /\ vme.left[bridge.ar.id] = 1 THEN {bridge.ar.id} ELSE {}))
                              \ (IF Issue THEN {Min(vme.free)} ELSE {})
            BY LeftNext, Zenon
        <3> QED
            BY <2>1, <2>5, <2>6, <3>1
    <2>8. vme'.w \in Handshake
        <3>1. vme'.w = CASE vme.w = "idle" -> IF core.phase = "write" THEN "addr" ELSE "idle"
                         [] vme.w = "addr" -> IF bridge.w = "addr" THEN "data" ELSE "addr"
                         [] vme.w = "data" -> IF WrValid(data) /\ WLast THEN "resp" ELSE "data"
                         [] OTHER -> IF Ack THEN "idle" ELSE vme.w
            BY <1>1, VmeNext
        <3>2. vme.w \in Handshake
            BY <2>1
        <3> QED
            BY <3>1, <3>2 DEF Handshake
    <2>9. vme'.sent \in Nat /\ vme'.beats \in Nat
        <3>1. /\ vme'.sent = IF vme.w = "idle" THEN 0 ELSE IF WrValid(data) THEN vme.sent + 1 ELSE vme.sent
              /\ vme'.beats = IF ~Launch THEN 0 ELSE IF RFire THEN vme.beats + 1 ELSE vme.beats
            BY <1>1, VmeNext, Zenon
        <3> QED
            BY <2>1, <3>1
    <2>10. vme' = [ar |-> vme'.ar, free |-> vme'.free, issued |-> vme'.issued, owner |-> vme'.owner,
                      left |-> vme'.left, w |-> vme'.w, sent |-> vme'.sent, beats |-> vme'.beats]
        BY <1>1, VmeNext
    <2> QED
        BY <2>3, <2>4, <2>7, <2>8, <2>9, <2>10
<1>6. resps' \in [Client -> Seq(Data)]
    <2>1. resps' = Responses(take)
        BY DEF Clock, MemCycle
    <2>2. shown.data \in Data
        BY <1>1 DEF MemTyped
    <2>3. ASSUME NEW c \in Client
          PROVE  (IF c \in take THEN Tail(resps[c]) ELSE resps[c])
                   \o (IF RFire /\ vme.owner[shown.id] = c THEN <<shown.data>> ELSE <<>>) \in Seq(Data)
        <3>1. resps[c] \in Seq(Data) /\ (c \in take => resps[c] # <<>>)
            BY <1>1 DEF MemTyped, Takers
        <3>2. (IF c \in take THEN Tail(resps[c]) ELSE resps[c]) \in Seq(Data)
            BY <3>1, HeadTailProperties
        <3>3. (IF RFire /\ vme.owner[shown.id] = c THEN <<shown.data>> ELSE <<>>) \in Seq(Data)
            BY <2>2
        <3> QED
            BY <3>2, <3>3, ConcatProperties
    <2> QED
        BY <2>1, <2>3 DEF Responses
<1>7. core' \in [phase : Phase, base : Nat, quiet : SUBSET Client, asks : SUBSET Client,
                 got : [Client -> Seq(Data)]]
    <2>1. core.phase \in Phase /\ core.quiet \in SUBSET Client /\ core.asks \in SUBSET Client /\ core.base \in Nat
          /\ core.got \in [Client -> Seq(Data)]
        BY <1>1 DEF MemTyped
    <2>2. core'.phase \in Phase
        BY <1>1, <2>1, CoreNext, NextPhases DEF Phase
    <2>3. core'.base \in Nat
        <3>1. reg.base \in Nat
            BY KnownBases DEF Inv, Control, HostTyped
        <3> QED
            BY <1>1, <2>1, <3>1, CoreNext
    <2>4. core'.quiet \in SUBSET Client /\ core'.asks \in SUBSET Client
        <3>1. /\ core'.quiet = IF Starts THEN Client ELSE core.quiet \ ask
              /\ core'.asks = IF Starts THEN core.asks
                              ELSE (core.asks \ (IF Issue THEN {Min(core.asks)} ELSE {})) \cup ask
            BY <1>1, CoreNext
        <3> QED
            BY <2>1, <3>1
    <2>5. core'.got \in [Client -> Seq(Data)]
        <3>1. ASSUME NEW c \in Client
              PROVE  (IF c \in take THEN Append(core.got[c], Head(resps[c])) ELSE core.got[c]) \in Seq(Data)
            <4>1. core.got[c] \in Seq(Data) /\ resps[c] \in Seq(Data) /\ (c \in take => resps[c] # <<>>)
                BY <1>1 DEF MemTyped, Takers
            <4>2. c \in take => Head(resps[c]) \in Data
                BY <4>1, HeadTailProperties
            <4> QED
                BY <4>1, <4>2, AppendProperties
        <3>2. \A c \in Client : <<>> \in Seq(Data)
            OBVIOUS
        <3> QED
            <4>1. core'.got = IF Starts THEN [c \in Client |-> <<>>]
                          ELSE [c \in Client |-> IF c \in take THEN Append(core.got[c], Head(resps[c]))
                                                 ELSE core.got[c]]
                BY <1>1, CoreNext
            <4> QED
                BY <3>1, <3>2, <4>1
    <2>6. core' = [phase |-> core'.phase, base |-> core'.base, quiet |-> core'.quiet,
                       asks |-> core'.asks, got |-> core'.got]
        BY <1>1, CoreNext
    <2> QED
        BY <2>2, <2>3, <2>4, <2>5, <2>6
<1> QED
    BY <1>2, <1>3, <1>4, <1>5, <1>6, <1>7 DEF MemTyped

\* One instance at a time: the equation itself makes the provers loop.
Associates(s, t, u) == (s \o t) \o u = s \o (t \o u)
LEMMA Associative ==
    ASSUME NEW S, NEW s \in Seq(S), NEW t \in Seq(S), NEW u \in Seq(S)
    PROVE  Associates(s, t, u)
BY ConcatAssociative DEF Associates

\* A beat taken from the front of one sequence to the end of another, while
\* others arrive.
LEMMA Moved ==
    ASSUME NEW S, NEW g \in Seq(S), NEW r \in Seq(S), NEW e \in Seq(S), r # <<>>
    PROVE  /\ Append(g, Head(r)) \o (Tail(r) \o e) = (g \o r) \o e
           /\ Append(g, Head(r)) \in Seq(S) /\ Tail(r) \o e \in Seq(S)
<1> DEFINE h == <<Head(r)>>
<1>1. Head(r) \in S /\ Tail(r) \in Seq(S) /\ h \in Seq(S)
    BY HeadTailProperties
<1>2. Append(g, Head(r)) = g \o h
    BY <1>1, AppendIsConcat
<1>3. h \o Tail(r) = r
    BY <1>1
<1> HIDE DEF h
<1>4. Tail(r) \o e \in Seq(S) /\ g \o h \in Seq(S)
    BY <1>1, ConcatProperties
<1>5. (g \o h) \o (Tail(r) \o e) = g \o (h \o (Tail(r) \o e))
    <2>1. Associates(g, h, Tail(r) \o e)
        BY <1>1, <1>4, Associative
    <2> QED
        BY <2>1 DEF Associates
<1>6. h \o (Tail(r) \o e) = r \o e
    <2>1. Associates(h, Tail(r), e)
        BY <1>1, Associative
    <2> QED
        BY <1>3, <2>1 DEF Associates
<1>7. g \o (r \o e) = (g \o r) \o e
    <2>1. Associates(g, r, e)
        BY Associative
    <2> QED
        BY <2>1 DEF Associates
<1> QED
    BY <1>2, <1>4, <1>5, <1>6, <1>7

\* When the read phase is over, or ends, nothing is under way.
LEMMA NoReads ==
    ASSUME Inv, ReadDelay = 0, core.phase # "read" \/ NextPhase # "read"
    PROVE  /\ vme.free = Slot /\ Busy = {} /\ vme.issued = {} /\ core.quiet = {} /\ core.asks = {}
           /\ vme.ar = None /\ bridge.queue = <<>> /\ bridge.r = "idle" /\ mdev.rlen = 0
           /\ ~Issue /\ ~ArFire /\ ~DeqFire /\ ~RFire /\ Takers = {}
<1>1. Busy = {} /\ core.quiet = {} /\ core.asks = {} /\ \A c \in Client : resps[c] = <<>>
    <2>1. CASE core.phase # "read"
        BY <2>1 DEF Inv, Memory, Resting, Busy
    <2>2. CASE core.phase = "read"
        <3>1. \A c \in Client : Len(core.got[c]) = Burst
            BY <2>2 DEF NextPhase, Burst
        <3>2. ASSUME NEW c \in Client
              PROVE  resps[c] = <<>> /\ Received(c) = Burst
            <4> DEFINE l == Len(core.got[c])
                       m == Len(resps[c])
            <4>1. l = Burst /\ m \in Nat /\ Received(c) = l + m /\ Received(c) <= Burst
                BY <3>1, Counts DEF Inv, Memory, Counted
            <4>2. resps[c] \in Seq(Data) /\ (m = 0 => resps[c] = <<>>)
                BY Counts, EmptySeq DEF Inv, Memory
            <4> HIDE DEF l, m
            <4>3. m = 0 /\ Received(c) = Burst
                BY <4>1, Sizes
            <4> QED
                BY <4>2, <4>3
        <3>3. core.quiet = {} /\ core.asks = {}
            <4>1. \A c \in core.quiet \cup core.asks : c \in Client /\ Received(c) = 0
                BY DEF Inv, Memory, MemTyped, Counted
            <4> QED
                BY <4>1, <3>2, Sizes
        <3>4. Busy = {}
            <4>1. \A s \in Busy : /\ vme.owner[s] \in Client
                                  /\ Received(vme.owner[s]) = IF s \in vme.issued THEN Burst - vme.left[s] ELSE 0
                                  /\ s \in vme.issued => vme.left[s] \in 1..Burst
                BY DEF Inv, Memory, Counted, Tracked
            <4> QED
                BY <4>1, <3>2, Sizes
        <3> QED
            BY <3>2, <3>3, <3>4
    <2> QED
        BY <2>1, <2>2
<1>2. vme.issued = {} /\ vme.free = Slot
    <2>1. vme.issued \subseteq Busy
        BY Events
    <2>2. vme.free \subseteq Slot
        BY DEF Inv, Memory, MemTyped
    <2> QED
        BY <1>1, <2>1, <2>2 DEF Busy
<1>3. ~Issue /\ ~ArFire /\ ~DeqFire /\ ~RFire
    BY <1>1, <1>2, Events
<1>4. bridge.r # "data"
    BY <1>2 DEF Inv, Memory, Serving
<1>5. bridge.r = "idle" /\ mdev.rlen = 0
    BY <1>4 DEF Inv, Memory, Serving, MemTyped
<1> QED
    BY <1>1, <1>2, <1>3, <1>5 DEF ArFire, DeqFire, Takers

LEMMA RestingNext ==
    ASSUME Inv, ReadDelay = 0, NEW ask \in SUBSET core.quiet, NEW take \in SUBSET Takers,
           NEW data \in BOOLEAN, Clock(ask, take, data)
    PROVE  Resting'
<1>1. /\ core'.phase = IF Starts THEN "read" ELSE NextPhase
      /\ core'.quiet = IF Starts THEN Client ELSE core.quiet \ ask
      /\ core'.asks = IF Starts THEN core.asks
                      ELSE (core.asks \ (IF Issue THEN {Min(core.asks)} ELSE {})) \cup ask
      /\ core'.got = IF Starts THEN [c \in Client |-> <<>>]
                     ELSE [c \in Client |-> IF c \in take THEN Append(core.got[c], Head(resps[c]))
                                            ELSE core.got[c]]
    BY CoreNext, Zenon DEF Inv, Memory
<1>2. CASE Starts \/ NextPhase = "read"
    BY <1>1, <1>2 DEF Resting
<1>3. CASE ~Starts /\ NextPhase # "read"
    <2>1. /\ vme.free = Slot /\ core.quiet = {} /\ core.asks = {} /\ Takers = {}
          /\ ~Issue /\ ~ArFire /\ ~RFire
        BY <1>3, NoReads
    <2>2. take = {} /\ ask = {}
        BY <2>1
    <2>3. core'.quiet = {} /\ core'.asks = {}
        BY <1>1, <1>3, <2>1, <2>2
    <2>4. vme'.free = Slot
        <3>1. vme'.free = (vme.free \cup Freed) \ (IF Issue THEN {Min(vme.free)} ELSE {})
            BY VmeNext DEF Inv, Memory
        <3> QED
            BY <2>1, <3>1 DEF Freed
    <2>5. \A c \in Client : resps'[c] = <<>>
        <3>1. \A c \in Client : resps[c] = <<>>
            BY <2>1 DEF Takers
        <3>2. resps' = Responses(take)
            BY DEF Clock, MemCycle
        <3>3. <<>> \o <<>> = <<>>
            OBVIOUS
        <3> QED
            BY <2>1, <2>2, <3>1, <3>2, <3>3 DEF Responses
    <2>6. ASSUME core'.phase \in {"write", "finish", "finished"}, NEW c \in Client
          PROVE  Len(core'.got[c]) = Burst
        <3>1. core'.got[c] = core.got[c]
            BY <1>1, <1>3, <2>2
        <3>2. core.phase \in Phase /\ core'.phase = NextPhase
            BY <1>1, <1>3 DEF Inv, Memory, MemTyped
        <3>3. core.phase \in {"write", "finish", "finished"} \/ Len(core.got[c]) = Burst
            BY <2>6, <3>2, NextPhases
        <3> QED
            BY <3>1, <3>3 DEF Inv, Memory, Resting
    <2> QED
        BY <2>3, <2>4, <2>5, <2>6 DEF Resting
<1> QED
    BY <1>2, <1>3

\* What has come back: a beat is added to those of the client it is for.
LEMMA ReceivedNext ==
    ASSUME Inv, ReadDelay = 0, ~Starts, NEW ask \in SUBSET core.quiet, NEW take \in SUBSET Takers,
           NEW data \in BOOLEAN, Clock(ask, take, data), NEW c \in Client
    PROVE  LET now == RFire /\ vme.owner[bridge.ar.id] = c IN
           /\ Beats0(c)' = Beats0(c) \o (IF now THEN <<shown.data>> ELSE <<>>)
           /\ Received(c)' = IF now THEN Received(c) + 1 ELSE Received(c)
<1> DEFINE now == RFire /\ vme.owner[bridge.ar.id] = c
           e == IF now THEN <<shown.data>> ELSE <<>>
<1>1. core.got[c] \in Seq(Data) /\ resps[c] \in Seq(Data) /\ shown.data \in Data
    BY Counts DEF Inv, Memory, MemTyped
<1>2. e \in Seq(Data) /\ Len(e) = IF now THEN 1 ELSE 0
    BY <1>1
<1>3. core'.got[c] = IF c \in take THEN Append(core.got[c], Head(resps[c])) ELSE core.got[c]
    <2>1. core'.got = IF Starts THEN [i \in Client |-> <<>>]
                      ELSE [i \in Client |-> IF i \in take THEN Append(core.got[i], Head(resps[i]))
                                             ELSE core.got[i]]
        BY CoreNext, Zenon DEF Inv, Memory
    <2> QED
        BY <2>1
<1>4. resps'[c] = (IF c \in take THEN Tail(resps[c]) ELSE resps[c]) \o e
    <2>1. resps' = Responses(take)
        BY DEF Clock, MemCycle
    <2>2. RFire => shown.id = bridge.ar.id
        BY Events
    <2> QED
        BY <2>1, <2>2 DEF Responses
<1> HIDE DEF e, now
<1>5. /\ core'.got[c] \o resps'[c] = Beats0(c) \o e
      /\ core'.got[c] \in Seq(Data) /\ resps'[c] \in Seq(Data)
    <2>1. CASE c \in take
        <3>1. resps[c] # <<>>
            BY <2>1 DEF Takers
        <3>2. /\ Append(core.got[c], Head(resps[c])) \o (Tail(resps[c]) \o e) = (core.got[c] \o resps[c]) \o e
              /\ Append(core.got[c], Head(resps[c])) \in Seq(Data) /\ Tail(resps[c]) \o e \in Seq(Data)
            BY <1>1, <1>2, <3>1, Moved
        <3> QED
            BY <1>3, <1>4, <2>1, <3>2 DEF Beats0
    <2>2. CASE c \notin take
        <3>1. core'.got[c] \o resps'[c] = core.got[c] \o (resps[c] \o e)
            BY <1>3, <1>4, <2>2
        <3>2. core.got[c] \o (resps[c] \o e) = Beats0(c) \o e /\ resps[c] \o e \in Seq(Data)
            <4>1. Associates(core.got[c], resps[c], e)
                BY <1>1, <1>2, Associative
            <4> QED
                BY <1>1, <1>2, <4>1, ConcatProperties DEF Beats0, Associates
        <3> QED
            BY <1>1, <1>3, <1>4, <2>2, <3>1, <3>2
    <2> QED
        BY <2>1, <2>2
<1>6. Beats0(c)' = Beats0(c) \o e
    BY <1>5 DEF Beats0
<1>7. Received(c)' = Len(Beats0(c)')
    <2>1. Len(core'.got[c] \o resps'[c]) = Len(core'.got[c]) + Len(resps'[c])
        BY <1>5, ConcatProperties
    <2> QED
        BY <2>1 DEF Beats0, Received
<1>8. Received(c)' = IF now THEN Received(c) + 1 ELSE Received(c)
    <2>1. Beats0(c) \in Seq(Data) /\ Len(Beats0(c)) = Received(c) /\ Received(c) \in Nat
        BY Counts DEF Inv, Memory
    <2>2. Len(Beats0(c) \o e) = Received(c) + Len(e)
        BY <1>2, <2>1, ConcatProperties
    <2> QED
        BY <1>2, <1>6, <1>7, <2>1, <2>2
<1> QED
    BY <1>6, <1>8 DEF e, now

\* Which slots are given out after a cycle, and to whom.
Freeing(s) == RFire /\ s = bridge.ar.id /\ vme.left[s] = 1
LEMMA SlotsNext ==
    ASSUME Inv, ReadDelay = 0, NEW ask, NEW take, NEW data \in BOOLEAN, Clock(ask, take, data)
    PROVE  /\ \A s \in Slot : s \in Busy' <=> \/ s \in Busy /\ ~Freeing(s)
                                              \/ Issue /\ s = Min(vme.free)
           /\ \A s : s \in vme'.issued <=> /\ s \in vme.issued \/ (ArFire /\ s = vme.ar.id)
                                           /\ ~Freeing(s)
           /\ \A s \in Busy : vme'.owner[s] = vme.owner[s]
           /\ Issue => vme'.owner[Min(vme.free)] = Min(core.asks) /\ Min(vme.free) \notin Busy
           /\ \A s \in vme.issued : vme'.left[s] = IF RFire /\ s = bridge.ar.id THEN vme.left[s] - 1
                                                   ELSE vme.left[s]
           /\ ArFire => vme'.left[vme.ar.id] = Burst /\ (RFire => vme.ar.id # bridge.ar.id)
<1>1. /\ vme'.left = [t \in Slot |-> IF RFire /\ t = bridge.ar.id THEN vme.left[t] - 1
                                     ELSE IF ArFire /\ t = vme.ar.id THEN Burst ELSE vme.left[t]]
      /\ vme'.issued = (vme.issued \cup (IF ArFire THEN {vme.ar.id} ELSE {}))
                         \ (IF RFire /\ vme.left[bridge.ar.id] = 1 THEN {bridge.ar.id} ELSE {})
      /\ vme'.free = (vme.free \cup (IF RFire /\ vme.left[bridge.ar.id] = 1 THEN {bridge.ar.id} ELSE {}))
                         \ (IF Issue THEN {Min(vme.free)} ELSE {})
    BY LeftNext, Zenon
<1>2. vme'.owner = IF Issue THEN [vme.owner EXCEPT ![Min(vme.free)] = Min(core.asks)] ELSE vme.owner
    BY VmeNext DEF Inv, Memory
<1>3. vme.issued \subseteq Busy /\ Busy \subseteq Slot /\ vme.owner \in [Slot -> 0..Clients]
    BY Events DEF Inv, Memory, MemTyped
<1>4. Issue => Min(vme.free) \in vme.free /\ Min(vme.free) \in Slot
    BY Events
<1>5. ArFire => vme.ar.id \in Busy /\ vme.ar.id \notin vme.issued
    BY Events
<1>6. RFire => bridge.ar.id \in vme.issued
    BY Events
<1>7. \A s \in Slot : s \in Busy' <=> (s \in Busy /\ ~Freeing(s)) \/ (Issue /\ s = Min(vme.free))
    BY <1>1, <1>4 DEF Busy, Freeing
<1>8. \A s : s \in vme'.issued <=> (s \in vme.issued \/ (ArFire /\ s = vme.ar.id)) /\ ~Freeing(s)
    BY <1>1 DEF Freeing
<1>9. /\ \A s \in Busy : vme'.owner[s] = vme.owner[s]
      /\ Issue => vme'.owner[Min(vme.free)] = Min(core.asks) /\ Min(vme.free) \notin Busy
    BY <1>2, <1>3, <1>4 DEF Busy
<1>10. /\ \A s \in vme.issued : vme'.left[s] = IF RFire /\ s = bridge.ar.id THEN vme.left[s] - 1
                                               ELSE vme.left[s]
       /\ ArFire => vme'.left[vme.ar.id] = Burst /\ (RFire => vme.ar.id # bridge.ar.id)
    BY <1>1, <1>3, <1>5, <1>6
<1> QED
    BY <1>7, <1>8, <1>9, <1>10, Zenon

LEMMA CountedNext ==
    ASSUME Inv, ReadDelay = 0, ~Starts, NEW ask \in SUBSET core.quiet, NEW take \in SUBSET Takers,
           NEW data \in BOOLEAN, Clock(ask, take, data)
    PROVE  Counted'
<1>1. /\ core'.quiet = core.quiet \ ask
      /\ core'.asks = (core.asks \ (IF Issue THEN {Min(core.asks)} ELSE {})) \cup ask
    <2>1. /\ core'.quiet = IF Starts THEN Client ELSE core.quiet \ ask
          /\ core'.asks = IF Starts THEN core.asks
                          ELSE (core.asks \ (IF Issue THEN {Min(core.asks)} ELSE {})) \cup ask
        BY CoreNext, Zenon DEF Inv, Memory
    <2> QED
        BY <2>1
<1>2. \A c \in Client : Received(c)' = IF RFire /\ vme.owner[bridge.ar.id] = c THEN Received(c) + 1
                                       ELSE Received(c)
    BY ReceivedNext
<1>3. core.quiet \in SUBSET Client /\ core.asks \in SUBSET Client /\ core.quiet \cap core.asks = {}
    BY DEF Inv, Memory, MemTyped, Counted
<1>4. /\ \A c \in core.quiet \cup core.asks : Received(c) = 0
      /\ \A c \in Client : Received(c) <= Burst /\ Received(c) \in Nat
      /\ \A s \in Busy : vme.owner[s] \in Client /\ vme.owner[s] \notin core.quiet \cup core.asks
      /\ \A s \in Busy : Received(vme.owner[s]) = IF s \in vme.issued THEN Burst - vme.left[s] ELSE 0
      /\ \A s, t \in Busy : vme.owner[s] = vme.owner[t] => s = t
      /\ \A s \in vme.issued : vme.left[s] \in 1..Burst
    BY Counts DEF Inv, Memory, Counted, Tracked
<1>5. RFire => bridge.ar.id \in vme.issued /\ bridge.ar.id \in Busy
    BY Events
<1>6. Issue => Min(core.asks) \in core.asks
    BY Events
<1>7. vme.issued \subseteq Busy /\ Busy \subseteq Slot /\ (ArFire => vme.ar.id \in Busy)
    BY Events
<1>8. Busy' \subseteq Slot
    BY DEF Busy
<1>9. core'.quiet \cap core'.asks = {}
    BY <1>1, <1>3
<1>10. core'.quiet \cup core'.asks \subseteq (core.quiet \cup core.asks) \ (IF Issue THEN {Min(core.asks)} ELSE {})
    BY <1>1, <1>3, <1>6
<1>11. \A c \in core'.quiet \cup core'.asks : Received(c)' = 0
    BY <1>2, <1>3, <1>4, <1>5, <1>10
<1>12. \A c \in Client : Received(c)' <= Burst
    <2>1. RFire => Received(vme.owner[bridge.ar.id]) + 1 <= Burst
        <3>1. RFire => /\ Received(vme.owner[bridge.ar.id]) = Burst - vme.left[bridge.ar.id]
                       /\ vme.left[bridge.ar.id] \in 1..Burst
            BY <1>4, <1>5
        <3> QED
            BY <3>1, Sizes
    <2> QED
        BY <1>2, <1>4, <2>1
<1>13. ASSUME NEW s \in Busy', NEW c, vme'.owner[s] = c
       PROVE  /\ c \in Client \ (core'.quiet \cup core'.asks)
              /\ Received(c)' = IF s \in vme'.issued THEN Burst - vme'.left[s] ELSE 0
              /\ (s \in Busy /\ vme.owner[s] = c) \/ (Issue /\ s = Min(vme.free))
    <2>1. CASE Issue /\ s = Min(vme.free)
        <3>1. c = Min(core.asks) /\ s \notin Busy
            BY <1>13, <2>1, SlotsNext
        <3>2. s \notin vme'.issued
            BY <1>7, <3>1, SlotsNext
        <3>3. Received(c) = 0 /\ c \in Client
            BY <1>3, <1>4, <1>6, <2>1, <3>1
        <3>4. RFire => vme.owner[bridge.ar.id] # c
            BY <1>4, <1>5, <1>6, <2>1, <3>1
        <3>5. Received(c)' = 0
            BY <1>2, <3>3, <3>4
        <3> QED
            BY <1>10, <2>1, <3>1, <3>2, <3>3, <3>5
    <2>2. CASE ~(Issue /\ s = Min(vme.free))
        <3>1. s \in Busy /\ ~Freeing(s)
            BY <1>8, <2>2, SlotsNext
        <3>2. vme.owner[s] = c /\ c \in Client
            BY <1>4, <1>13, <3>1, SlotsNext
        <3>3. CASE RFire /\ s = bridge.ar.id
            <4>1. s \in vme.issued /\ s \in vme'.issued /\ vme'.left[s] = vme.left[s] - 1
                BY <1>5, <3>1, <3>3, SlotsNext
            <4>2. Received(c) = Burst - vme.left[s] /\ vme.left[s] \in 1..Burst
                BY <1>4, <3>1, <3>2, <4>1
            <4>3. Received(c)' = Received(c) + 1
                BY <1>2, <3>2, <3>3
            <4>4. Received(c)' = Burst - vme'.left[s]
                BY <4>1, <4>2, <4>3, Sizes
            <4> QED
                BY <1>4, <1>10, <3>1, <3>2, <4>1, <4>4
        <3>4. CASE ~(RFire /\ s = bridge.ar.id)
            <4>1. RFire => vme.owner[bridge.ar.id] # c
                BY <1>4, <1>5, <3>1, <3>2, <3>4
            <4>2. Received(c)' = Received(c)
                BY <1>2, <3>2, <4>1
            <4>3. Received(c) = IF s \in vme'.issued THEN Burst - vme'.left[s] ELSE 0
                <5>1. CASE s \in vme.issued
                    <6>1. s \in vme'.issued /\ vme'.left[s] = vme.left[s]
                        BY <3>1, <3>4, <5>1, SlotsNext
                    <6> QED
                        BY <1>4, <3>1, <3>2, <5>1, <6>1
                <5>2. CASE s \notin vme.issued /\ ArFire /\ s = vme.ar.id
                    <6>1. vme'.left[s] = Burst /\ Burst - Burst = 0
                        BY <5>2, SlotsNext, Sizes
                    <6> QED
                        BY <1>4, <3>1, <3>2, <5>2, <6>1
                <5>3. CASE s \notin vme.issued /\ ~(ArFire /\ s = vme.ar.id)
                    <6>1. s \notin vme'.issued
                        BY <5>3, SlotsNext
                    <6> QED
                        BY <1>4, <3>1, <3>2, <5>3, <6>1
                <5> QED
                    BY <5>1, <5>2, <5>3
            <4> QED
                BY <1>4, <1>10, <3>1, <3>2, <4>2, <4>3
        <3> QED
            BY <3>3, <3>4
    <2> QED
        BY <2>1, <2>2
<1>14. ASSUME NEW s \in Busy', NEW t \in Busy', vme'.owner[s] = vme'.owner[t]
       PROVE  s = t
    <2>1. Issue => /\ vme'.owner[Min(vme.free)] = Min(core.asks)
                   /\ \A u \in Busy : vme.owner[u] # Min(core.asks)
        BY <1>4, <1>6, SlotsNext
    <2> QED
        BY <1>4, <1>13, <1>14, <2>1
<1> QED
    BY <1>9, <1>11, <1>12, <1>13, <1>14 DEF Counted, Received

\* Where a request in the bridge's queue was a cycle before.
LEMMA QueueNext ==
    ASSUME Inv, ReadDelay = 0, NEW ask, NEW take, NEW data \in BOOLEAN, Clock(ask, take, data),
           NEW k \in 1..Len(bridge'.queue)
    PROVE  \/ \E j \in 1..Len(bridge.queue) : bridge'.queue[k] = bridge.queue[j]
                                              /\ j = IF DeqFire THEN k + 1 ELSE k
           \/ ArFire /\ bridge'.queue[k] = vme.ar /\ k = Len(bridge'.queue)
<1> DEFINE q == IF DeqFire THEN Tail(bridge.queue) ELSE bridge.queue
           e == IF ArFire THEN <<vme.ar>> ELSE <<>>
<1>1. bridge'.queue = q \o e
    BY BridgeNext, Zenon DEF Inv, Memory
<1>2. bridge.queue \in Seq(Request0) /\ vme.ar \in Request0
    BY DEF Inv, Memory, MemTyped
<1>3. /\ q \in Seq(Request0)
      /\ \A j \in 1..Len(q) : LET i == IF DeqFire THEN j + 1 ELSE j IN
            i \in 1..Len(bridge.queue) /\ q[j] = bridge.queue[i]
    <2>1. CASE DeqFire
        <3>1. bridge.queue # <<>>
            BY <2>1 DEF DeqFire
        <3>2. /\ Tail(bridge.queue) \in Seq(Request0)
              /\ Len(Tail(bridge.queue)) = Len(bridge.queue) - 1 /\ Len(bridge.queue) \in Nat
              /\ \A i \in 1..Len(Tail(bridge.queue)) : Tail(bridge.queue)[i] = bridge.queue[i + 1]
            BY <1>2, <3>1, HeadTailProperties, LenProperties
        <3> QED
            BY <2>1, <3>2
    <2>2. CASE ~DeqFire
        BY <1>2, <2>2
    <2> QED
        BY <2>1, <2>2
<1>4. e \in Seq(Request0) /\ Len(e) = (IF ArFire THEN 1 ELSE 0) /\ (ArFire => e[1] = vme.ar)
    BY <1>2
<1> HIDE DEF q, e
<1>5. /\ Len(q \o e) = Len(q) + Len(e) /\ Len(q) \in Nat
      /\ \A i \in 1..Len(q) + Len(e) : (q \o e)[i] = IF i <= Len(q) THEN q[i] ELSE e[i - Len(q)]
    BY <1>3, <1>4, ConcatProperties, LenProperties
<1>6. CASE k <= Len(q)
    <2>1. k \in 1..Len(q) /\ bridge'.queue[k] = q[k]
        BY <1>1, <1>4, <1>5, <1>6
    <2> QED
        BY <1>3, <2>1
<1>7. CASE ~(k <= Len(q))
    <2>1. ArFire /\ k = Len(q) + 1
        BY <1>1, <1>4, <1>5, <1>7
    <2>2. bridge'.queue[k] = e[1]
        BY <1>1, <1>4, <1>5, <1>7, <2>1
    <2> QED
        BY <1>1, <1>4, <1>5, <2>1, <2>2
<1> QED
    BY <1>6, <1>7

LEMMA TrackedNext ==
    ASSUME Inv, ReadDelay = 0, ~Starts, NEW ask \in SUBSET core.quiet, NEW take \in SUBSET Takers,
           NEW data \in BOOLEAN, Clock(ask, take, data)
    PROVE  Tracked'
<1>1. core'.base = core.base
    <2>1. core'.base = IF Starts THEN reg.base ELSE core.base
        BY CoreNext, Zenon DEF Inv, Memory
    <2> QED
        BY <2>1
<1>2. /\ vme.issued \subseteq Busy /\ Busy \subseteq Slot
      /\ RFire => bridge.ar.id \in vme.issued
      /\ ArFire => vme.ar.id \in Busy \ vme.issued /\ AsksFor(vme.ar, vme.ar.id)
      /\ Issue => Min(vme.free) \in Slot
    BY Events
<1>3. \A s \in vme.issued : vme.left[s] \in 1..Burst
    BY DEF Inv, Memory, Tracked
<1>4. vme'.issued \subseteq Busy'
    <2>1. ASSUME NEW s \in vme'.issued
          PROVE  s \in Busy'
        <3>1. s \in Busy /\ ~Freeing(s)
            BY <1>2, SlotsNext
        <3> QED
            BY <1>2, <3>1, SlotsNext
    <2> QED
        BY <2>1
<1>5. \A s \in vme'.issued : vme'.left[s] \in 1..Burst
    <2>1. ASSUME NEW s \in vme'.issued
          PROVE  vme'.left[s] \in 1..Burst
        <3>1. CASE s \in vme.issued
            <4>1. ~Freeing(s) /\ vme.left[s] \in 1..Burst
                BY <1>3, <3>1, SlotsNext
            <4>2. vme'.left[s] = IF RFire /\ s = bridge.ar.id THEN vme.left[s] - 1 ELSE vme.left[s]
                BY <3>1, SlotsNext
            <4> QED
                BY <4>1, <4>2, Sizes DEF Freeing
        <3>2. CASE s \notin vme.issued
            <4>1. vme'.left[s] = Burst
                BY <3>2, SlotsNext
            <4> QED
                BY <4>1, Sizes
        <3> QED
            BY <3>1, <3>2
    <2> QED
        BY <2>1
<1>6. vme'.ar # None => vme'.ar.id \in Busy' \ vme'.issued /\ AsksFor(vme.ar, vme.ar.id)'
    <2>1. ASSUME vme'.ar # None
          PROVE  vme'.ar.id \in Busy' \ vme'.issued /\ AsksFor(vme.ar, vme.ar.id)'
        <3>1. vme'.ar = IF Issue THEN [addr |-> Source(core.base, Min(core.asks)), len |-> BurstLen,
                                       id |-> Min(vme.free)]
                        ELSE IF ArFire THEN None ELSE vme.ar
            BY VmeNext, Zenon DEF Inv, Memory
        <3>2. Issue /\ vme'.ar = [addr |-> Source(core.base, Min(core.asks)), len |-> BurstLen,
                                  id |-> Min(vme.free)]
            BY <2>1, <3>1 DEF ArFire
        <3>3. vme'.ar.id = Min(vme.free)
            BY <3>2
        <3>4. vme'.owner[Min(vme.free)] = Min(core.asks) /\ Min(vme.free) \notin Busy
            BY <3>2, SlotsNext
        <3>5. Min(vme.free) \in Busy' /\ Min(vme.free) \notin vme'.issued
            BY <1>2, <3>2, <3>4, SlotsNext
        <3>6. vme'.ar = [addr |-> Source(core'.base, vme'.owner[vme'.ar.id]), len |-> BurstLen, id |-> vme'.ar.id]
            BY <1>1, <3>2, <3>3, <3>4
        <3> QED
            BY <3>3, <3>5, <3>6 DEF AsksFor
    <2> QED
        BY <2>1
<1>7. ASSUME NEW k \in 1..Len(bridge'.queue)
      PROVE  /\ bridge'.queue[k].id \in vme'.issued
             /\ bridge'.queue[k] = [addr |-> Source(core'.base, vme'.owner[bridge'.queue[k].id]),
                                    len |-> BurstLen, id |-> bridge'.queue[k].id]
             /\ vme'.left[bridge'.queue[k].id] = Burst
    <2>1. CASE ArFire /\ bridge'.queue[k] = vme.ar
        <3>1. ~Freeing(vme.ar.id)
            BY <1>2, <2>1 DEF Freeing
        <3>2. vme.ar.id \in vme'.issued /\ vme'.owner[vme.ar.id] = vme.owner[vme.ar.id]
                /\ vme'.left[vme.ar.id] = Burst
            BY <1>2, <2>1, <3>1, SlotsNext
        <3> QED
            BY <1>1, <1>2, <2>1, <3>2 DEF AsksFor
    <2>2. ASSUME NEW j \in 1..Len(bridge.queue), bridge'.queue[k] = bridge.queue[j]
          PROVE  /\ bridge'.queue[k].id \in vme'.issued
                 /\ bridge'.queue[k] = [addr |-> Source(core'.base, vme'.owner[bridge'.queue[k].id]),
                                        len |-> BurstLen, id |-> bridge'.queue[k].id]
                 /\ vme'.left[bridge'.queue[k].id] = Burst
        <3> DEFINE s == bridge.queue[j].id
        <3>1. s \in vme.issued /\ vme.left[s] = Burst /\ AsksFor(bridge.queue[j], s)
            BY DEF Inv, Memory, Tracked
        <3>2. ~(RFire /\ s = bridge.ar.id)
            <4>1. RFire => bridge.r = "data"
                BY Events
            <4> QED
                BY <4>1 DEF Inv, Memory, Serving, Waiting
        <3> HIDE DEF s
        <3>3. s \in vme'.issued /\ vme'.owner[s] = vme.owner[s] /\ vme'.left[s] = vme.left[s]
            BY <1>2, <3>1, <3>2, SlotsNext DEF Freeing
        <3>4. bridge'.queue[k].id = s
            BY <2>2 DEF s
        <3> QED
            BY <1>1, <2>2, <3>1, <3>3, <3>4 DEF AsksFor
    <2> QED
        BY <2>1, <2>2, QueueNext
<1>8. ASSUME NEW j \in 1..Len(bridge'.queue), NEW k \in 1..Len(bridge'.queue),
             bridge'.queue[j].id = bridge'.queue[k].id
      PROVE  j = k
    <2>1. /\ \A m \in 1..Len(bridge.queue) : bridge.queue[m].id \in vme.issued
          /\ \A m, n \in 1..Len(bridge.queue) : bridge.queue[m].id = bridge.queue[n].id => m = n
        BY DEF Inv, Memory, Tracked
    <2>2. ArFire => vme.ar.id \notin vme.issued
        BY <1>2
    <2>3. /\ \/ \E m \in 1..Len(bridge.queue) : bridge'.queue[j] = bridge.queue[m]
                                              /\ m = IF DeqFire THEN j + 1 ELSE j
             \/ ArFire /\ bridge'.queue[j] = vme.ar /\ j = Len(bridge'.queue)
          /\ \/ \E m \in 1..Len(bridge.queue) : bridge'.queue[k] = bridge.queue[m]
                                              /\ m = IF DeqFire THEN k + 1 ELSE k
             \/ ArFire /\ bridge'.queue[k] = vme.ar /\ k = Len(bridge'.queue)
        BY QueueNext
    <2>4. ASSUME NEW m \in 1..Len(bridge.queue), bridge'.queue[j] = bridge.queue[m],
                 m = IF DeqFire THEN j + 1 ELSE j,
                 NEW n \in 1..Len(bridge.queue), bridge'.queue[k] = bridge.queue[n],
                 n = IF DeqFire THEN k + 1 ELSE k
          PROVE  j = k
        <3>1. m = n
            BY <1>8, <2>1, <2>4
        <3> QED
            BY <2>4, <3>1
    <2>5. ASSUME ArFire, NEW n \in 1..Len(bridge.queue),
                 \/ bridge'.queue[j] = vme.ar /\ bridge'.queue[k] = bridge.queue[n]
                 \/ bridge'.queue[k] = vme.ar /\ bridge'.queue[j] = bridge.queue[n]
          PROVE  FALSE
        <3>1. bridge.queue[n].id = vme.ar.id
            BY <1>8, <2>5
        <3> QED
            BY <2>1, <2>2, <2>5, <3>1
    <2> QED
        BY <2>3, <2>4, <2>5
<1> QED
    BY <1>4, <1>5, <1>6, <1>7, <1>8 DEF Tracked, AsksFor

\* The words that MemDevice shows, when it is at a beat of a client.
LEMMA ShownNext ==
    ASSUME Inv, ReadDelay = 0, NEW ask, NEW take, NEW data \in BOOLEAN, Clock(ask, take, data),
           mdev'.rlen \in Nat, mdev'.rid \in Nat,
           mdev'.rlen > 0 => \E c \in Client, n \in 0..BurstLen :
                                core.base # 0 /\ mdev'.raddr = Source(core.base, c) + n * Blk
    PROVE  /\ shown' \in [valid : BOOLEAN, id : Nat, data : Data]
           /\ shown'.valid <=> mdev'.rlen > 0
           /\ mdev'.rlen > 0 => shown' = [valid |-> TRUE, id |-> mdev'.rid,
                                          data |-> [i \in 1..Blk |-> dram'[mdev'.raddr + i - 1]]]
<1>1. shown' = [valid |-> mdev'.rlen > 0, id |-> mdev'.rid,
                data |-> IF mdev'.rlen > 0 THEN [i \in 1..Blk |-> dram'[mdev'.raddr + i - 1]] ELSE Dead]
    BY DEF Clock, MemCycle, MemDPI
<1>2. ASSUME mdev'.rlen > 0
      PROVE  [i \in 1..Blk |-> dram'[mdev'.raddr + i - 1]] \in Data
    <2>1. PICK c \in Client, n \in 0..BurstLen :
                core.base # 0 /\ mdev'.raddr = Source(core.base, c) + n * Blk
        BY <1>2
    <2>2. \A i \in 1..Blk : Source(core.base, c) + n * Blk + i - 1 \in Words
        BY <2>1, SourceStays DEF Inv
    <2>3. dram' \in [Words -> Int]
        BY WordsNext
    <2>4. \A i \in 1..Blk : dram'[mdev'.raddr + i - 1] \in Int
        BY <2>1, <2>2, <2>3
    <2> QED
        BY <2>4 DEF Data
<1>3. Dead \in Data
    BY DEF Dead, Data
<1>4. CASE mdev'.rlen > 0
    BY <1>1, <1>2, <1>4
<1>5. CASE ~(mdev'.rlen > 0)
    <2>1. shown' = [valid |-> FALSE, id |-> mdev'.rid, data |-> Dead]
        <3>1. (mdev'.rlen > 0) = FALSE
            BY <1>5
        <3> QED
            BY <1>1, <1>5, <3>1, Zenon
    <2> QED
        BY <1>3, <1>5, <2>1
<1> QED
    BY <1>4, <1>5

\* What the bridge serves after a cycle.
LEMMA ServedNext ==
    ASSUME Inv, ReadDelay = 0, ~Starts, NEW ask \in SUBSET core.quiet, NEW take \in SUBSET Takers,
           NEW data \in BOOLEAN, Clock(ask, take, data)
    PROVE  LET s == bridge'.ar.id IN
           IF bridge'.r = "data"
           THEN /\ s \in vme'.issued /\ s \in Busy /\ vme'.owner[s] = vme.owner[s]
                /\ ~Waiting(bridge.ar.id)'
                /\ vme'.left[s] = bridge'.ar.len + 1 /\ vme'.left[s] \in 1..Burst
                /\ mdev'.rlen = vme'.left[s] /\ mdev'.rid = s
                /\ mdev'.raddr = Source(core.base, vme.owner[s]) + (Burst - vme'.left[s]) * Blk
           ELSE mdev'.rlen = 0
<1> DEFINE s == bridge'.ar.id
<1>1. /\ vme.issued \subseteq Busy /\ Busy \subseteq Slot
      /\ RFire => bridge.r = "data"
      /\ DeqFire => /\ bridge.queue # <<>> /\ bridge.r = "idle" /\ 1 \in 1..Len(bridge.queue)
                    /\ Head(bridge.queue) = bridge.queue[1]
                    /\ Head(bridge.queue).id \in vme.issued
                    /\ AsksFor(Head(bridge.queue), Head(bridge.queue).id)
      /\ ArFire => vme.ar.id \notin vme.issued
      /\ RFire <=> bridge.r = "data" /\ RReady
    BY Events
<1>2. /\ mdev'.rlen = IF DeqFire THEN BurstLen + 1 ELSE IF RFire THEN mdev.rlen - 1 ELSE mdev.rlen
      /\ mdev'.raddr = IF DeqFire THEN Head(bridge.queue).addr
                       ELSE IF RFire THEN mdev.raddr + Blk ELSE mdev.raddr
      /\ mdev'.rid = IF DeqFire THEN Head(bridge.queue).id ELSE mdev.rid
    BY DeviceNext, Zenon
<1>3. /\ bridge'.r = IF DeqFire THEN "data"
                     ELSE IF bridge.r = "data" /\ RReady /\ RLast THEN "idle" ELSE bridge.r
      /\ bridge'.ar = IF DeqFire THEN Head(bridge.queue)
                      ELSE IF RFire /\ bridge.ar.len # 0
                           THEN [addr |-> bridge.ar.addr, len |-> bridge.ar.len - 1, id |-> bridge.ar.id]
                           ELSE bridge.ar
    BY BridgeNext, Zenon DEF Inv, Memory
<1>4. \A k \in 1..Len(bridge'.queue) :
         \/ \E j \in 1..Len(bridge.queue) : /\ bridge'.queue[k].id = bridge.queue[j].id
                                            /\ DeqFire => j # 1
         \/ bridge'.queue[k].id \notin vme.issued
    <2>1. \A k \in 1..Len(bridge'.queue) : k + 1 # 1
        OBVIOUS
    <2> QED
        BY <1>1, <2>1, QueueNext
<1>5. Burst \in Nat \ {0} /\ Blk \in Nat /\ Burst = BurstLen + 1
    BY Sizes DEF Burst
<1>6. CASE DeqFire
    <2>1. bridge'.r = "data" /\ bridge'.ar = bridge.queue[1] /\ s \in vme.issued
            /\ AsksFor(bridge.queue[1], s) /\ ~RFire
        BY <1>1, <1>3, <1>6
    <2>2. vme.left[s] = Burst /\ bridge.queue[1].id = s
        BY <1>1, <1>6, <2>1 DEF Inv, Memory, Tracked
    <2>3. s \in vme'.issued /\ vme'.owner[s] = vme.owner[s] /\ vme'.left[s] = Burst /\ s \in Busy
        BY <1>1, <2>1, <2>2, SlotsNext DEF Freeing
    <2>4. \A k \in 1..Len(bridge'.queue) : bridge'.queue[k].id # s
        <3>1. \A i, j \in 1..Len(bridge.queue) : bridge.queue[i].id = bridge.queue[j].id => i = j
            BY DEF Inv, Memory, Tracked
        <3> QED
            BY <1>1, <1>4, <1>6, <2>1, <2>2, <3>1
    <2>5. mdev'.rlen = Burst /\ mdev'.rid = s /\ bridge'.ar.len + 1 = Burst
            /\ mdev'.raddr = Source(core.base, vme.owner[s])
        BY <1>1, <1>2, <1>5, <1>6, <2>1 DEF AsksFor
    <2>6. Source(core.base, vme.owner[s]) = Source(core.base, vme.owner[s]) + (Burst - Burst) * Blk
        <3>1. (Burst - Burst) * Blk = 0
            BY <1>5
        <3>2. Source(core.base, vme.owner[s]) \in Int
            <4>1. vme.owner[s] \in Client
                BY <2>3 DEF Inv, Memory, Counted
            <4>2. vme.owner[s] \in Nat /\ core.base \in Nat
                BY <4>1, Sizes DEF Inv, Memory, MemTyped, Client
            <4> QED
                BY <4>2, Sizes DEF Source
        <3> QED
            BY <3>1, <3>2
    <2> HIDE DEF s
    <2>7. Burst \in 1..Burst
        BY <1>5
    <2> QED
        BY <2>1, <2>3, <2>4, <2>5, <2>6, <2>7 DEF Waiting, s
<1>7. CASE ~DeqFire /\ bridge.r = "data"
    <2> DEFINE t == bridge.ar.id
               l == bridge.ar.len
    <2>1. /\ t \in vme.issued /\ ~Waiting(t) /\ vme.left[t] = l + 1 /\ mdev.rlen = l + 1 /\ mdev.rid = t
          /\ mdev.raddr = Source(core.base, vme.owner[t]) + (Burst - vme.left[t]) * Blk
          /\ shown.valid /\ l \in Nat /\ vme.left[t] \in 1..Burst
        BY <1>7 DEF Inv, Memory, Serving, MemTyped, Request0, Tracked
    <2>2. bridge'.ar.id = t
        BY <1>3, <1>7
    <2>3. \A k \in 1..Len(bridge'.queue) : bridge'.queue[k].id # t
        BY <1>4, <2>1 DEF Waiting
    <2>4. vme'.owner[t] = vme.owner[t] /\ vme.owner[t] \in Client /\ t \in Busy
        BY <1>1, <2>1, SlotsNext DEF Inv, Memory, Counted
    <2>5. Source(core.base, vme.owner[t]) \in Int
        <3>1. vme.owner[t] \in Nat /\ core.base \in Nat
            BY <2>4, Sizes DEF Inv, Memory, MemTyped, Client
        <3> QED
            BY <3>1, Sizes DEF Source
    <2>6. CASE RFire
        <3>1. RLast <=> l = 0
            BY <2>1 DEF RLast
        <3>2. CASE l = 0
            <4>1. bridge'.r = "idle" /\ mdev'.rlen = 0
                BY <1>1, <1>2, <1>3, <1>7, <2>1, <2>6, <3>1, <3>2
            <4> QED
                BY <4>1
        <3>3. CASE l # 0
            <4>1. bridge'.r = "data" /\ bridge'.ar.len = l - 1
                BY <1>3, <1>7, <2>6, <3>1, <3>3
            <4>2. vme'.left[t] = l /\ t \in vme'.issued
                BY <2>1, <2>6, <3>3, SlotsNext DEF Freeing
            <4>3. mdev'.rlen = l /\ mdev'.rid = t /\ mdev'.raddr = mdev.raddr + Blk
                BY <1>2, <1>7, <2>1, <2>6
            <4>4. (Burst - (l + 1)) * Blk + Blk = (Burst - l) * Blk /\ (Burst - (l + 1)) * Blk \in Int
                BY <1>5, <2>1
            <4>5. mdev'.raddr = Source(core.base, vme.owner[t]) + (Burst - l) * Blk
                BY <1>5, <2>1, <2>5, <4>3, <4>4
            <4>6. l \in 1..Burst
                BY <1>5, <2>1, <3>3
            <4> HIDE DEF t, l
            <4>7. bridge'.ar.len + 1 = l
                BY <4>1, <4>6, <1>5
            <4> QED
                BY <2>2, <2>3, <2>4, <4>1, <4>2, <4>3, <4>5, <4>6, <4>7 DEF Waiting
        <3> QED
            BY <3>2, <3>3
    <2>7. CASE ~RFire
        <3>1. bridge'.r = "data" /\ bridge'.ar = bridge.ar
            BY <1>1, <1>3, <1>7, <2>7
        <3>2. vme'.left[t] = vme.left[t] /\ t \in vme'.issued
            BY <2>1, <2>7, SlotsNext DEF Freeing
        <3>3. mdev'.rlen = mdev.rlen /\ mdev'.rid = t /\ mdev'.raddr = mdev.raddr
            BY <1>2, <1>7, <2>1, <2>7
        <3> QED
            BY <2>1, <2>2, <2>3, <2>4, <3>1, <3>2, <3>3 DEF Waiting
    <2> QED
        BY <2>6, <2>7
<1>8. CASE ~DeqFire /\ bridge.r # "data"
    <2>1. mdev.rlen = 0 /\ ~RFire
        BY <1>1, <1>8 DEF Inv, Memory, Serving
    <2> QED
        BY <1>2, <1>3, <1>8, <2>1
<1> QED
    BY <1>6, <1>7, <1>8

LEMMA ServingNext ==
    ASSUME Inv, ReadDelay = 0, ~Starts, NEW ask \in SUBSET core.quiet, NEW take \in SUBSET Takers,
           NEW data \in BOOLEAN, Clock(ask, take, data)
    PROVE  Serving' /\ shown' \in [valid : BOOLEAN, id : Nat, data : Data]
<1>1. core'.base = core.base
    <2>1. core'.base = IF Starts THEN reg.base ELSE core.base
        BY CoreNext, Zenon DEF Inv, Memory
    <2> QED
        BY <2>1
<1>2. CASE bridge'.r = "data"
    <2> DEFINE s == bridge'.ar.id
    <2>1. /\ s \in vme'.issued /\ s \in Busy /\ vme'.owner[s] = vme.owner[s] /\ ~Waiting(bridge.ar.id)'
          /\ vme'.left[s] = bridge'.ar.len + 1 /\ vme'.left[s] \in 1..Burst
          /\ mdev'.rlen = vme'.left[s] /\ mdev'.rid = s
          /\ mdev'.raddr = Source(core.base, vme.owner[s]) + (Burst - vme'.left[s]) * Blk
        BY <1>2, ServedNext
    <2>2. vme.owner[s] \in Client /\ s \in Nat
        BY <2>1, Events, Sizes DEF Inv, Memory, Counted, Slot
    <2>3. core.base # 0
        BY <2>1, Events DEF Inv, Control, Launched
    <2>4. /\ Burst - vme'.left[s] \in 0..BurstLen
          /\ mdev'.rlen \in Nat /\ mdev'.rid \in Nat /\ mdev'.rlen > 0
        BY <2>1, <2>2, Sizes
    <2>5. \E c \in Client, n \in 0..BurstLen : core.base # 0 /\ mdev'.raddr = Source(core.base, c) + n * Blk
        BY <2>1, <2>2, <2>3, <2>4
    <2>6. /\ shown' \in [valid : BOOLEAN, id : Nat, data : Data]
          /\ shown' = [valid |-> TRUE, id |-> mdev'.rid,
                       data |-> [i \in 1..Blk |-> dram'[mdev'.raddr + i - 1]]]
        BY <2>4, <2>5, ShownNext
    <2> QED
        BY <1>1, <1>2, <2>1, <2>6 DEF Serving
<1>3. CASE bridge'.r # "data"
    <2>1. mdev'.rlen = 0
        BY <1>3, ServedNext
    <2>2. mdev'.rid \in Nat
        <3>1. DeqFire => bridge'.r = "data"
            BY BridgeNext DEF Inv, Memory
        <3>2. mdev'.rid = mdev.rid
            BY <1>3, <3>1, DeviceNext
        <3> QED
            BY <3>2 DEF Inv, Memory, MemTyped
    <2>3. shown' \in [valid : BOOLEAN, id : Nat, data : Data] /\ ~shown'.valid
        BY <2>1, <2>2, ShownNext
    <2> QED
        BY <1>3, <2>1, <2>3 DEF Serving
<1> QED
    BY <1>2, <1>3

LEMMA ArrivedNext ==
    ASSUME Inv, ReadDelay = 0, ~Starts, NEW ask \in SUBSET core.quiet, NEW take \in SUBSET Takers,
           NEW data \in BOOLEAN, Clock(ask, take, data)
    PROVE  Arrived'
<1>1. core'.base = core.base
    <2>1. core'.base = IF Starts THEN reg.base ELSE core.base
        BY CoreNext, Zenon DEF Inv, Memory
    <2> QED
        BY <2>1
<1>2. ASSUME NEW c \in Client, NEW n \in 1..Received(c)'
      PROVE  Beats0(c)'[n] = [i \in 1..Blk |-> dram'[Source(core.base, c) + (n - 1) * Blk + i - 1]]
    <2> DEFINE now == RFire /\ vme.owner[bridge.ar.id] = c
    <2>1. /\ Beats0(c)' = Beats0(c) \o (IF now THEN <<shown.data>> ELSE <<>>)
          /\ Received(c)' = IF now THEN Received(c) + 1 ELSE Received(c)
        BY ReceivedNext
    <2>2. Beats0(c) \in Seq(Data) /\ Len(Beats0(c)) = Received(c) /\ Received(c) \in Nat
            /\ shown.data \in Data /\ Received(c) <= Burst
        BY Counts DEF Inv, Memory, MemTyped, Counted
    <2>3. SourceKept
        BY WordsNext
    <2> HIDE DEF now
    <2>4. ASSUME n - 1 \in 0..BurstLen, core.base # 0
          PROVE  [i \in 1..Blk |-> dram'[Source(core.base, c) + (n - 1) * Blk + i - 1]]
                   = [i \in 1..Blk |-> dram[Source(core.base, c) + (n - 1) * Blk + i - 1]]
        <3>1. \A i \in 1..Blk : dram'[Source(core.base, c) + (n - 1) * Blk + i - 1]
                                  = dram[Source(core.base, c) + (n - 1) * Blk + i - 1]
            BY <2>3, <2>4 DEF SourceKept
        <3> QED
            BY <3>1
    <2>5. CASE n <= Received(c)
        <3>1. n - 1 \in 0..BurstLen /\ n \in 1..Received(c) /\ Received(c) # 0
            BY <2>2, <2>5, Sizes
        <3>2. core.base # 0
            <4>1. core.base = 0 => core.got[c] = <<>> /\ resps[c] = <<>>
                BY DEF Inv, Memory, Control, Launched, Resting
            <4> QED
                BY <4>1, <3>1, Counts, Zenon DEF Inv, Memory
        <3>3. Beats0(c)[n] = [i \in 1..Blk |-> dram[Source(core.base, c) + (n - 1) * Blk + i - 1]]
            BY <3>1 DEF Inv, Memory, Arrived
        <3>4. Beats0(c)'[n] = Beats0(c)[n]
            <4> DEFINE e == IF now THEN <<shown.data>> ELSE <<>>
            <4>1. e \in Seq(Data) /\ Len(e) \in Nat
                BY <2>2
            <4>2. n \in 1..Len(Beats0(c)) + Len(e)
                BY <2>2, <3>1, <4>1
            <4>3. (Beats0(c) \o e)[n] = IF n <= Len(Beats0(c)) THEN Beats0(c)[n] ELSE e[n - Len(Beats0(c))]
                BY <2>2, <4>1, <4>2, ConcatProperties
            <4>4. Beats0(c)' = Beats0(c) \o e
                BY <2>1
            <4> HIDE DEF e
            <4> QED
                BY <2>2, <2>5, <4>3, <4>4
        <3> QED
            BY <2>4, <3>1, <3>2, <3>3, <3>4
    <2>6. CASE ~(n <= Received(c))
        <3>1. now /\ n = Received(c) + 1
            BY <2>1, <2>2, <2>6
        <3>2. RFire /\ vme.owner[bridge.ar.id] = c
            BY <3>1 DEF now
        <3>3. bridge.r = "data" /\ bridge.ar.id \in vme.issued /\ bridge.ar.id \in Busy
            BY <3>2, Events
        <3>4. /\ mdev.raddr = Source(core.base, c) + (Burst - vme.left[bridge.ar.id]) * Blk
              /\ shown = [valid |-> TRUE, id |-> bridge.ar.id,
                          data |-> [i \in 1..Blk |-> dram[mdev.raddr + i - 1]]]
            BY <3>2, <3>3 DEF Inv, Memory, Serving
        <3>5. Received(c) = Burst - vme.left[bridge.ar.id] /\ vme.left[bridge.ar.id] \in 1..Burst
            BY <3>2, <3>3 DEF Inv, Memory, Counted, Tracked
        <3>6. n - 1 = Burst - vme.left[bridge.ar.id] /\ n - 1 \in 0..BurstLen
            BY <3>1, <3>5, Sizes
        <3>7. shown.data = [i \in 1..Blk |-> dram[Source(core.base, c) + (n - 1) * Blk + i - 1]]
            BY <3>4, <3>6
        <3>8. core.base # 0
            BY <3>2, Events DEF Inv, Control, Launched
        <3>9. Beats0(c)'[n] = shown.data
            <4>1. Beats0(c)' = Beats0(c) \o <<shown.data>>
                BY <2>1, <3>1
            <4>2. <<shown.data>> \in Seq(Data) /\ Len(<<shown.data>>) = 1 /\ <<shown.data>>[1] = shown.data
                BY <2>2
            <4>3. n \in 1..Len(Beats0(c)) + 1
                BY <2>2, <3>1
            <4>4. (Beats0(c) \o <<shown.data>>)[n]
                    = IF n <= Len(Beats0(c)) THEN Beats0(c)[n] ELSE <<shown.data>>[n - Len(Beats0(c))]
                BY <2>2, <4>2, <4>3, ConcatProperties
            <4>5. n - Len(Beats0(c)) = 1
                BY <2>2, <3>1
            <4> QED
                BY <2>2, <2>6, <4>1, <4>2, <4>4, <4>5
        <3> QED
            BY <2>4, <3>6, <3>7, <3>8, <3>9
    <2> QED
        BY <2>5, <2>6
<1> QED
    BY <1>1, <1>2 DEF Arrived

\* A launch finds the memory path at rest.
LEMMA StartsNext ==
    ASSUME Inv, ReadDelay = 0, Starts, NEW ask \in SUBSET core.quiet, NEW take \in SUBSET Takers,
           NEW data \in BOOLEAN, Clock(ask, take, data)
    PROVE  /\ Counted' /\ Tracked' /\ Serving' /\ Arrived'
           /\ shown' \in [valid : BOOLEAN, id : Nat, data : Data]
<1>1. core.phase = "idle"
    BY DEF Starts, Inv, Control, Launched
<1>2. /\ vme.free = Slot /\ vme.issued = {} /\ core.asks = {} /\ vme.ar = None
      /\ bridge.queue = <<>> /\ bridge.r = "idle" /\ mdev.rlen = 0
      /\ ~Issue /\ ~ArFire /\ ~DeqFire /\ ~RFire /\ Takers = {}
    BY <1>1, NoReads
<1>3. core'.quiet = Client /\ core'.asks = {} /\ core'.got = [c \in Client |-> <<>>]
    <2>1. /\ core'.quiet = IF Starts THEN Client ELSE core.quiet \ ask
          /\ core'.asks = IF Starts THEN core.asks
                          ELSE (core.asks \ (IF Issue THEN {Min(core.asks)} ELSE {})) \cup ask
          /\ core'.got = IF Starts THEN [c \in Client |-> <<>>]
                         ELSE [c \in Client |-> IF c \in take THEN Append(core.got[c], Head(resps[c]))
                                                ELSE core.got[c]]
        BY CoreNext, Zenon DEF Inv, Memory
    <2> QED
        BY <1>2, <2>1
<1>4. \A c \in Client : resps'[c] = <<>>
    <2>1. \A c \in Client : resps[c] = <<>>
        BY <1>2 DEF Takers
    <2>2. resps' = Responses(take)
        BY DEF Clock, MemCycle
    <2>3. <<>> \o <<>> = <<>>
        OBVIOUS
    <2> QED
        BY <1>2, <2>1, <2>2, <2>3 DEF Responses
<1>5. \A c \in Client : Received(c)' = 0
    <2>1. Len(<<>>) + Len(<<>>) = 0
        OBVIOUS
    <2> QED
        BY <1>3, <1>4, <2>1 DEF Received
<1>6. Busy' = {} /\ vme'.issued = {} /\ vme'.ar = None
    <2>1. /\ vme'.ar = IF Issue THEN [addr |-> Source(core.base, Min(core.asks)), len |-> BurstLen,
                                       id |-> Min(vme.free)]
                       ELSE IF ArFire THEN None ELSE vme.ar
          /\ vme'.free = (vme.free \cup Freed) \ (IF Issue THEN {Min(vme.free)} ELSE {})
          /\ vme'.issued = (vme.issued \cup (IF ArFire THEN {vme.ar.id} ELSE {})) \ Freed
        BY VmeNext, Zenon DEF Inv, Memory
    <2> QED
        BY <1>2, <2>1 DEF Freed, Busy
<1>7. bridge'.queue = <<>> /\ bridge'.r = "idle"
    <2>1. /\ bridge'.queue = (IF DeqFire THEN Tail(bridge.queue) ELSE bridge.queue)
                                \o (IF ArFire THEN <<vme.ar>> ELSE <<>>)
          /\ bridge'.r = IF DeqFire THEN "data"
                         ELSE IF bridge.r = "data" /\ RReady /\ RLast THEN "idle" ELSE bridge.r
        BY BridgeNext, Zenon DEF Inv, Memory
    <2>2. <<>> \o <<>> = <<>>
        OBVIOUS
    <2> QED
        BY <1>2, <2>1, <2>2
<1>8. mdev'.rlen = 0 /\ mdev'.rid \in Nat
    <2>1. /\ mdev'.rlen = IF DeqFire THEN BurstLen + 1 ELSE IF RFire THEN mdev.rlen - 1 ELSE mdev.rlen
          /\ mdev'.rid = IF DeqFire THEN Head(bridge.queue).id ELSE mdev.rid
        BY DeviceNext, Zenon
    <2> QED
        BY <1>2, <2>1 DEF Inv, Memory, MemTyped
<1>9. shown' \in [valid : BOOLEAN, id : Nat, data : Data] /\ ~shown'.valid
    BY <1>8, ShownNext
<1>10. Counted'
    BY <1>3, <1>5, <1>6, Sizes DEF Counted, Received
<1>11. Tracked'
    BY <1>6, <1>7 DEF Tracked
<1>12. Serving'
    BY <1>7, <1>8, <1>9 DEF Serving
<1>13. Arrived'
    BY <1>5 DEF Arrived
<1> QED
    BY <1>9, <1>10, <1>11, <1>12, <1>13

LEMMA WritingNext ==
    ASSUME Inv, ReadDelay = 0, NEW ask \in SUBSET core.quiet, NEW take \in SUBSET Takers,
           NEW data \in BOOLEAN, Clock(ask, take, data)
    PROVE  Writing'
<1>1. /\ bridge'.w = CASE bridge.w = "idle" -> IF vme.w = "addr" THEN "addr" ELSE "idle"
                            [] bridge.w = "addr" -> IF vme.w = "addr" THEN "data" ELSE "addr"
                            [] bridge.w = "data" -> IF WrValid(data) /\ WLast THEN "resp" ELSE "data"
                            [] OTHER -> IF vme.w = "resp" THEN "idle" ELSE bridge.w
      /\ bridge'.aw = IF bridge.w = "idle" /\ vme.w = "addr"
                      THEN [addr |-> Target(core.base), len |-> Beats - 1, id |-> 0] ELSE bridge.aw
      /\ bridge'.awBefore = (vme.w = "addr")
    BY BridgeNext, Zenon DEF Inv, Memory
<1>2. /\ vme'.w = CASE vme.w = "idle" -> IF core.phase = "write" THEN "addr" ELSE "idle"
                         [] vme.w = "addr" -> IF bridge.w = "addr" THEN "data" ELSE "addr"
                         [] vme.w = "data" -> IF WrValid(data) /\ WLast THEN "resp" ELSE "data"
                         [] OTHER -> IF Ack THEN "idle" ELSE vme.w
      /\ vme'.sent = IF vme.w = "idle" THEN 0 ELSE IF WrValid(data) THEN vme.sent + 1 ELSE vme.sent
    BY VmeNext, Zenon DEF Inv, Memory
<1>3. /\ mdev'.wlen = IF Writes(data) THEN mdev.wlen - 1 ELSE IF AwValid THEN Beats ELSE mdev.wlen
      /\ mdev'.waddr = IF Writes(data) THEN mdev.waddr + Blk
                       ELSE IF AwValid THEN Target(core.base) ELSE mdev.waddr
    BY DeviceNext, Zenon
<1>4. /\ core'.phase = IF Starts THEN "read" ELSE NextPhase
      /\ core'.base = IF Starts THEN reg.base ELSE core.base
    BY CoreNext, Zenon DEF Inv, Memory
<1>5. Starts => core.phase = "idle"
    BY DEF Starts, Inv, Control, Launched
<1>6. core.phase \in Phase /\ core.base \in Nat /\ Beats \in Nat \ {0} /\ Blk \in Nat \ {0}
    BY Sizes DEF Inv, Memory, MemTyped
<1>7. CASE core.phase # "write"
    <2>1. vme.w = "idle" /\ bridge.w = "idle" /\ mdev.wlen = 0
        BY <1>7 DEF Inv, Memory, Writing
    <2>2. vme'.w = "idle" /\ bridge'.w = "idle"
        BY <1>1, <1>2, <1>7, <2>1
    <2>3. mdev'.wlen = 0
        BY <1>3, <2>1 DEF Writes, WrValid, AwValid
    <2> QED
        BY <2>2, <2>3 DEF Writing
<1>8. CASE core.phase = "write"
    <2>1. core'.base = core.base /\ (Ack => core'.phase = "finish") /\ (~Ack => core'.phase = "write")
        BY <1>4, <1>5, <1>8 DEF NextPhase
    <2>2. <<vme.w, bridge.w>> \in {<<"idle", "idle">>, <<"addr", "idle">>,
                                   <<"addr", "addr">>, <<"data", "data">>, <<"resp", "resp">>}
        BY <1>8 DEF Inv, Memory, Writing
    <2>3. vme.w # "data" => mdev.wlen = 0
        BY DEF Inv, Memory, Writing
    <2>4. CASE vme.w = "idle" /\ bridge.w = "idle"
        <3>1. ~Ack /\ ~Writes(data) /\ ~AwValid
            BY <2>4 DEF Ack, Writes, WrValid, AwValid
        <3>2. vme'.w = "addr" /\ bridge'.w = "idle" /\ vme'.sent = 0 /\ mdev'.wlen = 0 /\ core'.phase = "write"
            BY <1>1, <1>2, <1>3, <1>8, <2>1, <2>3, <2>4, <3>1
        <3> QED
            BY <3>2 DEF Writing
    <2>5. CASE vme.w = "addr" /\ bridge.w = "idle"
        <3>1. ~Ack /\ ~Writes(data) /\ ~AwValid /\ ~WrValid(data)
            BY <2>5 DEF Ack, Writes, WrValid, AwValid
        <3>2. vme.sent = 0
            BY <2>5 DEF Inv, Memory, Writing
        <3>3. vme'.w = "addr" /\ bridge'.w = "addr" /\ vme'.sent = 0 /\ mdev'.wlen = 0 /\ core'.phase = "write"
                /\ bridge'.awBefore
                /\ bridge'.aw = [addr |-> Target(core.base), len |-> Beats - 1, id |-> 0]
            BY <1>1, <1>2, <1>3, <1>8, <2>1, <2>3, <2>5, <3>1, <3>2
        <3> QED
            BY <2>1, <3>3 DEF Writing
    <2>6. CASE vme.w = "addr" /\ bridge.w = "addr"
        <3>1. ~Ack /\ ~Writes(data) /\ AwValid /\ ~WrValid(data)
            BY <2>6 DEF Ack, Writes, WrValid, AwValid, Inv, Memory, Writing
        <3>2. vme.sent = 0
            BY <2>6 DEF Inv, Memory, Writing
        <3>3. vme'.w = "data" /\ bridge'.w = "data" /\ vme'.sent = 0 /\ core'.phase = "write"
                /\ mdev'.wlen = Beats /\ mdev'.waddr = Target(core.base)
            BY <1>1, <1>2, <1>3, <1>8, <2>1, <2>6, <3>1, <3>2
        <3>4. Target(core.base) = Target(core.base) + 0 * Blk /\ Beats = Beats - 0 /\ 0 \in 0..Beats - 1
            <4>1. Target(core.base) \in Nat
                BY <1>6, Sizes DEF Target
            <4> QED
                BY <1>6, <4>1
        <3> QED
            BY <2>1, <3>3, <3>4 DEF Writing
    <2>7. CASE vme.w = "data" /\ bridge.w = "data"
        <3>1. ~Ack /\ ~AwValid /\ (WrValid(data) <=> data = TRUE)
            BY <2>7 DEF Ack, WrValid, AwValid
        <3>2. /\ vme.sent \in 0..Beats - 1 /\ mdev.wlen = Beats - vme.sent
              /\ mdev.waddr = Target(core.base) + vme.sent * Blk
            BY <2>7 DEF Inv, Memory, Writing
        <3>3. Writes(data) <=> WrValid(data)
            BY <1>6, <3>2 DEF Writes
        <3>4. CASE WrValid(data) /\ WLast
            <4>1. vme'.w = "resp" /\ bridge'.w = "resp" /\ core'.phase = "write"
                BY <1>1, <1>2, <1>8, <2>1, <2>7, <3>1, <3>4
            <4>2. mdev'.wlen = 0
                BY <1>3, <1>6, <3>2, <3>3, <3>4 DEF WLast
            <4> QED
                BY <4>1, <4>2 DEF Writing
        <3>5. CASE WrValid(data) /\ ~WLast
            <4>1. vme'.w = "data" /\ bridge'.w = "data" /\ core'.phase = "write"
                BY <1>1, <1>2, <1>8, <2>1, <2>7, <3>1, <3>5
            <4>2. /\ vme'.sent = vme.sent + 1 /\ mdev'.wlen = mdev.wlen - 1 /\ mdev'.waddr = mdev.waddr + Blk
                BY <1>2, <1>3, <2>7, <3>3, <3>5
            <4>3. vme'.sent \in 0..Beats - 1 /\ mdev'.wlen = Beats - vme'.sent
                BY <1>6, <3>2, <3>5, <4>2 DEF WLast
            <4>4. mdev'.waddr = Target(core.base) + vme'.sent * Blk
                <5>1. vme.sent * Blk + Blk = (vme.sent + 1) * Blk /\ vme.sent * Blk \in Nat
                    BY <1>6, <3>2
                <5>2. Target(core.base) \in Nat
                    BY <1>6, Sizes DEF Target
                <5> QED
                    BY <1>6, <3>2, <4>2, <5>1, <5>2
            <4> QED
                BY <2>1, <4>1, <4>3, <4>4 DEF Writing
        <3>6. CASE ~WrValid(data)
            <4>1. vme'.w = "data" /\ bridge'.w = "data" /\ core'.phase = "write"
                BY <1>1, <1>2, <1>8, <2>1, <2>7, <3>1, <3>6
            <4>2. vme'.sent = vme.sent /\ mdev'.wlen = mdev.wlen /\ mdev'.waddr = mdev.waddr
                BY <1>2, <1>3, <2>7, <3>1, <3>3, <3>6
            <4> QED
                BY <2>1, <3>2, <4>1, <4>2 DEF Writing
        <3> QED
            BY <3>4, <3>5, <3>6
    <2>8. CASE vme.w = "resp" /\ bridge.w = "resp"
        <3>1. Ack /\ ~Writes(data) /\ ~AwValid
            BY <2>8 DEF Ack, Writes, WrValid, AwValid
        <3>2. vme'.w = "idle" /\ bridge'.w = "idle" /\ mdev'.wlen = 0 /\ core'.phase = "finish"
            BY <1>1, <1>2, <1>3, <2>1, <2>3, <2>8, <3>1
        <3> QED
            BY <3>2 DEF Writing
    <2> QED
        BY <2>2, <2>4, <2>5, <2>6, <2>7, <2>8
<1> QED
    BY <1>7, <1>8

--------------------------------------------------------------------------------
(* The invariant, and what follows from it.                                *)

LEMMA InvInit ==
    ASSUME Init, ReadDelay = 0
    PROVE  Inv
<1> USE DEF Init, MemInit
<1>1. Control
    <2>1. run \in 0..MaxRuns /\ reqs \in Seq(Requests) /\ answers \in Seq(Nat)
        BY Sizes
    <2>2. HostTyped
        <3>1. conv \in [state : {"idle", "readAddress", "writeAddress", "readData", "writeData",
                                "writeResponse"},
                       req : Requests \cup {NoReq}, shown : Requests \cup {NoReq}, rdata : Nat]
            OBVIOUS
        <3>2. pc \in Place /\ pc \in Between
            BY DEF Place, Between
        <3>3. conv.state = "idle" /\ launchBefore \in BOOLEAN
            OBVIOUS
        <3>4. reg \in [ctrl : 0..2, base : {0} \cup Bases, beats : Nat]
            <4>1. reg = [ctrl |-> 0, base |-> 0, beats |-> 0]
                OBVIOUS
            <4> HIDE DEF Init, MemInit
            <4> QED
                BY <4>1
        <3> HIDE DEF Init, MemInit
        <3> QED
            BY <2>1, <3>1, <3>2, <3>3, <3>4 DEF HostTyped
    <2>3. BaseFirst
        BY DEF BaseFirst, Between
    <2>4. Launched
        BY DEF Launched
    <2> QED
        BY <2>2, <2>3, <2>4 DEF Control
<1>2. MemTyped
    <2>1. dram \in [Words -> Int]
        BY DEF Words
    <2>2. shown \in [valid : BOOLEAN, id : Nat, data : Data]
        <3>1. Dead \in Data
            BY DEF Dead, Data
        <3> QED
            BY <3>1
    <2>3. None \in Request0
        BY DEF None, Request0
    <2>4. bridge \in [queue : Seq(Request0), r : {"idle", "data"}, ar : Request0, delay : {0},
                      w : Handshake, aw : Request0, awBefore : BOOLEAN]
        BY <2>3 DEF Handshake
    <2>5. vme \in [ar : Request0, free : SUBSET Slot, issued : SUBSET Slot, owner : [Slot -> 0..Clients],
                   left : [Slot -> Nat], w : Handshake, sent : Nat, beats : Nat]
        BY <2>3, Sizes DEF Handshake
    <2>6. resps \in [Client -> Seq(Data)]
        OBVIOUS
    <2>7. core \in [phase : Phase, base : Nat, quiet : SUBSET Client, asks : SUBSET Client,
                    got : [Client -> Seq(Data)]]
        BY DEF Phase
    <2>8. mdev \in [raddr : Int, rlen : Nat, rid : Nat, waddr : Int, wlen : Nat]
        OBVIOUS
    <2> QED
        BY <2>1, <2>2, <2>4, <2>5, <2>6, <2>7, <2>8 DEF MemTyped
<1>3. \A c \in Client : core.got[c] = <<>> /\ resps[c] = <<>> /\ Received(c) = 0
    BY <1>2, Counts
<1>4. Busy = {}
    BY DEF Busy
<1>5. Counted
    BY <1>3, <1>4, Sizes DEF Counted
<1>6. Tracked /\ Serving
    BY DEF Tracked, Serving
<1>7. Arrived
    BY <1>3 DEF Arrived
<1>8. Resting /\ Writing
    BY <1>3 DEF Resting, Writing
<1> QED
    BY <1>1, <1>2, <1>5, <1>6, <1>7, <1>8 DEF Inv, Memory

\* A step that touches none of this.
LEMMA InvStays ==
    ASSUME Inv, UNCHANGED <<dram, host, queues, hardware>>
    PROVE  Inv'
<1> USE DEF host, queues, hardware
<1>1. Control'
    BY DEF Inv, Control, HostTyped, Requests, Bases, BaseFirst, BaseComes, Launched, memPath
<1>2. dram' \in [Words -> Int] /\ SourceKept
    BY DEF Inv, Memory, MemTyped, SourceKept
<1>3. Memory'
    BY <1>2, SameSource
<1> QED
    BY <1>1, <1>3 DEF Inv

LEMMA InvClock ==
    ASSUME Inv, ReadDelay = 0, NEW ask \in SUBSET core.quiet, NEW take \in SUBSET Takers,
           NEW data \in BOOLEAN, Clock(ask, take, data)
    PROVE  Inv'
<1>1. \A c \in Client : resps[c] = <<>> \/ core.base # 0
    BY DEF Inv, Memory, Resting, Control, Launched
<1>2. Control'
    BY <1>1, ClockControl DEF Inv, Memory
<1>3. Resting' /\ Writing'
    BY RestingNext, WritingNext
<1>4. CASE Starts
    <2>1. /\ Counted' /\ Tracked' /\ Serving' /\ Arrived'
          /\ shown' \in [valid : BOOLEAN, id : Nat, data : Data]
        BY <1>4, StartsNext
    <2>2. MemTyped'
        BY <1>2, <2>1, TypesNext
    <2> QED
        BY <1>2, <1>3, <2>1, <2>2 DEF Inv, Memory
<1>5. CASE ~Starts
    <2>1. Serving' /\ shown' \in [valid : BOOLEAN, id : Nat, data : Data]
        BY <1>5, ServingNext
    <2>2. Counted' /\ Tracked' /\ Arrived'
        BY <1>5, CountedNext, TrackedNext, ArrivedNext
    <2>3. MemTyped'
        BY <1>2, <2>1, TypesNext
    <2> QED
        BY <1>2, <1>3, <2>1, <2>2, <2>3 DEF Inv, Memory
<1> QED
    BY <1>4, <1>5

LEMMA InvNext ==
    ASSUME Inv, [Next]_vars, ReadDelay = 0
    PROVE  Inv'
<1>1. CASE HostStep
    BY <1>1, HostControl, HostMemory DEF Inv
<1>2. CASE Held \/ UNCHANGED vars
    BY <1>2, InvStays DEF Held, vars
<1>3. ASSUME NEW ask \in SUBSET core.quiet, NEW take \in SUBSET Takers, NEW data \in BOOLEAN,
             Clock(ask, take, data)
      PROVE  Inv'
    BY <1>3, InvClock
<1> QED
    BY <1>1, <1>2, <1>3 DEF Next, SimStep

LEMMA Invariant ==
    ASSUME ReadDelay = 0
    PROVE  Spec => []Inv
<1>1. Init => Inv
    BY InvInit
<1>2. Inv /\ [Next]_vars => Inv'
    BY InvNext
<1> QED
    BY <1>1, <1>2, PTL DEF Spec

\* The assertions of the memory engine hold in every cycle: a beat that comes
\* back has a slot that was given out, whose request has been sent and whose
\* beats are not over, and the beat marked as the last is the slot's last.
THEOREM BeatsHaveTheirSlot ==
    ASSUME ReadDelay = 0
    PROVE  Spec => []VmeAssertions
<1>1. ASSUME Inv
      PROVE  VmeAssertions
    <2>1. ASSUME RValid
          PROVE  /\ shown.id \in Slot \ vme.free /\ shown.id \in vme.issued
                 /\ vme.left[shown.id] # 0 /\ (RLast <=> vme.left[shown.id] = 1)
        <3> DEFINE s == bridge.ar.id
        <3>1. /\ s \in vme.issued /\ vme.left[s] = bridge.ar.len + 1 /\ bridge.ar.len \in Nat
              /\ shown.id = s /\ shown.valid
            BY <1>1, <2>1 DEF RValid, Inv, Memory, Serving, MemTyped, Request0
        <3>2. s \in Busy
            BY <1>1, <3>1 DEF Inv, Memory, Tracked
        <3> HIDE DEF s
        <3> QED
            BY <3>1, <3>2 DEF RLast, Busy
    <2> QED
        BY <2>1 DEF VmeAssertions
<1>2. Spec => []Inv
    BY Invariant
<1> QED
    BY <1>1, <1>2, PTL

\* Each client gets the beats it asked for, in order and once, and what it got
\* is still what memory holds: for any number of clients, slots and beats.
THEOREM ClientsGetTheirBeats ==
    ASSUME ReadDelay = 0
    PROVE  Spec => []BeatsInOrder
<1>1. ASSUME Inv
      PROVE  BeatsInOrder
    <2>1. ASSUME NEW c \in Client, NEW n \in DOMAIN core.got[c], NEW i \in 1..Blk
          PROVE  core.got[c][n][i] = dram[Source(core.base, c) + (n - 1) * Blk + i - 1]
        <3> DEFINE l == Len(core.got[c])
                   m == Len(resps[c])
        <3>1. core.got[c] \in Seq(Data) /\ resps[c] \in Seq(Data) /\ l \in Nat /\ m \in Nat
                /\ Received(c) = l + m
            BY <1>1, Counts DEF Inv, Memory
        <3>2. n \in 1..l
            BY <3>1, LenProperties
        <3> HIDE DEF l, m
        <3>3. Beats0(c)[n] = core.got[c][n]
            <4>1. n \in 1..l + m /\ n <= l
                BY <3>1, <3>2
            <4>2. (core.got[c] \o resps[c])[n] = IF n <= l THEN core.got[c][n] ELSE resps[c][n - l]
                BY <3>1, <4>1, ConcatProperties DEF l, m
            <4> QED
                BY <4>1, <4>2 DEF Beats0
        <3>4. n \in 1..Received(c)
            BY <3>1, <3>2
        <3>5. Beats0(c)[n] = [k \in 1..Blk |-> dram[Source(core.base, c) + (n - 1) * Blk + k - 1]]
            BY <1>1, <3>4 DEF Inv, Memory, Arrived
        <3> QED
            BY <3>3, <3>5
    <2> QED
        BY <2>1 DEF BeatsInOrder
<1>2. Spec => []Inv
    BY Invariant
<1> QED
    BY <1>1, <1>2, PTL

--------------------------------------------------------------------------------
(* A call of VTADeviceRun, as long as none has run out of polls.  Todo are *)
(* the requests that have yet to have their effect; the host has at most   *)
(* one read among them, the last, and waits for it.                        *)

InHand == conv.state \in {"writeData", "readData"}
Todo == IF InHand THEN <<conv.req>> \o reqs ELSE reqs
SetBase == Write("base", Base(run))
SetStart == Write("ctrl", 1)
ReadCtrl == Read("ctrl")
ReadBeats == Read("beats")

\* What VTAHostDPI.v shows is the front of the queue when it is looked at.
Shows ==
    /\ conv.state = "readData" => conv.req.op = "read"
    /\ Deq => reqs # <<>> /\ Head(reqs) = conv.req
    /\ conv.state \in {"idle", "writeResponse"} /\ conv.shown # NoReq => reqs # <<>> /\ Head(reqs) = conv.shown

\* How far the run of this call is.
Before == IF run <= 1 THEN 0 ELSE Base(run - 1)
Unstarted == core.phase = "idle" /\ core.base = Before /\ reg.ctrl # 1
Ready ==
    /\ core.phase = "idle" /\ core.base = Before
    /\ reg.ctrl = 1 /\ ~launchBefore /\ reg.base = Base(run)
Running == core.phase # "idle" /\ core.base = Base(run)
Finished == core.phase = "idle" /\ core.base = Base(run) /\ reg.ctrl = 2 /\ reg.beats = Beats
Started == Ready \/ Running \/ Finished

\* Where the host is, what is on its way, and how far the run is then.
Sending(rest) ==
    \/ Todo = <<SetBase>> \o rest /\ Unstarted
    \/ Todo = rest /\ Unstarted /\ reg.base = Base(run)
Calls ==
    /\ pc \notin {"polled", "update"} => answers = <<>>
    /\ pc \in Between => Todo = <<>> /\ IF run = 0 THEN Unstarted ELSE Finished
    /\ pc \in {"resume", "base"} => Todo = <<>> /\ Unstarted
    /\ pc = "start" => Sending(<<>>)
    /\ pc = "poll" => Sending(<<SetStart>>) \/ (Todo = <<>> /\ Started)
    /\ pc = "polled" =>
         \/ answers = <<>> /\ (Sending(<<SetStart, ReadCtrl>>) \/ (Todo = <<ReadCtrl>> /\ Started))
         \/ Len(answers) = 1 /\ Todo = <<>> /\ Started /\ (Head(answers) = 2 => Finished)
    /\ pc \in {"counters", "wait"} => Todo = <<>> /\ Finished
    /\ pc = "update" =>
         /\ Finished
         /\ \/ answers = <<>> /\ Todo = <<ReadBeats>>
            \/ answers = <<Beats>> /\ Todo = <<>>
    /\ conv.state = "readData" =>
         IF conv.req = ReadBeats THEN conv.rdata = Beats ELSE conv.rdata = 2 => Finished

\* The beats counted are those that came back.
Taken == {p \in Client \X (1..Burst) : p[2] <= Received(p[1])}
Tally ==
    /\ ~launchBefore => vme.beats = 0
    /\ core.phase # "idle" => vme.beats = Cardinality(Taken)
    /\ core.phase = "finished" => reg.beats = Beats

\* What is in memory.
Filled == \A r \in 1..run : \A i \in 0..Beats * Blk - 1 : dram[Base(r) + i] = Base(r) + i
Progress ==
    IF core.phase = "read" \/ (core.phase = "write" /\ vme.w \in {"idle", "addr"}) THEN 0
    ELSE IF vme.w = "data" THEN vme.sent * Blk
    ELSE Beats * Blk
Reached(r, i) == Base(r) < core.base \/ (Base(r) = core.base /\ i < Progress)
Outcome ==
    \A r \in 1..MaxRuns : \A i \in 0..Beats * Blk - 1 :
        dram[Target(Base(r)) + i] = IF i # Beats * Blk - 1 /\ Reached(r, i) THEN Base(r) + i ELSE 0

Summed ==
    /\ cleared \in 0..run /\ prof \in Nat
    /\ pc \notin Between \cup {"wait"} => cleared < run
    /\ prof = ((IF pc \in Between \cup {"wait"} THEN run ELSE run - 1) - cleared) * Beats

Completed == Shows /\ Tally /\ Filled /\ (~expired => Calls /\ Outcome /\ Summed)


LEMMA FrontFirst ==
    ASSUME NEW T, NEW s \in Seq(T), NEW x \in T, NEW y \in T
    PROVE  /\ <<x>> \o s \in Seq(T) /\ <<x>> \o s # <<>> /\ Head(<<x>> \o s) = x /\ Tail(<<x>> \o s) = s
           /\ Append(<<x>> \o s, y) = <<x>> \o Append(s, y)
           /\ s # <<>> => <<Head(s)>> \o Tail(s) = s
<1>1. <<x>> \o s \in Seq(T) /\ Len(<<x>> \o s) = Len(s) + 1 /\ Len(s) \in Nat
    OBVIOUS
<1>2. <<x>> \o s # <<>> /\ Head(<<x>> \o s) = x
    OBVIOUS
<1>3. Tail(<<x>> \o s) = s
    OBVIOUS
<1>4. Append(<<x>> \o s, y) = <<x>> \o Append(s, y)
    <2>1. Append(s, y) \in Seq(T) /\ Len(Append(s, y)) = Len(s) + 1
        OBVIOUS
    <2>2. Append(<<x>> \o s, y) \in Seq(T) /\ <<x>> \o Append(s, y) \in Seq(T)
            /\ Len(Append(<<x>> \o s, y)) = Len(s) + 2 /\ Len(<<x>> \o Append(s, y)) = Len(s) + 2
        BY <1>1, <2>1
    <2>3. \A k \in 1..Len(s) + 2 : Append(<<x>> \o s, y)[k] = (<<x>> \o Append(s, y))[k]
        BY <1>1, <2>1
    <2> QED
        BY <2>2, <2>3, SeqEqual
<1>5. s # <<>> => <<Head(s)>> \o Tail(s) = s
    <2> SUFFICES ASSUME s # <<>> PROVE <<Head(s)>> \o Tail(s) = s
        OBVIOUS
    <2>1. Head(s) \in T /\ Tail(s) \in Seq(T) /\ Len(Tail(s)) = Len(s) - 1 /\ Len(s) \in Nat \ {0}
        OBVIOUS
    <2>2. <<Head(s)>> \o Tail(s) \in Seq(T) /\ Len(<<Head(s)>> \o Tail(s)) = Len(s)
        BY <2>1
    <2>3. \A k \in 1..Len(s) : (<<Head(s)>> \o Tail(s))[k] = s[k]
        BY <2>1
    <2> QED
        BY <2>2, <2>3, SeqEqual
<1> QED
    BY <1>1, <1>2, <1>3, <1>4, <1>5

LEMMA ShortQueues ==
    ASSUME NEW T, NEW x \in T, NEW y \in T
    PROVE  Append(<<>>, x) = <<x>> /\ Append(<<x>>, y) = <<x, y>>
<1>1. Append(<<x>>, y) = <<x, y>>
    <2>1. <<x>> \in Seq(T) /\ Len(<<x>>) = 1
        OBVIOUS
    <2>2. Append(<<x>>, y) \in Seq(T) /\ <<x, y>> \in Seq(T)
            /\ Len(Append(<<x>>, y)) = 2 /\ Len(<<x, y>>) = 2
        BY <2>1
    <2>3. \A k \in 1..2 : Append(<<x>>, y)[k] = <<x, y>>[k]
        BY <2>1
    <2> QED
        BY <2>2, <2>3, SeqEqual
<1>2. Append(<<>>, x) = <<x>>
    OBVIOUS
<1> QED
    BY <1>1, <1>2

\* What the host has sent is taken up from the front, and has its effect when the
\* converter has it in hand.
LEMMA TodoNow ==
    ASSUME HostTyped, Shows
    PROVE  /\ InHand => conv.req \in Requests /\ Todo # <<>> /\ Head(Todo) = conv.req
           /\ Todo \in Seq(Requests) /\ reqs \in Seq(Requests)
           /\ InHand => Tail(Todo) = reqs
           /\ ~InHand => Todo = reqs
<1>1. reqs \in Seq(Requests) /\ (InHand => conv.req \in Requests)
    BY DEF HostTyped, Shows, InHand, NoReq
<1> QED
    BY <1>1, FrontFirst DEF Todo

LEMMA TodoNext ==
    ASSUME Inv, Shows, HostDPI, conv' = Converted, reg' = Registers
    PROVE  Shows' /\ Todo' = IF InHand THEN Tail(Todo) ELSE Todo
<1>1. /\ conv'.shown = IF reqs = <<>> THEN NoReq ELSE Head(reqs)
      /\ conv'.req = IF conv.state = "idle" /\ conv.shown # NoReq THEN conv.shown ELSE conv.req
      /\ conv'.state = CASE conv.state = "idle" /\ conv.shown.op = "read" -> "readAddress"
                  [] conv.state = "idle" /\ conv.shown.op = "write" -> "writeAddress"
                  [] conv.state = "readAddress" -> "readData"
                  [] conv.state = "writeAddress" -> "writeData"
                  [] conv.state = "writeData" -> "writeResponse"
                  [] OTHER -> "idle"
    BY ControlNext, Zenon DEF Inv, Memory
<1>2. NoReq.op = "none"
    BY DEF NoReq
<1>3. conv.shown \in Requests \cup {NoReq} /\ reqs \in Seq(Requests)
    BY DEF Inv, Control, HostTyped
<1>4. conv.shown # NoReq => conv.shown.op \in {"read", "write"}
    BY <1>3, KnownBases DEF Inv, Control
<1>5. conv.state \in {"idle", "readAddress", "writeAddress", "readData", "writeData", "writeResponse"}
    BY DEF Inv, Control, HostTyped
<1>6. reqs' = IF Deq THEN Tail(reqs) ELSE reqs
    BY DEF HostDPI, Shows
<1>7. CASE Deq
    <2>1. reqs # <<>> /\ Head(reqs) = conv.req /\ ~InHand
        BY <1>7 DEF Shows, Deq, InHand
    <2>2. /\ conv'.state = IF conv.state = "readAddress" THEN "readData" ELSE "writeData"
          /\ conv'.req = conv.req /\ reqs' = Tail(reqs)
        BY <1>1, <1>6, <1>7 DEF Deq
    <2>3. Todo' = <<Head(reqs)>> \o Tail(reqs)
        BY <2>1, <2>2 DEF Todo, InHand
    <2>4. conv.req \in Requests
        BY <2>1, <1>3
    <2>5. Todo' = Todo
        BY <2>1, <2>3, <2>4, <1>3, FrontFirst DEF Todo
    <2>6. conv.state = "readAddress" => conv.req.op = "read"
        BY DEF Inv, Control, HostTyped
    <2>7. Shows'
        BY <2>2, <2>6 DEF Shows, Deq
    <2> QED
        BY <2>1, <2>5, <2>7
<1>8. CASE conv.state = "idle"
    <2>1. ~InHand /\ ~Deq /\ reqs' = reqs
        BY <1>6, <1>8 DEF InHand, Deq
    <2>2. conv'.state = IF conv.shown = NoReq THEN "idle"
                        ELSE IF conv.shown.op = "read" THEN "readAddress" ELSE "writeAddress"
        BY <1>1, <1>2, <1>4, <1>8
    <2>3. Todo' = Todo
        BY <2>1, <2>2 DEF Todo, InHand
    <2>4. Shows'
        BY <1>1, <1>8, <2>1, <2>2 DEF Shows, Deq
    <2> QED
        BY <2>1, <2>3, <2>4
<1>9. CASE conv.state \in {"readData", "writeData", "writeResponse"}
    <2>1. /\ conv'.state = IF conv.state = "writeData" THEN "writeResponse" ELSE "idle"
          /\ reqs' = reqs
        BY <1>1, <1>6, <1>9 DEF Deq
    <2>2. Todo' = reqs
        BY <2>1 DEF Todo, InHand
    <2>3. Shows'
        BY <1>1, <2>1 DEF Shows, Deq
    <2> QED
        BY <2>2, <2>3, TodoNow DEF Inv, Control
<1> QED
    BY <1>5, <1>7, <1>8, <1>9 DEF Deq

\* A step of the host.
LEMMA TodoHost ==
    ASSUME HostTyped, Shows, UNCHANGED conv
    PROVE  /\ reqs' = reqs => Shows' /\ Todo' = Todo
           /\ \A q \in Requests : reqs' = Append(reqs, q) => Shows' /\ Todo' = Append(Todo, q)
<1>1. reqs' = reqs => Shows' /\ Todo' = Todo
    BY DEF Shows, Deq, Todo, InHand
<1>2. ASSUME NEW q \in Requests, reqs' = Append(reqs, q)
      PROVE  Shows' /\ Todo' = Append(Todo, q)
    <2>1. reqs \in Seq(Requests)
        BY DEF HostTyped
    <2>2. reqs' # <<>> /\ (reqs # <<>> => Head(reqs') = Head(reqs))
        BY <1>2, <2>1
    <2>3. Shows'
        BY <2>2 DEF Shows, Deq
    <2>4. InHand => conv.req \in Requests
        BY TodoNow
    <2>5. Todo' = Append(Todo, q)
        BY <1>2, <2>1, <2>4, FrontFirst DEF Todo, InHand
    <2> QED
        BY <2>3, <2>5
<1> QED
    BY <1>1, <1>2

\* How far the run of this call is after a cycle.
LEMMA StageNext ==
    ASSUME Inv, Shows, Tally, NEW ask \in SUBSET core.quiet, NEW take, NEW data, Clock(ask, take, data)
    PROVE  /\ Unstarted /\ ~(InHand /\ conv.req = SetStart) => Unstarted'
           /\ Unstarted /\ InHand /\ conv.req = SetStart /\ reg.base = Base(run) => Ready'
           /\ Ready => Running'
           /\ Running => Running' \/ Finished'
           /\ Finished /\ (InHand => conv.req.op = "read") => Finished'
           /\ InHand /\ conv.req = SetBase => reg'.base = Base(run)
           /\ (InHand => conv.req.op = "read" \/ conv.req = SetStart) => reg'.base = reg.base
<1>1. /\ conv.state = "writeData" => conv.req \in Requests /\ conv.req.op = "write"
      /\ reg'.base = IF conv.state = "writeData" /\ conv.req.addr = "base" THEN conv.req.value ELSE reg.base
      /\ reg'.ctrl = IF core.phase = "finished" THEN 2
                     ELSE IF conv.state = "writeData" /\ conv.req.addr = "ctrl" THEN 1 ELSE reg.ctrl
      /\ reg'.beats = IF core.phase = "finish" THEN vme.beats ELSE reg.beats
    BY ControlNext, Zenon DEF Inv, Memory, Clock
<1>2. conv.state = "readData" => conv.req.op = "read"
    BY DEF Shows
<1>3. /\ SetStart.op = "write" /\ SetStart.addr = "ctrl"
      /\ SetBase.op = "write" /\ SetBase.addr = "base" /\ SetBase.value = Base(run)
    BY DEF SetStart, SetBase, Write
<1>4. ASSUME conv.state = "writeData", conv.req.addr = "ctrl"
      PROVE  conv.req = SetStart
    BY <1>1, <1>4 DEF Requests, Read, Write, SetStart
<1>5. /\ core'.phase = IF Starts THEN "read" ELSE NextPhase
      /\ core'.base = IF Starts THEN reg.base ELSE core.base
    BY CoreNext, Zenon DEF Inv, Memory
<1>6. run' = run /\ launchBefore' = Launch
    BY DEF Clock, host
<1>7. Before' = Before /\ Base(run)' = Base(run)
    BY <1>6 DEF Before, Base
<1>8. core.phase \in Phase
    BY DEF Inv, Memory, MemTyped
<1>9. ASSUME Unstarted
      PROVE  core'.phase = "idle" /\ core'.base = Before' /\ ~Launch
    BY <1>5, <1>7, <1>9 DEF Unstarted, Starts, Launch, NextPhase
<1>10. ASSUME Unstarted, ~(InHand /\ conv.req = SetStart)
       PROVE  Unstarted'
    <2>1. reg'.ctrl # 1
        BY <1>1, <1>4, <1>10 DEF Unstarted, InHand
    <2> QED
        BY <1>9, <1>10, <2>1 DEF Unstarted
<1>11. ASSUME Unstarted, InHand, conv.req = SetStart, reg.base = Base(run)
       PROVE  Ready'
    <2>1. conv.state = "writeData"
        BY <1>2, <1>3, <1>11 DEF InHand
    <2>2. reg'.ctrl = 1 /\ reg'.base = Base(run)
        BY <1>1, <1>3, <1>11, <2>1 DEF Unstarted
    <2>3. ~launchBefore'
        BY <1>6, <1>9, <1>11
    <2> QED
        BY <1>7, <1>9, <1>11, <2>2, <2>3 DEF Ready
<1>12. ASSUME Ready
       PROVE  Running'
    BY <1>5, <1>7, <1>12 DEF Ready, Running, Starts, Launch
<1>13. ASSUME Running
       PROVE  Running' \/ Finished'
    <2>1. ~Starts
        BY <1>13 DEF Running, Starts, Inv, Control, Launched
    <2>2. CASE core.phase = "finished"
        <3>1. core'.phase = "idle" /\ core'.base = Base(run)
            BY <1>5, <1>13, <2>1, <2>2 DEF Running, NextPhase
        <3>2. reg'.ctrl = 2 /\ reg'.beats = Beats
            BY <1>1, <2>2 DEF Tally
        <3> QED
            BY <1>7, <3>1, <3>2 DEF Finished
    <2>3. CASE core.phase # "finished"
        <3>1. core'.phase # "idle" /\ core'.base = Base(run)
            BY <1>5, <1>8, <1>13, <2>1, <2>3, NextPhases DEF Running
        <3> QED
            BY <1>7, <3>1 DEF Running
    <2> QED
        BY <2>2, <2>3
<1>14. ASSUME Finished, InHand => conv.req.op = "read"
       PROVE  Finished'
    <2>1. conv.state # "writeData"
        BY <1>1, <1>14 DEF InHand
    <2>2. reg'.ctrl = 2 /\ reg'.beats = Beats
        BY <1>1, <1>14, <2>1 DEF Finished
    <2>3. core'.phase = "idle" /\ core'.base = Base(run)
        BY <1>5, <1>14 DEF Finished, Starts, Launch, NextPhase
    <2> QED
        BY <1>7, <2>2, <2>3 DEF Finished
<1>15. InHand /\ conv.req = SetBase => reg'.base = Base(run)
    BY <1>1, <1>2, <1>3 DEF InHand
<1>16. ASSUME InHand => conv.req.op = "read" \/ conv.req = SetStart
       PROVE  reg'.base = reg.base
    <2>1. conv.state = "writeData" => conv.req = SetStart
        BY <1>1, <1>16 DEF InHand
    <2> QED
        BY <1>1, <1>3, <2>1
<1> QED
    BY <1>10, <1>11, <1>12, <1>13, <1>14, <1>15, <1>16

LEMMA Sent ==
    /\ SetBase.op = "write" /\ SetStart.op = "write" /\ ReadCtrl.op = "read" /\ ReadBeats.op = "read"
    /\ SetBase # SetStart /\ ReadCtrl # ReadBeats
    /\ ReadCtrl.addr = "ctrl" /\ ReadBeats.addr = "beats"
BY DEF SetBase, SetStart, ReadCtrl, ReadBeats, Read, Write

LEMMA Stages ==
    ASSUME HostTyped, Calls
    PROVE  /\ Unstarted \/ Ready \/ Running \/ Finished
           /\ pc \in {"counters", "update", "wait"} => Finished
BY DEF HostTyped, Place, Between, Calls, Sending, Started

\* The start bit is the one write after the base address.
LEMMA SendingNext ==
    ASSUME Inv, Shows, Tally, NEW ask \in SUBSET core.quiet, NEW take, NEW data, Clock(ask, take, data),
           NEW rest \in {<<>>, <<SetStart>>, <<SetStart, ReadCtrl>>}, Sending(rest)
    PROVE  /\ Sending(rest)' \/ (rest # <<>> /\ Todo' = Tail(rest) /\ Ready')
           /\ conv.state # "readData"
<1>1. /\ Todo' = IF InHand THEN Tail(Todo) ELSE Todo
      /\ InHand => Todo # <<>> /\ Head(Todo) = conv.req
    BY TodoNext, TodoNow DEF Clock, Inv, Control
<1>2. /\ Unstarted /\ ~(InHand /\ conv.req = SetStart) => Unstarted'
      /\ Unstarted /\ InHand /\ conv.req = SetStart /\ reg.base = Base(run) => Ready'
      /\ InHand /\ conv.req = SetBase => reg'.base = Base(run)
      /\ (InHand => conv.req.op = "read" \/ conv.req = SetStart) => reg'.base = reg.base
    BY StageNext
<1>3. Base(run)' = Base(run) /\ SetBase' = SetBase
    BY DEF Clock, host, Base, SetBase
<1>4. conv.state = "readData" => InHand /\ conv.req.op = "read"
    BY DEF Shows, InHand
<1>5. CASE Todo = <<SetBase>> \o rest /\ Unstarted
    <2>1. Head(Todo) = SetBase /\ Tail(Todo) = rest
        <3> DEFINE T == {SetBase, SetStart, ReadCtrl}
        <3>1. SetBase \in T /\ SetStart \in T /\ ReadCtrl \in T
            OBVIOUS
        <3> HIDE DEF T
        <3>2. <<>> \in Seq(T) /\ <<SetStart>> \in Seq(T) /\ <<SetStart, ReadCtrl>> \in Seq(T)
            BY <3>1
        <3>3. rest \in Seq(T)
            BY <3>2
        <3> QED
            BY <1>5, <3>1, <3>3, FrontFirst
    <2>2. InHand => conv.req = SetBase
        BY <1>1, <2>1
    <2>3. Unstarted'
        BY <1>2, <1>5, <2>2, Sent
    <2>4. CASE InHand
        BY <1>1, <1>2, <1>3, <1>4, <2>1, <2>2, <2>3, <2>4, Sent DEF Sending
    <2>5. CASE ~InHand
        BY <1>1, <1>3, <1>4, <1>5, <2>3, <2>5 DEF Sending
    <2> QED
        BY <2>4, <2>5
<1>6. CASE Todo = rest /\ Unstarted /\ reg.base = Base(run)
    <2>1. rest # <<>> => Head(Todo) = SetStart
        BY <1>6
    <2>2. CASE InHand
        <3>1. conv.req = SetStart /\ rest # <<>>
            BY <1>1, <1>6, <2>1, <2>2
        <3> QED
            BY <1>1, <1>2, <1>4, <1>6, <2>2, <3>1, Sent
    <2>3. CASE ~InHand
        <3>1. Unstarted' /\ reg'.base = reg.base
            BY <1>2, <1>6, <2>3
        <3> QED
            BY <1>1, <1>3, <1>4, <1>6, <2>3, <3>1 DEF Sending
    <2> QED
        BY <2>2, <2>3
<1> QED
    BY <1>5, <1>6 DEF Sending

LEMMA CallsClock ==
    ASSUME Inv, Shows, Tally, Calls, NEW ask \in SUBSET core.quiet, NEW take, NEW data,
           Clock(ask, take, data)
    PROVE  Calls'
<1>1. /\ Todo' = IF InHand THEN Tail(Todo) ELSE Todo
      /\ InHand => Todo # <<>> /\ Head(Todo) = conv.req
      /\ reqs # <<>> /\ ~InHand => Todo = reqs
    BY TodoNext, TodoNow DEF Clock, Inv, Control
<1>2. /\ Unstarted /\ ~(InHand /\ conv.req = SetStart) => Unstarted'
      /\ Ready => Running'
      /\ Running => Running' \/ Finished'
      /\ Finished /\ (InHand => conv.req.op = "read") => Finished'
    BY StageNext
<1>3. Started /\ (InHand => conv.req.op = "read") => Started'
    BY <1>2 DEF Started
<1>4. pc' = pc /\ run' = run /\ answers' = IF conv.state = "readData" THEN Append(answers, conv.rdata) ELSE answers
    BY DEF Clock, host, HostDPI
<1>5. conv.state = "readData" => InHand /\ conv.req.op = "read"
    BY DEF Shows, InHand
<1>6. pc \in Place /\ answers \in Seq(Nat)
    BY DEF Inv, Control, HostTyped
<1>7. Todo = <<>> => Todo' = <<>> /\ ~InHand /\ answers' = answers
    BY <1>1, <1>4, <1>5
<1>8. ASSUME pc \notin {"polled", "update"}
      PROVE  answers' = <<>>
    <2>1. answers = <<>>
        BY <1>8 DEF Calls
    <2>2. conv.state # "readData"
        <3>1. CASE pc = "start"
            BY <3>1, SendingNext DEF Calls
        <3>2. CASE pc = "poll"
            BY <1>5, <1>7, <3>2, SendingNext DEF Calls
        <3>3. CASE pc \notin {"start", "poll"}
            BY <1>5, <1>6, <1>7, <1>8, <3>3 DEF Calls, Place, Between
        <3> QED
            BY <3>1, <3>2, <3>3
    <2> QED
        BY <1>4, <2>1, <2>2
<1>9. pc \in Between => Todo' = <<>> /\ IF run = 0 THEN Unstarted' ELSE Finished'
    BY <1>2, <1>7 DEF Calls
<1>10. pc \in {"resume", "base"} => Todo' = <<>> /\ Unstarted'
    BY <1>2, <1>7 DEF Calls
<1>11. pc = "start" => Sending(<<>>)'
    BY SendingNext DEF Calls
<1>12. pc = "poll" => Sending(<<SetStart>>)' \/ (Todo' = <<>> /\ Started')
    <2>1. pc = "poll" /\ Sending(<<SetStart>>) => Sending(<<SetStart>>)' \/ (Todo' = <<>> /\ Started')
        <3>1. Tail(<<SetStart>>) = <<>>
            OBVIOUS
        <3> QED
            BY <3>1, SendingNext DEF Started
    <2> QED
        BY <1>3, <1>7, <2>1 DEF Calls
<1>13. ASSUME pc = "polled"
       PROVE  \/ answers' = <<>> /\ (Sending(<<SetStart, ReadCtrl>>)' \/ (Todo' = <<ReadCtrl>> /\ Started'))
              \/ Len(answers') = 1 /\ Todo' = <<>> /\ Started' /\ (Head(answers') = 2 => Finished')
    <2>1. CASE answers = <<>> /\ Sending(<<SetStart, ReadCtrl>>)
        <3>1. Tail(<<SetStart, ReadCtrl>>) = <<ReadCtrl>>
            OBVIOUS
        <3> QED
            BY <1>4, <2>1, <3>1, SendingNext DEF Started
    <2>2. CASE answers = <<>> /\ Todo = <<ReadCtrl>> /\ Started
        <3>1. InHand => conv.req = ReadCtrl /\ Todo' = <<>>
            BY <1>1, <2>2
        <3>2. Started'
            BY <1>3, <2>2, <3>1, Sent
        <3>3. CASE InHand
            <4>1. conv.state = "readData"
                BY <3>1, <3>3, Sent DEF InHand, Inv, Control, HostTyped
            <4>2. answers' = <<conv.rdata>>
                BY <1>4, <2>2, <4>1
            <4>3. conv.rdata = 2 => Finished
                BY <3>1, <3>3, <4>1, Sent DEF Calls
            <4>4. conv.rdata = 2 => Finished'
                BY <1>2, <3>1, <4>3, Sent
            <4> QED
                BY <3>1, <3>2, <3>3, <4>2, <4>4
        <3>4. CASE ~InHand
            BY <1>1, <1>4, <1>5, <2>2, <3>2, <3>4
        <3> QED
            BY <3>3, <3>4
    <2>3. CASE Len(answers) = 1 /\ Todo = <<>> /\ Started /\ (Head(answers) = 2 => Finished)
        BY <1>2, <1>3, <1>7, <2>3
    <2> QED
        BY <1>13, <2>1, <2>2, <2>3 DEF Calls
<1>14. pc \in {"counters", "wait"} => Todo' = <<>> /\ Finished'
    BY <1>2, <1>7 DEF Calls
<1>15. ASSUME pc = "update"
       PROVE  /\ Finished'
              /\ \/ answers' = <<>> /\ Todo' = <<ReadBeats>>
                 \/ answers' = <<Beats>> /\ Todo' = <<>>
    <2>1. CASE answers = <<>> /\ Todo = <<ReadBeats>>
        <3>1. InHand => conv.req = ReadBeats /\ Todo' = <<>>
            BY <1>1, <2>1
        <3>2. Finished'
            BY <1>2, <1>15, <3>1, Sent DEF Calls
        <3>3. CASE InHand
            <4>1. conv.state = "readData"
                BY <3>1, <3>3, Sent DEF InHand, Inv, Control, HostTyped
            <4>2. answers' = <<conv.rdata>>
                BY <1>4, <2>1, <4>1
            <4> QED
                BY <3>1, <3>2, <3>3, <4>1, <4>2 DEF Calls
        <3>4. CASE ~InHand
            BY <1>1, <1>4, <1>5, <2>1, <3>2, <3>4
        <3> QED
            BY <3>3, <3>4
    <2>2. CASE answers = <<Beats>> /\ Todo = <<>>
        BY <1>2, <1>7, <1>15, <2>2 DEF Calls
    <2> QED
        BY <1>15, <2>1, <2>2 DEF Calls
<1>16. ASSUME conv'.state = "readData"
       PROVE  IF conv'.req = ReadBeats THEN conv'.rdata = Beats ELSE conv'.rdata = 2 => Finished'
    <2>1. /\ conv.state = "readAddress" /\ conv'.req = conv.req /\ conv'.rdata = reg[conv.req.addr]
        <3>1. /\ conv'.req = IF conv.state = "idle" /\ conv.shown # NoReq THEN conv.shown ELSE conv.req
              /\ conv'.rdata = IF conv.state = "readAddress" THEN reg[conv.req.addr] ELSE conv.rdata
              /\ conv'.state = CASE conv.state = "idle" /\ conv.shown.op = "read" -> "readAddress"
                  [] conv.state = "idle" /\ conv.shown.op = "write" -> "writeAddress"
                  [] conv.state = "readAddress" -> "readData"
                  [] conv.state = "writeAddress" -> "writeData"
                  [] conv.state = "writeData" -> "writeResponse"
                  [] OTHER -> "idle"
            BY ControlNext, Zenon DEF Inv, Memory, Clock
        <3> QED
            BY <1>16, <3>1
    <2>2. reqs # <<>> /\ Head(reqs) = conv.req /\ ~InHand /\ conv.req.op = "read"
        BY <2>1 DEF Shows, Deq, InHand, Inv, Control, HostTyped
    <2>3. Head(Todo) = conv.req /\ Todo # <<>>
        BY <1>1, <2>2
    <2>4. \/ pc = "polled" /\ Todo = <<ReadCtrl>> /\ Started
          \/ pc = "update" /\ Todo = <<ReadBeats>> /\ Finished
        <3>1. ASSUME NEW rest \in {<<>>, <<SetStart>>, <<SetStart, ReadCtrl>>}, Sending(rest)
              PROVE  FALSE
            <4>1. Todo = <<SetBase>> \o rest \/ Todo = rest
                BY <3>1 DEF Sending
            <4>2. Head(Todo) \in {SetBase, SetStart}
                BY <2>3, <4>1
            <4> QED
                BY <2>2, <2>3, <4>2, Sent
        <3> QED
            BY <1>6, <2>3, <3>1 DEF Calls, Place, Between
    <2>5. CASE pc = "polled" /\ Todo = <<ReadCtrl>> /\ Started
        <3>1. conv.req = ReadCtrl
            BY <2>3, <2>5
        <3>2. reg.ctrl = 2 => Finished
            BY <2>5 DEF Started, Ready, Running, Inv, Control, Launched
        <3>3. conv'.rdata = reg.ctrl
            BY <2>1, <3>1, Sent
        <3> QED
            BY <1>2, <2>1, <2>2, <3>1, <3>2, <3>3, Sent
    <2>6. CASE pc = "update" /\ Todo = <<ReadBeats>> /\ Finished
        <3>1. conv.req = ReadBeats
            BY <2>3, <2>6
        <3> QED
            BY <2>1, <2>6, <3>1, Sent DEF Finished
    <2> QED
        BY <2>4, <2>5, <2>6
<1> QED
    BY <1>4, <1>8, <1>9, <1>10, <1>11, <1>12, <1>13, <1>14, <1>15, <1>16 DEF Calls

\* A step of the host leaves the run as far as it is.
LEMMA StageStays ==
    ASSUME UNCHANGED <<hardware, run>>
    PROVE  /\ Unstarted' <=> Unstarted
           /\ Started' <=> Started
           /\ Finished' <=> Finished
           /\ reg' = reg /\ conv' = conv /\ Base(run)' = Base(run) /\ SetBase' = SetBase
<1> USE DEF hardware, memPath
<1>1. Base(run)' = Base(run) /\ SetBase' = SetBase /\ Before' = Before
    BY DEF Base, SetBase, Before
<1> QED
    BY <1>1 DEF Unstarted, Started, Ready, Running, Finished

LEMMA StartRunCalls ==
    ASSUME Inv, Shows, Calls, Summed, StartRun
    PROVE  Calls' /\ Summed'
<1> USE DEF hardware, memPath, queues
<1>1. /\ pc = "idle" /\ pc' = "resume" /\ run \in Nat /\ run' = run + 1
      /\ UNCHANGED <<hardware, reqs, answers, prof, cleared>>
    BY DEF StartRun, Goto, Inv, Control, HostTyped
<1>2. Todo = <<>> /\ answers = <<>> /\ IF run = 0 THEN Unstarted ELSE Finished
    BY <1>1 DEF Calls, Between
<1>3. Todo' = <<>> /\ answers' = <<>> /\ conv.state # "readData"
    BY <1>1, <1>2, TodoHost, TodoNow DEF InHand, Inv, Control
<1>4. Unstarted'
    <2>1. Before' = IF run = 0 THEN 0 ELSE Base(run)
        BY <1>1 DEF Before, Base
    <2>2. core.phase = "idle" /\ core.base = Before' /\ reg.ctrl # 1
        BY <1>2, <2>1 DEF Unstarted, Before, Finished
    <2> QED
        BY <1>1, <2>2 DEF Unstarted
<1>5. Calls'
    BY <1>1, <1>3, <1>4 DEF Calls, Between
<1>6. Summed'
    BY <1>1 DEF Summed, Between
<1> QED
    BY <1>5, <1>6

LEMMA CallsHost ==
    ASSUME Inv, Shows, Calls, Summed, HostStep, ~expired'
    PROVE  Calls' /\ Summed'
<1> USE DEF Place, Between, Goto, SameRun, host, queues
<1>1. /\ pc \in Place /\ (pc \notin Between => run > 0) /\ run \in Nat /\ answers \in Seq(Nat)
      /\ Beats \in Nat
    BY Sizes DEF Inv, Control, HostTyped
<1>2. CASE StartRun
    BY <1>2, StartRunCalls
<1>3. ASSUME SimLaunch \/ InitWaits \/ Resumes \/ RunWaits \/ ClearAll \/ ExitResumes \/ SimFinish \/ Joined
      PROVE  Calls' /\ Summed'
    <2>1. /\ UNCHANGED <<hardware, run, reqs, answers>>
          /\ UNCHANGED <<prof, cleared>> \/ ClearAll
          /\ \/ pc \in Between /\ pc' \in Between
             \/ pc = "resume" /\ pc' = "base"
             \/ pc = "wait" /\ pc' = "idle"
        BY <1>3 DEF SimLaunch, InitWaits, Resumes, RunWaits, ClearAll, ExitResumes, SimFinish, Joined, SetWait
    <2>2. Todo = <<>> /\ answers = <<>> /\ conv.state # "readData"
        BY <2>1, TodoNow DEF Calls, InHand, Inv, Control
    <2>3. Todo' = <<>>
        BY <2>1, <2>2, StageStays, TodoHost DEF Inv, Control
    <2>4. Calls'
        BY <1>1, <2>1, <2>2, <2>3, StageStays DEF Calls
    <2>5. CASE ClearAll
        <3>1. run' = run /\ pc' = "idle" /\ cleared' = run /\ prof' = 0 /\ (run - run) * Beats = 0
            BY <1>1, <2>5 DEF ClearAll
        <3> QED
            BY <1>1, <2>4, <3>1 DEF Summed
    <2>6. CASE ~ClearAll
        BY <1>1, <2>1, <2>4, <2>6 DEF Summed
    <2> QED
        BY <2>4, <2>5, <2>6
<1>4. ASSUME WriteBase \/ WriteStart \/ ReadDone \/ ReadCounter
      PROVE  Summed'
    <2>1. /\ UNCHANGED <<run, prof, cleared>>
          /\ pc \in {"base", "start", "poll", "counters"} /\ pc' \in {"start", "poll", "polled", "update"}
        BY <1>4 DEF WriteBase, WriteStart, ReadDone, ReadCounter, Push
    <2> QED
        BY <2>1 DEF Summed
<1>5. CASE WriteBase
    <2>1. UNCHANGED <<hardware, run, answers>> /\ pc = "base" /\ pc' = "start" /\ reqs' = Append(reqs, SetBase)
        BY <1>5 DEF WriteBase, Push, SetBase, Write
    <2>2. SetBase \in Requests
        BY <1>1, <2>1 DEF Requests, SetBase, Bases
    <2>3. Todo' = Append(Todo, SetBase)
        BY <2>1, <2>2, StageStays, TodoHost DEF Inv, Control
    <2>4. Todo = <<>> /\ answers = <<>> /\ Unstarted
        BY <2>1 DEF Calls
    <2>5. Append(<<>>, SetBase) = <<SetBase>> \o <<>> /\ conv.state # "readData"
        BY <2>4, TodoNow DEF InHand, Inv, Control
    <2>6. Sending(<<>>)'
        BY <2>1, <2>3, <2>4, <2>5, StageStays DEF Sending
    <2>7. Calls'
        BY <2>1, <2>4, <2>5, <2>6, StageStays DEF Calls
    <2> QED
        BY <1>4, <1>5, <2>7
<1>6. CASE WriteStart
    <2>1. UNCHANGED <<hardware, run, answers>> /\ pc = "start" /\ pc' = "poll" /\ reqs' = Append(reqs, SetStart)
        BY <1>6 DEF WriteStart, Push, SetStart, Write
    <2>2. SetStart \in Requests
        BY DEF Requests, SetStart
    <2>3. Todo' = Append(Todo, SetStart)
        BY <2>1, <2>2, StageStays, TodoHost DEF Inv, Control
    <2>4. Sending(<<>>) /\ answers = <<>>
        BY <2>1 DEF Calls
    <2>5. Append(<<SetBase>> \o <<>>, SetStart) = <<SetBase>> \o <<SetStart>> /\ Append(<<>>, SetStart) = <<SetStart>>
        OBVIOUS
    <2>6. Sending(<<SetStart>>)'
        BY <2>1, <2>3, <2>4, <2>5, StageStays DEF Sending
    <2>7. Calls'
        BY <2>1, <2>4, <2>6, StageStays DEF Calls
    <2> QED
        BY <1>4, <1>6, <2>7
<1>7. CASE ReadDone
    <2>1. UNCHANGED <<hardware, run, answers>> /\ pc = "poll" /\ pc' = "polled" /\ reqs' = Append(reqs, ReadCtrl)
        BY <1>7 DEF ReadDone, Push, ReadCtrl, Read
    <2>2. ReadCtrl \in Requests
        BY DEF Requests, ReadCtrl
    <2>3. Todo' = Append(Todo, ReadCtrl)
        BY <2>1, <2>2, StageStays, TodoHost DEF Inv, Control
    <2>4. answers = <<>> /\ (Sending(<<SetStart>>) \/ (Todo = <<>> /\ Started))
        BY <2>1 DEF Calls
    <2>5. /\ Append(<<SetBase>> \o <<SetStart>>, ReadCtrl) = <<SetBase>> \o <<SetStart, ReadCtrl>>
          /\ Append(<<SetStart>>, ReadCtrl) = <<SetStart, ReadCtrl>> /\ Append(<<>>, ReadCtrl) = <<ReadCtrl>>
        <3> DEFINE T == {SetBase, SetStart, ReadCtrl}
        <3>1. SetBase \in T /\ SetStart \in T /\ ReadCtrl \in T
            OBVIOUS
        <3> HIDE DEF T
        <3>2. <<SetStart>> \in Seq(T) /\ <<>> \in Seq(T)
            BY <3>1
        <3>3. Append(<<SetBase>> \o <<SetStart>>, ReadCtrl) = <<SetBase>> \o Append(<<SetStart>>, ReadCtrl)
            BY <3>1, <3>2, FrontFirst
        <3>4. Append(<<SetStart>>, ReadCtrl) = <<SetStart, ReadCtrl>> /\ Append(<<>>, ReadCtrl) = <<ReadCtrl>>
            BY <3>1, ShortQueues, Zenon
        <3>5. Append(<<SetBase>> \o <<SetStart>>, ReadCtrl) = <<SetBase>> \o <<SetStart, ReadCtrl>>
            BY <3>3, <3>4, Zenon
        <3> QED
            BY <3>4, <3>5, Zenon
    <2>6. Sending(<<SetStart, ReadCtrl>>)' \/ (Todo' = <<ReadCtrl>> /\ Started')
        BY <2>1, <2>3, <2>4, <2>5, StageStays DEF Sending
    <2>7. Calls'
        BY <2>1, <2>4, <2>6, StageStays DEF Calls
    <2> QED
        BY <1>4, <1>7, <2>7
<1>8. CASE ReadCounter
    <2>1. /\ UNCHANGED <<hardware, run, answers>> /\ pc = "counters" /\ pc' = "update"
          /\ reqs' = Append(reqs, ReadBeats)
        BY <1>8 DEF ReadCounter, Push, ReadBeats, Read
    <2>2. ReadBeats \in Requests
        BY DEF Requests, ReadBeats
    <2>3. Todo' = Append(Todo, ReadBeats)
        BY <2>1, <2>2, StageStays, TodoHost DEF Inv, Control
    <2>4. answers = <<>> /\ Todo = <<>> /\ Finished
        BY <2>1 DEF Calls
    <2>5. Append(<<>>, ReadBeats) = <<ReadBeats>>
        OBVIOUS
    <2>6. Calls'
        BY <2>1, <2>3, <2>4, <2>5, StageStays DEF Calls
    <2> QED
        BY <1>4, <1>8, <2>6
<1>9. CASE GiveUp
    BY <1>9 DEF GiveUp
<1>10. CASE Polled
    <2>1. /\ UNCHANGED <<hardware, run, reqs, prof, cleared>> /\ pc = "polled" /\ answers # <<>>
          /\ answers' = Tail(answers) /\ pc' = IF Head(answers) = 2 THEN "counters" ELSE "poll"
        BY <1>10 DEF Polled, WaitPop
    <2>2. Len(answers) = 1 /\ Todo = <<>> /\ Started /\ (Head(answers) = 2 => Finished)
        BY <2>1 DEF Calls
    <2>3. Tail(answers) = <<>>
        BY <1>1, <2>1, <2>2
    <2>4. Todo' = <<>> /\ conv.state # "readData"
        BY <2>1, <2>2, StageStays, TodoHost, TodoNow DEF InHand, Inv, Control
    <2>5. Calls'
        BY <2>1, <2>2, <2>3, <2>4, StageStays DEF Calls
    <2>6. Summed'
        BY <2>1 DEF Summed
    <2> QED
        BY <2>5, <2>6
<1>11. CASE Update
    <2>1. /\ UNCHANGED <<hardware, run, reqs, cleared>> /\ pc = "update" /\ pc' = "wait" /\ answers # <<>>
          /\ answers' = Tail(answers) /\ prof' = prof + Head(answers)
        BY <1>11 DEF Update, WaitPop
    <2>2. answers = <<Beats>> /\ Todo = <<>> /\ Finished
        BY <2>1 DEF Calls
    <2>3. Tail(answers) = <<>> /\ Head(answers) = Beats
        BY <2>2
    <2>4. Todo' = <<>> /\ conv.state # "readData"
        BY <2>1, <2>2, StageStays, TodoHost, TodoNow DEF InHand, Inv, Control
    <2>5. Calls'
        BY <2>1, <2>2, <2>3, <2>4, StageStays DEF Calls
    <2>6. Summed'
        <3>1. cleared \in 0..run /\ cleared < run /\ prof \in Nat /\ prof = (run - 1 - cleared) * Beats
            BY <2>1 DEF Summed
        <3>2. (run - 1 - cleared) * Beats + Beats = (run - cleared) * Beats
            BY <1>1, <3>1
        <3>3. prof' = (run - cleared) * Beats /\ prof' \in Nat
            BY <1>1, <2>1, <2>3, <3>1, <3>2
        <3> QED
            BY <2>1, <3>1, <3>3 DEF Summed
    <2> QED
        BY <2>5, <2>6
<1> QED
    BY <1>2, <1>3, <1>5, <1>6, <1>7, <1>8, <1>9, <1>10, <1>11 DEF HostStep

--------------------------------------------------------------------------------
(* The beats that came back are counted, each once.                        *)

LEMMA TakenFinite ==
    /\ IsFiniteSet(Taken)
    /\ (\A c \in Client : Received(c) = Burst) => Cardinality(Taken) = Beats
<1>1. IsFiniteSet(Client) /\ Cardinality(Client) = Clients
    BY Sizes, FS_Interval DEF Client
<1>2. IsFiniteSet(1..Burst) /\ Cardinality(1..Burst) = Burst
    BY Sizes, FS_Interval
<1>3. IsFiniteSet(Client \X (1..Burst)) /\ Cardinality(Client \X (1..Burst)) = Clients * Burst
    BY <1>1, <1>2, FS_Product
<1>4. IsFiniteSet(Taken)
    BY <1>3, FS_Subset DEF Taken
<1>5. ASSUME \A c \in Client : Received(c) = Burst
      PROVE  Cardinality(Taken) = Beats
    <2>1. \A p \in Client \X (1..Burst) : p[2] <= Received(p[1])
        BY <1>5, Sizes
    <2>2. Taken = Client \X (1..Burst)
        BY <2>1 DEF Taken
    <2> QED
        BY <1>3, <2>2, Sizes
<1> QED
    BY <1>4, <1>5

LEMMA TakenNext ==
    ASSUME Inv, Inv', ReadDelay = 0, ~Starts, NEW ask \in SUBSET core.quiet, NEW take \in SUBSET Takers,
           NEW data \in BOOLEAN, Clock(ask, take, data)
    PROVE  Cardinality(Taken') = Cardinality(Taken) + IF RFire THEN 1 ELSE 0
<1>1. \A c \in Client : Received(c)' = IF RFire /\ vme.owner[bridge.ar.id] = c THEN Received(c) + 1
                                       ELSE Received(c)
    BY ReceivedNext
<1>2. Taken' = {p \in Client \X (1..Burst) : p[2] <= Received(p[1])'}
    BY DEF Taken
<1>3. CASE ~RFire
    <2>1. \A p \in Client \X (1..Burst) : Received(p[1])' = Received(p[1])
        BY <1>1, <1>3
    <2>2. Taken' = Taken
        BY <1>2, <2>1 DEF Taken
    <2>3. Cardinality(Taken) \in Nat
        BY TakenFinite, FS_CardinalityType
    <2> QED
        BY <1>3, <2>2, <2>3
<1>4. CASE RFire
    <2>1. bridge.ar.id \in Busy
        BY <1>4, Events
    <2>2. PICK o \in Client : vme.owner[bridge.ar.id] = o
        BY <2>1 DEF Inv, Memory, Counted
    <2> DEFINE new == <<o, Received(o) + 1>>
    <2>3. Received(o) + 1 <= Burst /\ Received(o) \in Nat
        <3>1. \A c \in Client : Received(c)' <= Burst
            BY DEF Inv, Memory, Counted
        <3>2. Received(o)' = Received(o) + 1
            BY <1>1, <1>4, <2>2
        <3>3. Received(o)' <= Burst
            BY <3>1
        <3> QED
            BY <3>2, <3>3, Counts DEF Inv, Memory
    <2>4. new \in Client \X (1..Burst) /\ new \notin Taken
        BY <2>3, Sizes DEF Taken
    <2>5. ASSUME NEW c \in Client, NEW n \in 1..Burst
          PROVE  n <= Received(c)' <=> n <= Received(c) \/ <<c, n>> = new
        <3>1. CASE c = o
            <4>1. Received(c)' = Received(o) + 1
                BY <1>1, <1>4, <2>2, <3>1
            <4> QED
                BY <2>3, <3>1, <4>1
        <3>2. CASE c # o
            BY <1>1, <2>2, <3>2
        <3> QED
            BY <3>1, <3>2
    <2>6. \A p \in Client \X (1..Burst) : p[2] <= Received(p[1])' <=> p[2] <= Received(p[1]) \/ p = new
        <3> SUFFICES ASSUME NEW p \in Client \X (1..Burst)
                     PROVE  p[2] <= Received(p[1])' <=> p[2] <= Received(p[1]) \/ p = new
            OBVIOUS
        <3>1. PICK c \in Client, n \in 1..Burst : p = <<c, n>>
            OBVIOUS
        <3> HIDE DEF new
        <3>2. p[1] = c /\ p[2] = n
            BY <3>1
        <3> QED
            BY <2>5, <3>1, <3>2
    <2> HIDE DEF new
    <2>7. Taken' = Taken \cup {new}
        BY <1>2, <2>4, <2>6 DEF Taken
    <2>8. IsFiniteSet(Taken)
        BY TakenFinite
    <2>9. Cardinality(Taken \cup {new}) = Cardinality(Taken) + 1
        BY <2>4, <2>8, FS_AddElement
    <2>10. Cardinality(Taken') = Cardinality(Taken) + 1
        BY <2>7, <2>9, Zenon
    <2> QED
        BY <1>4, <2>10
<1> QED
    BY <1>3, <1>4

LEMMA TallyNext ==
    ASSUME Inv, Inv', Tally, ReadDelay = 0, NEW ask \in SUBSET core.quiet, NEW take \in SUBSET Takers,
           NEW data \in BOOLEAN, Clock(ask, take, data)
    PROVE  Tally'
<1>1. vme'.beats = IF ~Launch THEN 0 ELSE IF RFire THEN vme.beats + 1 ELSE vme.beats
    BY VmeNext, Zenon DEF Inv, Memory
<1>2. core'.phase = (IF Starts THEN "read" ELSE NextPhase) /\ core'.quiet = IF Starts THEN Client ELSE core.quiet \ ask
    BY CoreNext, Zenon DEF Inv, Memory
<1>3. launchBefore' = Launch /\ core.phase \in Phase
    BY DEF Clock, Inv, Memory, MemTyped
<1>4. ~launchBefore' => vme'.beats = 0
    BY <1>1, <1>3
<1>5. ASSUME Starts
      PROVE  vme'.beats = Cardinality(Taken')
    <2>1. core.phase # "read" /\ ~launchBefore
        BY <1>5 DEF Starts, Inv, Control, Launched
    <2>2. vme'.beats = 0
        BY <1>1, <2>1, Events DEF Tally
    <2>3. \A c \in Client : Received(c)' = 0
        BY <1>2, <1>5 DEF Inv, Memory, Counted
    <2>4. \A p \in Client \X (1..Burst) : ~(p[2] <= Received(p[1])')
        BY <2>3, Sizes
    <2>5. Taken' = {}
        BY <2>4 DEF Taken
    <2> QED
        BY <2>2, <2>5, FS_EmptySet
<1>6. ASSUME ~Starts, core'.phase # "idle"
      PROVE  vme'.beats = Cardinality(Taken')
    <2>1. core.phase # "idle"
        BY <1>2, <1>6 DEF NextPhase
    <2>2. Launch /\ vme.beats = Cardinality(Taken)
        BY <2>1 DEF Tally, Launch, Inv, Control, Launched
    <2>3. Cardinality(Taken) \in Nat
        BY TakenFinite, FS_CardinalityType
    <2> QED
        BY <1>1, <1>6, <2>2, <2>3, TakenNext
<1>7. ASSUME core'.phase = "finished"
      PROVE  reg'.beats = Beats
    <2>1. core.phase = "finish"
        BY <1>2, <1>3, <1>7, NextPhases
    <2>2. reg'.beats = vme.beats
        BY <2>1, ControlNext, Zenon DEF Inv, Memory, Clock
    <2>3. \A c \in Client : Received(c) = Burst
        <3>1. ASSUME NEW c \in Client
              PROVE  Received(c) = Burst
            <4>1. Len(core.got[c]) = Burst /\ resps[c] = <<>>
                BY <2>1 DEF Inv, Memory, Resting
            <4>2. Len(resps[c]) = 0
                BY <4>1
            <4>3. Received(c) = Len(core.got[c]) + Len(resps[c])
                BY DEF Received
            <4> HIDE DEF Received
            <4> QED
                BY <4>1, <4>2, <4>3, Sizes
        <3> QED
            BY <3>1
    <2>4. vme.beats = Beats
        BY <2>1, <2>3, TakenFinite DEF Tally
    <2> QED
        BY <2>2, <2>4
<1> QED
    BY <1>4, <1>5, <1>6, <1>7 DEF Tally

LEMMA TallyStays ==
    ASSUME Tally, UNCHANGED hardware
    PROVE  Tally'
<1>1. Taken' = Taken
    BY DEF Taken, Received, hardware, memPath
<1> QED
    BY <1>1 DEF Tally, hardware, memPath

--------------------------------------------------------------------------------
(* What is in memory.  The area of a run is its sources, then its targets. *)

Half == Beats * Blk

LEMMA Areas ==
    ASSUME NEW r \in 1..MaxRuns, NEW q \in 1..MaxRuns
    PROVE  /\ Half \in Nat \ {0} /\ Base(r) \in Nat \ {0} /\ Target(Base(r)) = Base(r) + Half
           /\ \A i \in 0..Half - 1 : Base(r) + i \in Words /\ Target(Base(r)) + i \in Words
           /\ r < q => Base(r) + 2 * Half <= Base(q)
           /\ r < q <=> Base(r) < Base(q)
           /\ r = q <=> Base(r) = Base(q)
<1>1. Half \in Nat \ {0} /\ AreaWords = 2 * Half /\ MaxRuns * AreaWords \in Nat
    BY Sizes DEF Half
<1>2. \A k \in 1..MaxRuns : /\ Base(k) \in Nat \ {0} /\ Base(k) + AreaWords <= MaxRuns * AreaWords + 1
                            /\ \A j \in 1..k - 1 : Base(j) + AreaWords <= Base(k)
    BY AreasApart
<1>3. Target(Base(r)) = Base(r) + Half
    BY DEF Target, Half
<1>4. \A i \in 0..Half - 1 : Base(r) + i \in Words /\ Target(Base(r)) + i \in Words
    BY <1>1, <1>2, <1>3 DEF Words
<1>5. /\ r < q => Base(r) + 2 * Half <= Base(q)
      /\ q < r => Base(q) + 2 * Half <= Base(r)
    <2>1. MaxRuns \in Nat
        BY Sizes
    <2>2. r < q => r \in 1..q - 1
        BY <2>1
    <2>3. q < r => q \in 1..r - 1
        BY <2>1
    <2> QED
        BY <1>1, <1>2, <2>2, <2>3
<1>6. MaxRuns \in Nat
    BY Sizes
<1> QED
    BY <1>1, <1>2, <1>3, <1>4, <1>5, <1>6

LEMMA StartRunWords ==
    ASSUME Inv, Filled, StartRun
    PROVE  Filled' /\ (Outcome => Outcome')
<1>1. /\ run \in Nat /\ run' = run + 1 /\ run' \in 1..MaxRuns /\ core' = core /\ vme' = vme
      /\ dram' = [a \in DOMAIN dram |-> IF a \in Source1(run') THEN a ELSE dram[a]]
      /\ DOMAIN dram = Words
    BY Sizes DEF StartRun, Inv, Control, HostTyped, Memory, MemTyped, hardware, memPath
<1>2. Source1(run') = Base(run')..Base(run') + Half - 1
    BY DEF Source1, Half
<1>3. PICK q \in 1..MaxRuns : q = run'
    BY <1>1
<1>4. ASSUME NEW r \in 1..run', NEW i \in 0..Half - 1
      PROVE  dram'[Base(r) + i] = Base(r) + i
    <2>1. r \in 1..MaxRuns /\ MaxRuns \in Nat
        BY <1>1, Sizes
    <2>2. Base(r) + i \in Words
        BY <2>1, Areas
    <2>3. CASE r = q
        <3>1. Base(r) + i \in Base(q)..Base(q) + Half - 1
            BY <1>3, <2>1, <2>3, Areas
        <3> QED
            BY <1>1, <1>2, <1>3, <2>2, <3>1
    <2>4. CASE r # q
        <3>1. r \in 1..run /\ r < q
            BY <1>1, <1>3, <2>4
        <3>2. dram[Base(r) + i] = Base(r) + i
            BY <3>1 DEF Filled, Half
        <3> QED
            BY <1>1, <2>2, <3>2
    <2> QED
        BY <2>3, <2>4
<1>5. Filled'
    BY <1>4 DEF Filled, Half
<1>6. ASSUME NEW r \in 1..MaxRuns, NEW i \in 0..Half - 1
      PROVE  dram'[Target(Base(r)) + i] = dram[Target(Base(r)) + i]
    <2>1. Target(Base(r)) + i \notin Base(q)..Base(q) + Half - 1
        <3>1. /\ Half \in Nat \ {0} /\ Base(r) \in Nat /\ Base(q) \in Nat /\ Target(Base(r)) = Base(r) + Half
              /\ r < q => Base(r) + 2 * Half <= Base(q)
              /\ q < r => Base(q) + 2 * Half <= Base(r)
              /\ r = q => Base(r) = Base(q)
            BY Areas
        <3>2. r < q \/ q < r \/ r = q
            BY Sizes
        <3> QED
            BY <3>1, <3>2
    <2>2. Target(Base(r)) + i \in Words
        BY Areas
    <2> QED
        BY <1>1, <1>2, <1>3, <2>1, <2>2
<1>7. \A r, i : Reached(r, i)' <=> Reached(r, i)
    BY <1>1 DEF Reached, Progress, Base
<1>8. ASSUME Outcome, NEW r \in 1..MaxRuns, NEW i \in 0..Half - 1
      PROVE  dram'[Target(Base(r)) + i] = IF i # Half - 1 /\ Reached(r, i)' THEN Base(r) + i ELSE 0
    <2>1. dram[Target(Base(r)) + i] = IF i # Half - 1 /\ Reached(r, i) THEN Base(r) + i ELSE 0
        BY <1>8 DEF Outcome, Half
    <2> QED
        BY <1>6, <1>7, <2>1
<1>9. Half = Beats * Blk
    BY DEF Half
<1>10. Outcome => Outcome'
    BY <1>8, <1>9 DEF Outcome
<1> QED
    BY <1>5, <1>10

\* The words that a beat of the write burst sets: what was in the source, but
\* for the last.
LEMMA WrittenWords ==
    ASSUME Inv, Filled, NEW ask, NEW take, NEW data \in BOOLEAN, Clock(ask, take, data), Writes(data)
    PROVE  LET from == Target(core.base) + vme.sent * Blk IN
           /\ vme.sent \in 0..Beats - 1 /\ vme.sent * Blk \in Nat /\ vme.sent * Blk + Blk <= Half
           /\ vme.sent = Beats - 1 => vme.sent * Blk + Blk = Half
           /\ core.base # 0 /\ vme.w = "data"
           /\ \A a \in Words : dram'[a] =
                 IF a \in from..from + Blk - 1 /\ a # Target(core.base) + Half - 1 THEN a - Half ELSE dram[a]
<1> DEFINE n == vme.sent
           c == 1 + (n \div Burst)
           m == n % Burst
<1>1. vme.w = "data" /\ core.phase = "write" /\ core.base # 0
    BY WrittenBeat DEF Writes, WrValid
<1>2. n \in 0..Beats - 1 /\ mdev.waddr = Target(core.base) + n * Blk
    BY <1>1 DEF Inv, Memory, Writing
<1>3. c \in Client /\ m \in 0..BurstLen /\ (c - 1) * Burst + m = n
    <2>1. c \in Client /\ m \in 0..BurstLen /\ (n \div Burst) * Burst + m = n
        BY <1>2, BeatOfClient
    <2>2. n \div Burst \in Nat
        BY <1>2, DivMod, Sizes
    <2>3. c - 1 = n \div Burst
        BY <2>2
    <2> QED
        BY <2>1, <2>3, Zenon
<1>4. core.base \in Nat /\ Half \in Nat \ {0} /\ Blk \in Nat \ {0} /\ Beats \in Nat \ {0} /\ Burst \in Nat \ {0}
    BY Sizes DEF Half, Inv, Memory, MemTyped
<1>5. Beat(n) = core.got[c][m + 1]
    BY <1>3, <1>4 DEF Beat, Burst
<1> HIDE DEF c, m
<1>6. Beat(n) = [i \in 1..Blk |-> dram[Source(core.base, c) + m * Blk + i - 1]]
    <2>1. core.got[c] \in Seq(Data) /\ resps[c] = <<>> /\ Len(core.got[c]) = Burst
        BY <1>1, <1>3 DEF Inv, Memory, MemTyped, Resting
    <2>2. Beats0(c) = core.got[c] /\ Received(c) = Burst
        <3>1. core.got[c] \o <<>> = core.got[c] /\ Len(<<>>) = 0
            BY <2>1
        <3>2. Beats0(c) = core.got[c]
            BY <2>1, <3>1 DEF Beats0
        <3>3. Received(c) = Burst
            <4>1. Received(c) = Len(core.got[c]) + Len(resps[c])
                BY DEF Received
            <4> QED
                BY <1>4, <2>1, <3>1, <4>1
        <3> QED
            BY <3>2, <3>3
    <2>3. m + 1 \in 1..Received(c) /\ m + 1 - 1 = m
        BY <1>3, <1>4, <2>2, Sizes
    <2>4. Beats0(c)[m + 1] = [i \in 1..Blk |-> dram[Source(core.base, c) + (m + 1 - 1) * Blk + i - 1]]
        BY <1>3, <2>3 DEF Inv, Memory, Arrived
    <2> QED
        BY <1>5, <2>2, <2>3, <2>4
<1>7. Source(core.base, c) + m * Blk = core.base + n * Blk
    BY <1>3, <1>4, SourceBeats
<1>8. n * Blk \in Nat /\ n * Blk + Blk <= Half /\ (n = Beats - 1 => n * Blk + Blk = Half)
    <2>1. Blk * n + Blk <= Blk * Beats
        BY <1>2, <1>4, NextMultiple
    <2>2. n = Beats - 1 => n * Blk + Blk = Half
        BY <1>4 DEF Half
    <2> QED
        BY <1>2, <1>4, <2>1, <2>2 DEF Half
<1>9. n < Beats - 1 => n * Blk + Blk < Half
    <2>1. n < Beats - 1 => Blk * (n + 1) + Blk <= Blk * Beats
        BY <1>2, <1>4, NextMultiple
    <2>2. Blk * (n + 1) = n * Blk + Blk /\ Blk * Beats = Half
        BY <1>2, <1>4 DEF Half
    <2> QED
        BY <1>4, <1>8, <2>1, <2>2
<1>10. PICK q \in 1..run : core.base = Base(q)
    BY <1>1 DEF Inv, Control, Launched, Bases
<1> DEFINE k == n * Blk
<1>11. Target(core.base) = core.base + Half
    BY DEF Target, Half
<1>12. \A i \in 1..Blk : Beat(n)[i] = core.base + k + i - 1
    <2> SUFFICES ASSUME NEW i \in 1..Blk PROVE Beat(n)[i] = core.base + k + i - 1
        OBVIOUS
    <2>1. Beat(n)[i] = dram[core.base + k + i - 1]
        BY <1>6, <1>7
    <2> HIDE DEF k
    <2>2. k + i - 1 \in 0..Half - 1 /\ core.base + k + i - 1 = core.base + (k + i - 1)
        BY <1>4, <1>8 DEF k
    <2>3. dram[Base(q) + (k + i - 1)] = Base(q) + (k + i - 1)
        BY <2>2 DEF Filled, Half
    <2> QED
        BY <1>10, <2>1, <2>2, <2>3
<1>13. ASSUME NEW a \in Words
       PROVE  dram'[a] = IF a \in Target(core.base) + k..Target(core.base) + k + Blk - 1
                            /\ a # Target(core.base) + Half - 1 THEN a - Half ELSE dram[a]
    <2> DEFINE i == a - mdev.waddr + 1
    <2>1. dram'[a] = IF a \in mdev.waddr..mdev.waddr + Blk - 1 /\ Strobe(n, i) THEN Beat(n)[i] ELSE dram[a]
        BY WordsNext
    <2>2. mdev.waddr = core.base + Half + k /\ k \in Nat /\ a \in Int
        BY <1>2, <1>8, <1>11 DEF Words
    <2>3. CASE a \in mdev.waddr..mdev.waddr + Blk - 1
        <3> HIDE DEF k
        <3>1. i \in 1..Blk /\ core.base + k + i - 1 = a - Half
            BY <1>4, <2>2, <2>3
        <3>2. Strobe(n, i) <=> a # core.base + Half + Half - 1
            <4>1. k + Blk <= Half /\ (n = Beats - 1 => k + Blk = Half) /\ (n < Beats - 1 => k + Blk < Half)
                BY <1>8, <1>9 DEF k
            <4>2. i = a - (core.base + Half + k) + 1 /\ n \in 0..Beats - 1
                BY <1>2, <2>2
            <4> HIDE DEF i, n
            <4>3. CASE n = Beats - 1
                BY <1>4, <2>2, <3>1, <4>1, <4>2, <4>3 DEF Strobe
            <4>4. CASE n < Beats - 1
                BY <1>4, <2>2, <3>1, <4>1, <4>2, <4>4 DEF Strobe
            <4> QED
                BY <1>4, <4>2, <4>3, <4>4
        <3> HIDE DEF i, n
        <3>3. Beat(n)[i] = a - Half
            BY <1>12, <3>1
        <3> QED
            BY <1>4, <1>11, <2>1, <2>2, <2>3, <3>2, <3>3
    <2>4. CASE a \notin mdev.waddr..mdev.waddr + Blk - 1
        BY <1>2, <2>1, <2>4
    <2> QED
        BY <2>3, <2>4
<1> QED
    BY <1>1, <1>2, <1>8, <1>13

\* How far the write back has come.
LEMMA ProgressNext ==
    ASSUME Inv, ReadDelay = 0, ~Starts, NEW ask \in SUBSET core.quiet, NEW take \in SUBSET Takers,
           NEW data \in BOOLEAN, Clock(ask, take, data)
    PROVE  /\ Progress' = IF Writes(data) THEN Progress + Blk ELSE Progress
           /\ Writes(data) => Progress = vme.sent * Blk
<1>1. /\ vme'.w = CASE vme.w = "idle" -> IF core.phase = "write" THEN "addr" ELSE "idle"
                         [] vme.w = "addr" -> IF bridge.w = "addr" THEN "data" ELSE "addr"
                         [] vme.w = "data" -> IF WrValid(data) /\ WLast THEN "resp" ELSE "data"
                         [] OTHER -> IF Ack THEN "idle" ELSE vme.w
      /\ vme'.sent = IF vme.w = "idle" THEN 0 ELSE IF WrValid(data) THEN vme.sent + 1 ELSE vme.sent
    BY VmeNext, Zenon DEF Inv, Memory
<1>2. core'.phase = NextPhase
    BY CoreNext, Zenon DEF Inv, Memory
<1>3. core.phase \in Phase /\ Beats \in Nat \ {0} /\ Blk \in Nat \ {0}
    BY Sizes DEF Inv, Memory, MemTyped
<1>4. CASE core.phase # "write"
    <2>1. vme.w = "idle" /\ ~Writes(data) /\ vme'.w = "idle"
        BY <1>1, <1>4 DEF Inv, Memory, Writing, Writes, WrValid
    <2>2. CASE core.phase = "read"
        BY <1>2, <2>1, <2>2 DEF NextPhase, Progress
    <2>3. CASE core.phase # "read"
        <3>1. core'.phase \notin {"read", "write"}
            BY <1>2, <1>3, <1>4, <2>3, NextPhases
        <3> QED
            BY <1>4, <2>1, <2>3, <3>1 DEF Progress
    <2> QED
        BY <2>2, <2>3
<1>5. CASE core.phase = "write"
    <2>1. (Ack => core'.phase = "finish") /\ (~Ack => core'.phase = "write")
        BY <1>2, <1>5 DEF NextPhase
    <2>2. <<vme.w, bridge.w>> \in {<<"idle", "idle">>, <<"addr", "idle">>,
                                   <<"addr", "addr">>, <<"data", "data">>, <<"resp", "resp">>}
        BY <1>5 DEF Inv, Memory, Writing
    <2>3. CASE vme.w = "idle" /\ bridge.w = "idle"
        <3>1. ~Ack /\ ~Writes(data)
            BY <2>3 DEF Ack, Writes, WrValid
        <3>2. vme'.w = "addr" /\ core'.phase = "write"
            BY <1>1, <1>5, <2>1, <2>3, <3>1
        <3> QED
            BY <1>5, <2>3, <3>1, <3>2 DEF Progress
    <2>4. CASE vme.w = "addr" /\ bridge.w = "idle"
        <3>1. ~Ack /\ ~Writes(data)
            BY <2>4 DEF Ack, Writes, WrValid
        <3>2. vme'.w = "addr" /\ core'.phase = "write"
            BY <1>1, <2>1, <2>4, <3>1
        <3> QED
            BY <1>5, <2>4, <3>1, <3>2 DEF Progress
    <2>5. CASE vme.w = "addr" /\ bridge.w = "addr"
        <3>1. ~Ack /\ ~Writes(data) /\ ~WrValid(data)
            BY <2>5 DEF Ack, Writes, WrValid
        <3>2. vme.sent = 0
            BY <2>5 DEF Inv, Memory, Writing
        <3>3. vme'.w = "data" /\ core'.phase = "write" /\ vme'.sent = 0
            BY <1>1, <2>1, <2>5, <3>1, <3>2
        <3>4. 0 * Blk = 0
            BY <1>3
        <3> QED
            BY <1>5, <2>5, <3>1, <3>3, <3>4 DEF Progress
    <2>6. CASE vme.w = "data" /\ bridge.w = "data"
        <3>1. ~Ack /\ core'.phase = "write"
            BY <2>1, <2>6 DEF Ack
        <3>2. vme.sent \in 0..Beats - 1 /\ mdev.wlen = Beats - vme.sent
            BY <2>6 DEF Inv, Memory, Writing
        <3>3. Writes(data) <=> WrValid(data)
            BY <1>3, <3>2 DEF Writes
        <3>4. Progress = vme.sent * Blk
            BY <1>5, <2>6 DEF Progress
        <3>5. vme.sent * Blk + Blk = (vme.sent + 1) * Blk
            BY <1>3, <3>2
        <3>6. CASE WrValid(data) /\ WLast
            <4>1. vme'.w = "resp" /\ vme.sent + 1 = Beats
                BY <1>1, <1>3, <2>6, <3>2, <3>6 DEF WLast
            <4>2. Progress' = Beats * Blk
                BY <3>1, <4>1 DEF Progress
            <4>3. Progress' = (vme.sent + 1) * Blk
                BY <4>1, <4>2, Zenon
            <4>4. Writes(data)
                BY <3>3, <3>6
            <4> QED
                BY <3>4, <3>5, <4>3, <4>4
        <3>7. CASE WrValid(data) /\ ~WLast
            <4>1. vme'.w = "data" /\ vme'.sent = vme.sent + 1
                BY <1>1, <2>6, <3>7
            <4>2. Progress' = (vme.sent + 1) * Blk
                BY <3>1, <4>1 DEF Progress
            <4> QED
                BY <3>3, <3>4, <3>5, <3>7, <4>2
        <3>8. CASE ~WrValid(data)
            <4>1. vme'.w = "data" /\ vme'.sent = vme.sent
                BY <1>1, <2>6, <3>8
            <4>2. Progress' = vme.sent * Blk
                BY <3>1, <4>1 DEF Progress
            <4> QED
                BY <3>3, <3>4, <3>8, <4>2
        <3> QED
            BY <3>6, <3>7, <3>8
    <2>7. CASE vme.w = "resp" /\ bridge.w = "resp"
        <3>1. Ack /\ ~Writes(data)
            BY <2>7 DEF Ack, Writes, WrValid
        <3>2. core'.phase = "finish" /\ vme'.w = "idle"
            BY <1>1, <2>1, <2>7, <3>1
        <3> QED
            BY <1>5, <2>7, <3>1, <3>2 DEF Progress
    <2> QED
        BY <2>2, <2>3, <2>4, <2>5, <2>6, <2>7
<1> QED
    BY <1>4, <1>5

\* The words of a run that a cycle sets.
LEMMA AreaNext ==
    ASSUME Inv, Filled, NEW ask, NEW take, NEW data \in BOOLEAN, Clock(ask, take, data), Writes(data),
           NEW q \in 1..MaxRuns, core.base = Base(q), NEW r \in 1..MaxRuns, NEW i \in 0..Half - 1
    PROVE  LET k == vme.sent * Blk IN
           /\ dram'[Base(r) + i] = dram[Base(r) + i]
           /\ r # q => dram'[Target(Base(r)) + i] = dram[Target(Base(r)) + i]
           /\ r = q => dram'[Target(Base(r)) + i] =
                          IF i \in k..k + Blk - 1 /\ i # Half - 1 THEN Base(r) + i ELSE dram[Target(Base(r)) + i]
<1> DEFINE k == vme.sent * Blk
           b == Base(q)
           d == Base(r)
<1>1. /\ k \in Nat /\ k + Blk <= Half
      /\ \A a \in Words : dram'[a] = IF a \in Target(b) + k..Target(b) + k + Blk - 1 /\ a # Target(b) + Half - 1
                                     THEN a - Half ELSE dram[a]
    BY WrittenWords
<1>2. /\ Half \in Nat \ {0} /\ b \in Nat /\ d \in Nat /\ Target(b) = b + Half /\ Target(d) = d + Half
      /\ d + i \in Words /\ Target(d) + i \in Words
      /\ r < q => d + 2 * Half <= b
      /\ q < r => b + 2 * Half <= d
      /\ r = q => d = b
    BY Areas
<1>3. Blk \in Nat \ {0} /\ (r < q \/ q < r \/ r = q) /\ i \in Int
    BY <1>2, Sizes
<1> HIDE DEF k, b, d
<1>4. d + i \notin b + Half + k..b + Half + k + Blk - 1
    BY <1>1, <1>2, <1>3
<1>5. r # q => d + Half + i \notin b + Half + k..b + Half + k + Blk - 1
    BY <1>1, <1>2, <1>3
<1>6. r = q => /\ d + Half + i \in b + Half + k..b + Half + k + Blk - 1 <=> i \in k..k + Blk - 1
               /\ d + Half + i = b + Half + Half - 1 <=> i = Half - 1
               /\ d + Half + i - Half = d + i
    BY <1>1, <1>2, <1>3
<1>7. dram'[d + i] = dram[d + i]
    BY <1>1, <1>2, <1>4
<1>8. r # q => dram'[Target(d) + i] = dram[Target(d) + i]
    BY <1>1, <1>2, <1>5
<1>9. r = q => dram'[Target(d) + i] = IF i \in k..k + Blk - 1 /\ i # Half - 1 THEN d + i ELSE dram[Target(d) + i]
    BY <1>1, <1>2, <1>6
<1> QED
    BY <1>7, <1>8, <1>9 DEF k, d

LEMMA WordsOfRuns ==
    ASSUME Inv, Filled, ReadDelay = 0, NEW ask \in SUBSET core.quiet, NEW take \in SUBSET Takers,
           NEW data \in BOOLEAN, Clock(ask, take, data)
    PROVE  /\ Filled'
           /\ Outcome /\ ~Starts => Outcome'
<1>1. run' = run /\ run \in Nat /\ run <= MaxRuns /\ MaxRuns \in Nat /\ Half = Beats * Blk
    BY Sizes DEF Clock, host, Inv, Control, HostTyped, Half
<1>2. Writes(data) => \E q \in 1..run : core.base = Base(q)
    <2>1. Writes(data) => core.base # 0
        BY WrittenWords
    <2> QED
        BY <2>1 DEF Inv, Control, Launched, Bases
<1>3. \A q \in 1..run : q \in 1..MaxRuns
    BY <1>1
<1>4. ASSUME NEW r \in 1..run, NEW i \in 0..Half - 1
      PROVE  dram'[Base(r) + i] = Base(r) + i
    <2>1. dram[Base(r) + i] = Base(r) + i
        BY <1>1 DEF Filled
    <2>2. CASE Writes(data)
        <3>1. dram'[Base(r) + i] = dram[Base(r) + i]
            BY <1>2, <1>3, <2>2, AreaNext
        <3> QED
            BY <2>1, <3>1
    <2>3. CASE ~Writes(data)
        BY <2>1, <2>3, WordsNext
    <2> QED
        BY <2>2, <2>3
<1>5. Filled'
    BY <1>1, <1>4 DEF Filled
<1>6. ASSUME Outcome, ~Starts, NEW r \in 1..MaxRuns, NEW i \in 0..Half - 1
      PROVE  dram'[Target(Base(r)) + i] = IF i # Half - 1 /\ Reached(r, i)' THEN Base(r) + i ELSE 0
    <2>1. dram[Target(Base(r)) + i] = IF i # Half - 1 /\ Reached(r, i) THEN Base(r) + i ELSE 0
        BY <1>1, <1>6 DEF Outcome
    <2>2. /\ Progress' = IF Writes(data) THEN Progress + Blk ELSE Progress
          /\ Writes(data) => Progress = vme.sent * Blk
        BY <1>6, ProgressNext
    <2>3. core'.base = core.base
        BY <1>6, CoreNext, Zenon DEF Inv, Memory
    <2>4. CASE ~Writes(data)
        <3>1. Reached(r, i)' <=> Reached(r, i)
            BY <2>2, <2>3, <2>4 DEF Reached, Base
        <3>2. dram' = dram
            BY <2>4, WordsNext
        <3> QED
            BY <2>1, <3>1, <3>2
    <2>5. CASE Writes(data)
        <3>1. PICK q \in 1..MaxRuns : core.base = Base(q)
            BY <1>2, <1>3, <2>5
        <3> DEFINE k == vme.sent * Blk
        <3>2. /\ r # q => dram'[Target(Base(r)) + i] = dram[Target(Base(r)) + i]
              /\ r = q => dram'[Target(Base(r)) + i] =
                             IF i \in k..k + Blk - 1 /\ i # Half - 1 THEN Base(r) + i ELSE dram[Target(Base(r)) + i]
            BY <2>5, <3>1, AreaNext
        <3>3. k \in Nat /\ Progress = k /\ Progress' = k + Blk /\ Blk \in Nat
            BY <2>2, <2>5, WrittenWords, Sizes
        <3> HIDE DEF k
        <3>4. /\ Base(r) < core.base => r # q
              /\ Base(r) = core.base <=> r = q
            BY <3>1, Areas
        <3>5. /\ Reached(r, i) <=> (Base(r) < core.base \/ (Base(r) = core.base /\ i < k))
              /\ Reached(r, i)' <=> (Base(r) < core.base \/ (Base(r) = core.base /\ i < k + Blk))
            BY <2>3, <3>3 DEF Reached, Base
        <3>6. CASE r = q
            <4>1. /\ Reached(r, i) <=> i < k
                  /\ Reached(r, i)' <=> i < k + Blk
                BY <3>4, <3>5, <3>6
            <4>2. i \in Int /\ (i \in k..k + Blk - 1 <=> ~(i < k) /\ i < k + Blk) /\ (i < k => i < k + Blk)
                BY <3>3
            <4> QED
                BY <2>1, <3>2, <3>6, <4>1, <4>2
        <3>7. CASE r # q
            BY <2>1, <3>2, <3>4, <3>5, <3>7
        <3> QED
            BY <3>6, <3>7
    <2> QED
        BY <2>4, <2>5
<1>7. Outcome /\ ~Starts => Outcome'
    BY <1>1, <1>6 DEF Outcome
<1> QED
    BY <1>5, <1>7

\* A run starts at the base address of its call.
LEMMA OutcomeStarts ==
    ASSUME Inv, Calls, Outcome, ReadDelay = 0, Starts, NEW ask \in SUBSET core.quiet, NEW take \in SUBSET Takers,
           NEW data \in BOOLEAN, Clock(ask, take, data)
    PROVE  Outcome'
<1>1. Ready
    <2>1. Unstarted \/ Ready \/ Running \/ Finished
        BY Stages DEF Inv, Control
    <2> QED
        BY <2>1 DEF Starts, Launch, Unstarted, Running, Finished, Inv, Control, Launched
<1>2. core.phase = "idle" /\ core.base = Before /\ core'.phase = "read" /\ core'.base = Base(run)
    BY <1>1, CoreNext, Zenon DEF Ready, Inv, Memory
<1>3. dram' = dram
    BY <1>2, WordsNext
<1>4. Half = Beats * Blk /\ Half \in Nat \ {0} /\ run \in 0..MaxRuns /\ MaxRuns \in Nat
    BY Sizes DEF Half, Inv, Control, HostTyped
<1>5. Progress = Half /\ Progress' = 0
    BY <1>2, <1>4 DEF Progress, Inv, Memory, Writing
<1>6. run > 0
    <2>1. Base(run) # 0
        BY <1>1 DEF Ready, Starts, Launch, Inv, Control, BaseFirst
    <2>2. run # 0
        BY <1>1 DEF Ready, Starts, Launch, Inv, Control, BaseFirst, HostTyped, Bases
    <2> QED
        BY <1>4, <2>2
<1>7. ASSUME NEW r \in 1..MaxRuns, NEW i \in 0..Half - 1
      PROVE  Reached(r, i)' <=> Reached(r, i)
    <2>1. Base(r) \in Nat \ {0} /\ (r < run <=> Base(r) < Base(run)) /\ (r = run <=> Base(r) = Base(run))
        BY <1>4, <1>6, Areas
    <2>2. Reached(r, i)' <=> r < run
        <3>1. Reached(r, i)' <=> (Base(r) < Base(run) \/ (Base(r) = Base(run) /\ i < 0))
            BY <1>2, <1>5 DEF Reached, Base
        <3> QED
            BY <2>1, <3>1
    <2>3. Reached(r, i) <=> Base(r) <= Before
        <3>1. Before \in Nat
            BY <1>2 DEF Inv, Memory, MemTyped
        <3> QED
            BY <1>2, <1>4, <1>5, <2>1, <3>1 DEF Reached
    <2>4. CASE run <= 1
        BY <1>4, <1>6, <2>1, <2>2, <2>3, <2>4 DEF Before
    <2>5. CASE run > 1
        <3>1. PICK q \in 1..MaxRuns : q = run - 1
            BY <1>4, <2>5
        <3>2. Before = Base(q) /\ Base(q) \in Nat
            BY <1>4, <2>5, <3>1, Areas DEF Before
        <3>3. (r < q <=> Base(r) < Base(q)) /\ (r = q <=> Base(r) = Base(q))
            BY Areas
        <3> QED
            BY <1>4, <2>1, <2>2, <2>3, <3>1, <3>2, <3>3
    <2> QED
        BY <1>4, <2>4, <2>5
<1>8. ASSUME NEW r \in 1..MaxRuns, NEW i \in 0..Half - 1
      PROVE  dram'[Target(Base(r)) + i] = IF i # Half - 1 /\ Reached(r, i)' THEN Base(r) + i ELSE 0
    <2>1. dram[Target(Base(r)) + i] = IF i # Half - 1 /\ Reached(r, i) THEN Base(r) + i ELSE 0
        BY <1>4 DEF Outcome
    <2> QED
        BY <1>3, <1>7, <2>1
<1> QED
    BY <1>4, <1>8 DEF Outcome

--------------------------------------------------------------------------------
(* The invariant of a call, and what follows from it.                      *)

Whole == Inv /\ Completed

LEMMA CompletedInit ==
    ASSUME Init, ReadDelay = 0
    PROVE  Completed
<1>1. Inv
    BY InvInit
<1>2. /\ pc = "new" /\ run = 0 /\ reqs = <<>> /\ answers = <<>> /\ prof = 0 /\ cleared = 0
      /\ conv = [state |-> "idle", req |-> NoReq, shown |-> NoReq, rdata |-> 0]
      /\ reg = [ctrl |-> 0, base |-> 0, beats |-> 0] /\ launchBefore = FALSE
      /\ vme.beats = 0 /\ core.phase = "idle" /\ core.base = 0
      /\ dram = [a \in 1..MaxRuns * AreaWords |-> 0]
    BY DEF Init, MemInit
<1>3. conv.state = "idle" /\ conv.shown = NoReq /\ reg.ctrl = 0
    BY <1>2
<1>4. Shows
    BY <1>3 DEF Shows, Deq
<1>5. Tally
    BY <1>2 DEF Tally
<1>6. Filled
    BY <1>2 DEF Filled
<1>7. Todo = <<>>
    BY <1>2, <1>3 DEF Todo, InHand
<1>8. Calls
    BY <1>2, <1>3, <1>7 DEF Calls, Between, Unstarted, Before
<1>9. Outcome
    <2>1. ASSUME NEW r \in 1..MaxRuns, NEW i \in 0..Half - 1
          PROVE  dram[Target(Base(r)) + i] = 0 /\ ~Reached(r, i)
        <3>1. Target(Base(r)) + i \in Words /\ Base(r) \in Nat \ {0}
            BY Areas
        <3>2. dram[Target(Base(r)) + i] = 0
            BY <1>2, <3>1 DEF Words
        <3>3. ~Reached(r, i)
            BY <1>2, <3>1 DEF Reached
        <3> QED
            BY <3>2, <3>3
    <2> QED
        BY <2>1 DEF Outcome, Half
<1>10. Summed
    <2>1. Beats \in Nat /\ (0 - 0) * Beats = 0
        BY Sizes
    <2> QED
        BY <1>2, <2>1 DEF Summed, Between
<1> QED
    BY <1>4, <1>5, <1>6, <1>8, <1>9, <1>10 DEF Completed

\* A step that leaves memory and the run of this call alone.
LEMMA WordsStay ==
    ASSUME UNCHANGED <<dram, run, hardware>>
    PROVE  (Filled => Filled') /\ (Outcome => Outcome')
<1>1. \A r, i : Reached(r, i)' <=> Reached(r, i)
    BY DEF Reached, Progress, Base, hardware, memPath
<1>2. Filled => Filled'
    BY DEF Filled
<1>3. ASSUME Outcome, NEW r \in 1..MaxRuns, NEW i \in 0..Beats * Blk - 1
      PROVE  dram'[Target(Base(r)) + i] = IF i # Beats * Blk - 1 /\ Reached(r, i)' THEN Base(r) + i ELSE 0
    <2>1. dram[Target(Base(r)) + i] = IF i # Beats * Blk - 1 /\ Reached(r, i) THEN Base(r) + i ELSE 0
        BY <1>3 DEF Outcome
    <2> QED
        BY <1>1, <2>1
<1>4. Outcome => Outcome'
    BY <1>3 DEF Outcome
<1> QED
    BY <1>2, <1>4

LEMMA CompletedHost ==
    ASSUME Whole, HostStep
    PROVE  Completed'
<1> USE DEF hardware, memPath, queues, host, SameRun
<1>1. Inv /\ Shows /\ Tally /\ Filled /\ (~expired => Calls /\ Outcome /\ Summed)
    BY DEF Whole, Completed
<1>2. expired => expired'
    BY DEF HostStep, SimLaunch, InitWaits, StartRun, Resumes, SetWait, WriteBase, WriteStart, ReadDone, Push,
           GiveUp, Polled, ReadCounter, Update, RunWaits, ClearAll, ExitResumes, SimFinish, Joined
<1>3. ~expired' => Calls' /\ Summed'
    BY <1>1, <1>2, CallsHost
<1>4. CASE StartRun
    <2>1. UNCHANGED <<hardware, reqs>>
        BY <1>4 DEF StartRun
    <2>2. Shows'
        BY <1>1, <2>1, TodoHost DEF Inv, Control
    <2>3. Tally'
        BY <1>1, <2>1, TallyStays
    <2> QED
        BY <1>1, <1>2, <1>3, <1>4, <2>2, <2>3, StartRunWords DEF Completed
<1>5. CASE ~StartRun
    <2>1. UNCHANGED <<dram, run, hardware>>
        BY <1>5 DEF HostStep, SimLaunch, InitWaits, Resumes, SetWait, WriteBase, WriteStart, ReadDone, Push,
                    GiveUp, Polled, ReadCounter, Update, RunWaits, ClearAll, ExitResumes, SimFinish, Joined
    <2>2. reqs' = reqs \/ \E q \in Requests : reqs' = Append(reqs, q)
        <3>1. WriteBase => Write("base", Base(run)) \in Requests
            BY <1>1 DEF WriteBase, Push, Goto, Inv, Control, HostTyped, Between, Requests, Bases
        <3>2. /\ Write("ctrl", 1) \in Requests /\ Read("ctrl") \in Requests /\ Read("beats") \in Requests
              /\ WriteBase => reqs' = Append(reqs, Write("base", Base(run)))
              /\ WriteStart => reqs' = Append(reqs, Write("ctrl", 1))
              /\ ReadDone => reqs' = Append(reqs, Read("ctrl"))
              /\ ReadCounter => reqs' = Append(reqs, Read("beats"))
            BY DEF Requests, WriteBase, WriteStart, ReadDone, ReadCounter, Push, Write, Read
        <3>3. reqs' = reqs \/ WriteBase \/ WriteStart \/ ReadDone \/ ReadCounter
            BY <1>5 DEF HostStep, SimLaunch, InitWaits, Resumes, SetWait, GiveUp, Polled, Update, RunWaits,
                        ClearAll, ExitResumes, SimFinish, Joined
        <3> QED
            BY <3>1, <3>2, <3>3
    <2>3. Shows'
        BY <1>1, <2>1, <2>2, TodoHost DEF Inv, Control
    <2>4. Tally'
        BY <1>1, <2>1, TallyStays
    <2>5. Filled' /\ (Outcome => Outcome')
        BY <1>1, <2>1, WordsStay
    <2> QED
        BY <1>1, <1>2, <1>3, <2>3, <2>4, <2>5 DEF Completed
<1> QED
    BY <1>4, <1>5

LEMMA CompletedClock ==
    ASSUME Whole, Inv', ReadDelay = 0, NEW ask \in SUBSET core.quiet, NEW take \in SUBSET Takers,
           NEW data \in BOOLEAN, Clock(ask, take, data)
    PROVE  Completed'
<1>1. Inv /\ Shows /\ Tally /\ Filled /\ (~expired => Calls /\ Outcome /\ Summed)
    BY DEF Whole, Completed
<1>2. UNCHANGED <<pc, run, prof, cleared, expired>>
    BY DEF Clock, host
<1>3. Shows'
    BY <1>1, TodoNext DEF Clock
<1>4. Tally'
    BY <1>1, TallyNext
<1>5. Filled'
    BY <1>1, WordsOfRuns
<1>6. ASSUME ~expired
      PROVE  Calls' /\ Outcome' /\ Summed'
    <2>1. Calls /\ Outcome /\ Summed
        BY <1>1, <1>6
    <2>2. Calls'
        BY <1>1, <2>1, CallsClock
    <2>3. Outcome'
        BY <1>1, <2>1, WordsOfRuns, OutcomeStarts
    <2>4. Summed'
        BY <1>2, <2>1 DEF Summed
    <2> QED
        BY <2>2, <2>3, <2>4
<1> QED
    BY <1>2, <1>3, <1>4, <1>5, <1>6 DEF Completed

LEMMA CompletedStays ==
    ASSUME Whole, UNCHANGED <<dram, host, queues, hardware>>
    PROVE  Completed'
<1> USE DEF host, queues
<1>1. Inv /\ Shows /\ Tally /\ Filled /\ (~expired => Calls /\ Outcome /\ Summed)
    BY DEF Whole, Completed
<1>2. Shows' /\ Todo' = Todo
    BY <1>1, TodoHost DEF Inv, Control, hardware
<1>3. Tally' /\ Filled' /\ (Outcome => Outcome')
    BY <1>1, TallyStays, WordsStay
<1>4. \A rest : Sending(rest)' <=> Sending(rest)
    BY <1>2, StageStays DEF Sending
<1>5. Calls => Calls'
    BY <1>2, <1>4, StageStays DEF Calls
<1>6. Summed => Summed'
    BY DEF Summed
<1> QED
    BY <1>1, <1>2, <1>3, <1>5, <1>6 DEF Completed

LEMMA WholeInvariant ==
    ASSUME ReadDelay = 0
    PROVE  Spec => []Whole
<1>1. Init => Whole
    BY InvInit, CompletedInit DEF Whole
<1>2. ASSUME Whole, [Next]_vars
      PROVE  Whole'
    <2>1. Inv'
        BY <1>2, InvNext DEF Whole
    <2>2. CASE HostStep
        BY <1>2, <2>1, <2>2, CompletedHost DEF Whole
    <2>3. CASE Held \/ UNCHANGED vars
        BY <1>2, <2>1, <2>3, CompletedStays DEF Held, vars, Whole
    <2>4. ASSUME NEW ask \in SUBSET core.quiet, NEW take \in SUBSET Takers, NEW data \in BOOLEAN,
                 Clock(ask, take, data)
          PROVE  Whole'
        BY <1>2, <2>1, <2>4, CompletedClock DEF Whole
    <2> QED
        BY <1>2, <2>2, <2>3, <2>4 DEF Next, SimStep
<1> QED
    BY <1>1, <1>2, PTL DEF Spec

\* Until a call has run out of polls, the host that saw the finish bit finds all
\* the results of its calls in memory, the masked word untouched: for any number
\* of calls, clients, slots and beats.
THEOREM ResultsAreWritten ==
    ASSUME ReadDelay = 0
    PROVE  Spec => []DoneMeansWritten
<1>1. ASSUME Whole
      PROVE  DoneMeansWritten
    <2> SUFFICES ASSUME pc \in {"counters", "update", "wait"}, ~expired, NEW r \in 1..run, NEW i \in 0..Half - 1
                 PROVE  dram[Target(Base(r)) + i] = IF i = Half - 1 THEN 0 ELSE Base(r) + i
        BY DEF DoneMeansWritten, Half
    <2>1. Finished /\ Outcome
        BY <1>1, Stages DEF Whole, Completed, Inv, Control
    <2>2. run \in 0..MaxRuns /\ MaxRuns \in Nat /\ Half = Beats * Blk
        BY <1>1, Sizes DEF Whole, Inv, Control, HostTyped, Half
    <2>3. r \in 1..MaxRuns /\ run \in 1..MaxRuns
        BY <2>2
    <2>4. Progress = Half
        BY <1>1, <2>1, <2>2 DEF Finished, Progress, Whole, Inv, Memory, Writing
    <2>5. Reached(r, i)
        <3>1. Base(r) < Base(run) \/ Base(r) = Base(run)
            BY <2>2, <2>3, Areas
        <3> QED
            BY <2>1, <2>2, <2>4, <3>1, Sizes DEF Reached, Finished
    <2>6. dram[Target(Base(r)) + i] = IF i # Half - 1 /\ Reached(r, i) THEN Base(r) + i ELSE 0
        BY <2>1, <2>2, <2>3 DEF Outcome
    <2> QED
        BY <2>5, <2>6
<1>2. Spec => []Whole
    BY WholeInvariant
<1> QED
    BY <1>1, <1>2, PTL

\* Until a call has run out of polls, the profiler's sum is that of the read
\* beats of the runs since it was cleared: for any number of calls.
THEOREM ProfileIsTheSum ==
    ASSUME ReadDelay = 0
    PROVE  Spec => []ProfileAddsUp
<1>1. Whole => ProfileAddsUp
    BY DEF Whole, Completed, Summed, ProfileAddsUp, Between
<1>2. Spec => []Whole
    BY WholeInvariant
<1> QED
    BY <1>1, <1>2, PTL

================================================================================
