--------------------------------- MODULE TsimMem --------------------------------
(***************************************************************************)
(* The memory path of the cycle simulation, one clock cycle at a time: the *)
(* VTA Memory Engine (VME) gives each read of a client a slot, whose       *)
(* number is the AXI id; VTAMemDPIToAXI turns the AXI bursts into calls of *)
(* VTAMemDPI; MemDevice (src/dpi/module.cc) serves them from the host's    *)
(* memory.  A cycle reads the registers as they were and sets them all.    *)
(*                                                                         *)
(* The clients are one run of the accelerator: each reads one burst of its *)
(* own, then one burst writes all of it back, the last word masked.        *)
(***************************************************************************)
EXTENDS Integers, Sequences, FiniteSetsExt

CONSTANTS
    Clients,     \* nReadClients
    BurstLen,    \* the AXI length of a read burst: its beats - 1
    Blk,         \* 32-bit words in a beat
    Slots,       \* RequestQueueDepth
    RespDepth,   \* clientDataQueueDepth
    ReadDelay    \* VTA_TSIM_MEM_READ_LATENCY

ASSUME TsimMemAssumption ==
    /\ {Clients, Blk, Slots, RespDepth} \subseteq Nat \ {0} /\ {BurstLen, ReadDelay} \subseteq Nat

Client == 1..Clients
Slot == 0..Slots - 1
Beats == Clients * (BurstLen + 1)          \* of a run
Source(base, c) == base + (c - 1) * (BurstLen + 1) * Blk
Target(base) == base + Beats * Blk
AreaWords == 2 * Beats * Blk

VARIABLES
    dram,      \* the words of the simulated DRAM
    mdev,      \* MemDevice: raddr_, rlen_, rid_, waddr_, wlen_
    shown,     \* the registered outputs of VTAMemDPI.v: valid, id, data
    bridge,    \* VTAMemDPIToAXI: its two state machines and the read delay
    vme,       \* VME: the pending AR, the slots, the write state machine
    resps,     \* per client, its response queue: [data, last]
    core       \* the run: phase, base address, who has yet to ask, whose command
               \* waits, the beats received

memPath == <<mdev, shown, bridge, vme, resps, core>>
None == [addr |-> 0, len |-> 0, id |-> 0]
Dead == [i \in 1..Blk |-> -1]

MemInit ==
    /\ mdev = [raddr |-> 0, rlen |-> 0, rid |-> 0, waddr |-> 0, wlen |-> 0]
    /\ shown = [valid |-> FALSE, id |-> 0, data |-> Dead]
    /\ bridge = [queue |-> <<>>, r |-> "idle", ar |-> None, delay |-> 0,
                 w |-> "idle", aw |-> None, awBefore |-> FALSE]
    /\ vme = [ar |-> None, free |-> Slot, issued |-> {}, owner |-> [s \in Slot |-> 0],
              left |-> [s \in Slot |-> 0], w |-> "idle", sent |-> 0, beats |-> 0]
    /\ resps = [c \in Client |-> <<>>]
    /\ core = [phase |-> "idle", base |-> 0, quiet |-> {}, asks |-> {}, got |-> [c \in Client |-> <<>>]]

--------------------------------------------------------------------------------
(* The wires of a cycle.                                                   *)

\* VME: the first client with a command takes the first free slot.
Issue == vme.ar = None /\ core.asks # {} /\ vme.free # {}
ArFire == vme.ar # None                    \* the bridge's queue of 256 is never full

\* VTAMemDPIToAXI: the head of its queue is its next request.
DeqFire == bridge.r = "idle" /\ bridge.queue # <<>>
Request == IF DeqFire THEN Head(bridge.queue) ELSE bridge.ar
ArValid == IF ReadDelay = 0 THEN DeqFire ELSE bridge.delay = 1
RValid == bridge.r = "data" /\ shown.valid
RLast == bridge.ar.len = 0 /\ shown.valid
RReady ==
    /\ shown.id \in Slot \ vme.free
    /\ shown.id \in vme.issued \/ (ArFire /\ vme.ar.id = shown.id)
    /\ Len(resps[vme.owner[shown.id]]) < RespDepth
RFire == RValid /\ RReady
RdReady == bridge.r = "data" /\ RReady

AwValid == bridge.awBefore /\ bridge.w = "addr"
WrValid(data) == bridge.w = "data" /\ vme.w = "data" /\ data
WLast == vme.sent = Beats - 1
Ack == bridge.w = "resp" /\ vme.w = "resp"

--------------------------------------------------------------------------------
(* MemDevice and the callback VTAMemDPI: write, take requests, read.       *)

\* The beat the core writes: what it read, in the order of the clients.
Beat(n) == core.got[1 + (n \div (BurstLen + 1))][1 + (n % (BurstLen + 1))]
StrobeAll(n, i) == TRUE                                    \* mutant of Strobe
Strobe(n, i) == n < Beats - 1 \/ i < Blk
WriteData(m) == [m EXCEPT !.waddr = @ + Blk, !.wlen = @ - 1]
Written(m) ==
    [a \in DOMAIN dram |->
       IF a \in m.waddr..m.waddr + Blk - 1 /\ Strobe(vme.sent, a - m.waddr + 1)
       THEN Beat(vme.sent)[a - m.waddr + 1] ELSE dram[a]]

RequestLen(r) == IF r.addr # 0 THEN r.len + 1 ELSE 0
SetRequest(m) ==
    LET rd == IF ArValid THEN [m EXCEPT !.raddr = Request.addr, !.rlen = RequestLen(Request),
                                        !.rid = IF Request.addr # 0 THEN Request.id ELSE @]
              ELSE m
    IN  IF AwValid THEN [rd EXCEPT !.waddr = bridge.aw.addr, !.wlen = RequestLen(bridge.aw)] ELSE rd

\* The accepted beat is left behind before the next one is shown.
ReadDataStays(m) == m                                      \* mutant of ReadData
ReadData(m) == IF RdReady /\ m.rlen > 0 THEN [m EXCEPT !.raddr = @ + Blk, !.rlen = @ - 1] ELSE m

MemDPI(data) ==
    LET writes == WrValid(data) /\ mdev.wlen > 0 IN
    /\ dram' = IF writes THEN Written(mdev) ELSE dram
    /\ mdev' = ReadData(SetRequest(IF writes THEN WriteData(mdev) ELSE mdev))
    /\ shown' = [valid |-> mdev'.rlen > 0, id |-> mdev'.rid,
                 data |-> IF mdev'.rlen > 0 THEN [i \in 1..Blk |-> dram'[mdev'.raddr + i - 1]] ELSE Dead]

--------------------------------------------------------------------------------
(* The registers of the bridge, of the VME and of the clients.             *)

BridgeRead(b) ==
    [b EXCEPT
      !.queue = (IF DeqFire THEN Tail(@) ELSE @) \o (IF ArFire THEN <<vme.ar>> ELSE <<>>),
      !.r = IF DeqFire THEN "data" ELSE IF @ = "data" /\ RReady /\ RLast THEN "idle" ELSE @,
      !.ar = IF DeqFire THEN Head(b.queue)
             ELSE IF RFire /\ @.len # 0 THEN [addr |-> @.addr, len |-> @.len - 1, id |-> @.id]
             ELSE @,
      !.delay = IF DeqFire THEN ReadDelay ELSE IF @ > 0 THEN @ - 1 ELSE 0]
BridgeWrite(b, data) ==
    [b EXCEPT
      !.awBefore = vme.w = "addr",
      !.aw = IF b.w = "idle" /\ vme.w = "addr"
             THEN [addr |-> Target(core.base), len |-> Beats - 1, id |-> 0] ELSE @,
      !.w = CASE @ = "idle" -> IF vme.w = "addr" THEN "addr" ELSE @
              [] @ = "addr" -> IF vme.w = "addr" THEN "data" ELSE @
              [] @ = "data" -> IF WrValid(data) /\ WLast THEN "resp" ELSE @
              [] OTHER -> IF vme.w = "resp" THEN "idle" ELSE @]

\* A slot is free again after the last beat of its read.
FreedAtFirst == IF RFire THEN {shown.id} ELSE {}           \* mutant of Freed
Freed == IF RFire /\ RLast THEN {shown.id} ELSE {}
VmeRead(v, launch) ==
    LET c == Min(core.asks) IN
    LET s == Min(v.free) IN
    [v EXCEPT
      !.ar = IF Issue THEN [addr |-> Source(core.base, c), len |-> BurstLen, id |-> s]
             ELSE IF ArFire THEN None ELSE @,
      !.owner = IF Issue THEN [@ EXCEPT ![s] = c] ELSE @,
      !.free = (@ \cup Freed) \ (IF Issue THEN {s} ELSE {}),
      !.issued = (@ \cup (IF ArFire THEN {v.ar.id} ELSE {})) \ Freed,
      !.left = [t \in Slot |-> IF RFire /\ t = shown.id
                               THEN (IF ArFire /\ v.ar.id = t THEN v.ar.len + 1 ELSE @[t]) - 1
                               ELSE IF ArFire /\ v.ar.id = t THEN v.ar.len + 1 ELSE @[t]],
      !.beats = IF ~launch THEN 0 ELSE IF RFire THEN @ + 1 ELSE @]
VmeWrite(v, data) ==
    [v EXCEPT
      !.w = CASE @ = "idle" -> IF core.phase = "write" THEN "addr" ELSE @
              [] @ = "addr" -> IF bridge.w = "addr" THEN "data" ELSE @
              [] @ = "data" -> IF WrValid(data) /\ WLast THEN "resp" ELSE @
              [] OTHER -> IF Ack THEN "idle" ELSE @,
      !.sent = IF v.w = "idle" THEN 0 ELSE IF WrValid(data) THEN @ + 1 ELSE @]

Responses(take) ==
    [c \in Client |->
       (IF c \in take THEN Tail(resps[c]) ELSE resps[c])
         \o (IF RFire /\ vme.owner[shown.id] = c THEN <<shown.data>> ELSE <<>>)]
Takers == {c \in Client : resps[c] # <<>>}

NextPhase ==
    CASE core.phase = "read" /\ \A c \in Client : Len(core.got[c]) = BurstLen + 1 -> "write"
      [] core.phase = "write" /\ Ack -> "finish"
      [] core.phase = "finish" -> "finished"
      [] core.phase = "finished" -> "idle"
      [] OTHER -> core.phase
CoreCycle(ask, take, start, base) ==
    core' = IF start THEN [core EXCEPT !.phase = "read", !.base = base, !.quiet = Client,
                                       !.got = [c \in Client |-> <<>>]]
            ELSE [core EXCEPT
                   !.phase = NextPhase,
                   !.quiet = @ \ ask,
                   !.asks = (@ \ (IF Issue THEN {Min(@)} ELSE {})) \cup ask,
                   !.got = [c \in Client |-> IF c \in take THEN Append(@[c], Head(resps[c])) ELSE @[c]]]

\* In a cycle the clients in ask send their command, those in take accept a
\* beat, and the writer has its beat or not.
MemCycle(ask, take, data, launch, start, base) ==
    /\ MemDPI(data)
    /\ bridge' = BridgeWrite(BridgeRead(bridge), data)
    /\ vme' = VmeWrite(VmeRead(vme, launch), data)
    /\ resps' = Responses(take)
    /\ CoreCycle(ask, take, start, base)

--------------------------------------------------------------------------------
\* Every client receives the beats it asked for, in order and once: MemDevice
\* and the registered outputs agree on which beat was accepted.
BeatsInOrder ==
    \A c \in Client : \A n \in DOMAIN core.got[c], i \in 1..Blk :
        core.got[c][n][i] = dram[Source(core.base, c) + (n - 1) * Blk + i - 1]

\* The assertions of VME: a beat has a slot that was given to a client, whose AR
\* was sent and whose beats are not over, and its last beat is the last.
VmeAssertions ==
    RValid => /\ shown.id \in Slot \ vme.free
              /\ shown.id \in vme.issued
              /\ RReady => vme.left[shown.id] # 0 /\ (RLast <=> vme.left[shown.id] = 1)
================================================================================
