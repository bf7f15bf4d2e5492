----------------------------- MODULE VirtualMemory -----------------------------
(***************************************************************************)
(* The simulated DRAM of the functional and cycle simulators               *)
(* (src/vmem/virtual_memory.cc): allocations are runs of pages with a      *)
(* physical address range and a heap block behind them; a freed run is     *)
(* kept and handed out again.  Every method runs under the manager's one   *)
(* lock, so each is one action.                                            *)
(*                                                                         *)
(* A run of pages (struct Page) is known by its number in order of         *)
(* creation; a virtual address is a place in the block of a run.  live is  *)
(* the model's own: the runs handed out and not given back, with the bytes *)
(* they were asked for.                                                    *)
(***************************************************************************)
EXTENDS Naturals, Sequences, SequencesExt, FiniteSets

CONSTANTS
    PageSize,     \* VTA_PAGE_BYTES
    Bytes,        \* bound: the sizes asked for
    MaxRuns       \* bound: runs ever created

ASSUME VirtualMemoryAssumption ==
    /\ PageSize \in Nat \ {0} /\ MaxRuns \in Nat
    /\ Bytes \subseteq Nat

VARIABLES
    runs,     \* pmap_'s Page objects: [begin, pages]
    ptable,   \* ptable_: per physical page, its run
    free,     \* free_map_: runs, in the order they were freed
    live      \* [run, bytes] handed out

memVars == <<runs, ptable, free, live>>

MemInit ==
    /\ runs = <<>>
    /\ ptable = <<>>
    /\ free = <<>>
    /\ live = {}

NumPagesDown(bytes) == bytes \div PageSize                     \* mutant of NumPages
NumPages(bytes) == (bytes + PageSize - 1) \div PageSize

\* free_map_.lower_bound: the smallest run that is large enough, and of
\* equally large ones the one freed first.
Fits(bytes) == {i \in DOMAIN free : runs[free[i]].pages >= NumPages(bytes)}
BestFit(bytes) ==
    CHOOSE i \in Fits(bytes) : \A j \in Fits(bytes) :
        \/ runs[free[i]].pages < runs[free[j]].pages
        \/ runs[free[i]].pages = runs[free[j]].pages /\ i <= j

\* Alloc, returning run r: a free run, or else a new one at the end of the table.
AllocFree(bytes, r) ==
    /\ Fits(bytes) # {} /\ r = free[BestFit(bytes)]
    /\ free' = RemoveAt(free, BestFit(bytes))
    /\ UNCHANGED <<runs, ptable>>
AllocNew(bytes, r) ==
    /\ Fits(bytes) = {} /\ r = Len(runs) + 1 /\ r <= MaxRuns
    /\ runs' = Append(runs, [begin |-> Len(ptable), pages |-> NumPages(bytes)])
    /\ ptable' = ptable \o [i \in 1..NumPages(bytes) |-> r]
    /\ UNCHANGED free
Alloc(bytes, r) ==
    /\ AllocFree(bytes, r) \/ AllocNew(bytes, r)
    /\ live' = live \cup {[run |-> r, bytes |-> bytes]}

\* Free of the block of run r; the caller's bytes are no longer its own.
Free(r) ==
    /\ free' = Append(free, r)
    /\ live' = {a \in live : a.run # r}
    /\ UNCHANGED <<runs, ptable>>

\* GetPhyAddr of the byte off of the block of run r.
GetPhyAddr(r, off) == (runs[r].begin + 1) * PageSize + off

\* GetAddr: the run and the byte a physical address leads to.  The address
\* must lie in the table.
Location(phy) == phy \div PageSize - 1
Mapped(phy) == phy >= PageSize /\ Location(phy) < Len(ptable)
GetAddr(phy) ==
    LET r == ptable[Location(phy) + 1] IN
    [run |-> r, off |-> (Location(phy) - runs[r].begin) * PageSize + (phy % PageSize)]

--------------------------------------------------------------------------------
MemTypeOK ==
    /\ runs \in Seq([begin : Nat, pages : Nat])
    /\ ptable \in Seq(DOMAIN runs)
    /\ free \in Seq(DOMAIN runs)
    /\ live \subseteq [run : DOMAIN runs, bytes : Nat]

\* A run is never in two hands, nor handed out while it is free, nor free twice.
NotShared ==
    /\ \A a, b \in live : a.run = b.run => a = b
    /\ \A a \in live : a.run \notin Range(free)
    /\ \A i, j \in DOMAIN free : free[i] = free[j] => i = j

\* The device reaches, from the physical address of a byte of an allocation,
\* that very byte.
RoundTrip ==
    \A a \in live : \A off \in 0..(a.bytes - 1) :
        /\ Mapped(GetPhyAddr(a.run, off))
        /\ GetAddr(GetPhyAddr(a.run, off)) = [run |-> a.run, off |-> off]
================================================================================
