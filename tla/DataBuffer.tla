------------------------------ MODULE DataBuffer -------------------------------
(***************************************************************************)
(* Device buffers as TVM's device API sees them (DataBuffer and            *)
(* DeviceAllocStat of runtime/runtime.cc over the simulated DRAM):         *)
(* VTABufferAlloc and VTABufferFree of several threads.  The two locks     *)
(* (alloc_stat's and the memory manager's) protect single steps, not the   *)
(* whole call, and a handle is the heap address of a DataBuffer object,    *)
(* free to be used again once the object is deleted.                       *)
(***************************************************************************)
EXTENDS VirtualMemory

CONSTANTS
    Thread,    \* bound: the threads that use the device
    Handle     \* bound: the heap addresses new DataBuffer() may return

VARIABLES
    objects,     \* per existing DataBuffer object: [run, phy]; phy 0 until set
    allocated,   \* allocated_: the handles alloc_stat knows
    held,        \* per thread, the handles VTABufferAlloc has returned to it
    pc,          \* per thread, the step of the call it is in
    reg          \* per thread, the handle and run that call works on

bufVars == <<memVars, objects, allocated, held, pc, reg>>

NoReg == [handle |-> "none", run |-> 0]

Init ==
    /\ MemInit
    /\ objects = <<>>                      \* a function with an empty domain
    /\ allocated = {}
    /\ held = [t \in Thread |-> {}]
    /\ pc = [t \in Thread |-> "idle"]
    /\ reg = [t \in Thread |-> NoReg]

\* mutant of Goto: delete, then VTAMemFree, before DelAlloc.
Moves(t, from, to) == pc[t] = from /\ pc' = [pc EXCEPT ![t] = to]
ForgetLast(t, from, to) ==
    CASE from = "forget" -> Moves(t, "delete", "idle")
      [] from = "free"   -> Moves(t, "forget", "free")
      [] from = "delete" -> Moves(t, "free", "delete")
      [] OTHER           -> Moves(t, from, to)

Goto(t, from, to) == pc[t] = from /\ pc' = [pc EXCEPT ![t] = to]

\* DataBuffer::Alloc: VTAMemAlloc, then the object, then its physical
\* address, then AddAlloc.
MemAlloc(t) ==
    /\ Goto(t, "idle", "new")
    /\ \E bytes \in Bytes, r \in 1..MaxRuns :
          Alloc(bytes, r) /\ reg' = [reg EXCEPT ![t].run = r]
    /\ UNCHANGED <<objects, allocated, held>>
NewObject(t) ==
    /\ Goto(t, "new", "address")
    /\ \E h \in Handle \ DOMAIN objects :
          /\ objects' = [g \in DOMAIN objects \cup {h} |->
                            IF g = h THEN [run |-> reg[t].run, phy |-> 0] ELSE objects[g]]
          /\ reg' = [reg EXCEPT ![t].handle = h]
    /\ UNCHANGED <<memVars, allocated, held>>
SetAddress(t) ==
    /\ Goto(t, "address", "publish")
    /\ objects' = [objects EXCEPT ![reg[t].handle].phy = GetPhyAddr(reg[t].run, 0)]
    /\ UNCHANGED <<memVars, allocated, held, reg>>
AddAlloc(t) ==
    /\ Goto(t, "publish", "idle")
    /\ allocated' = allocated \cup {reg[t].handle}
    /\ held' = [held EXCEPT ![t] = @ \cup {reg[t].handle}]
    /\ UNCHANGED <<memVars, objects, reg>>

\* VTABufferFree: FromHandle finds the handle in alloc_stat, then DelAlloc,
\* VTAMemFree and delete.  A thread frees what it holds.
FromHandle(t) ==
    /\ Goto(t, "idle", "forget")
    /\ \E h \in held[t] \cap allocated :
          /\ reg' = [reg EXCEPT ![t].handle = h]
          /\ held' = [held EXCEPT ![t] = @ \ {h}]
    /\ UNCHANGED <<memVars, objects, allocated>>
DelAllocNothing(t) ==                    \* mutant of DelAlloc
    /\ Goto(t, "forget", "free")
    /\ UNCHANGED <<memVars, objects, allocated, held, reg>>
DelAlloc(t) ==
    /\ Goto(t, "forget", "free")
    /\ allocated' = allocated \ {reg[t].handle}
    /\ UNCHANGED <<memVars, objects, held, reg>>
MemFree(t) ==
    /\ Goto(t, "free", "delete")
    /\ Free(objects[reg[t].handle].run)
    /\ UNCHANGED <<objects, allocated, held, reg>>
Delete(t) ==
    /\ Goto(t, "delete", "idle")
    /\ objects' = [h \in DOMAIN objects \ {reg[t].handle} |-> objects[h]]
    /\ UNCHANGED <<memVars, allocated, held, reg>>

Next == \E t \in Thread :
            \/ MemAlloc(t) \/ NewObject(t) \/ SetAddress(t) \/ AddAlloc(t)
            \/ FromHandle(t) \/ DelAlloc(t) \/ MemFree(t) \/ Delete(t)

Spec == Init /\ [][Next]_bufVars

--------------------------------------------------------------------------------
\* What alloc_stat knows is an object with a run of its own, at the physical
\* address it says.
KnownIsUsable ==
    \A h \in allocated :
        /\ h \in DOMAIN objects
        /\ \E a \in live : a.run = objects[h].run
        /\ objects[h].phy = GetPhyAddr(objects[h].run, 0)
        /\ \A g \in allocated : g # h => objects[g].run # objects[h].run

\* Objects and runs do not leak: with no call under way, what exists is what
\* the threads hold.
NoLeak ==
    (\A t \in Thread : pc[t] = "idle") =>
        /\ DOMAIN objects = UNION {held[t] : t \in Thread} /\ allocated = DOMAIN objects
        /\ {a.run : a \in live} = {objects[h].run : h \in DOMAIN objects}
================================================================================
