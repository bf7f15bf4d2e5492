-------------------------------- MODULE OclDevice -------------------------------
(***************************************************************************)
(* The OpenCL device library (src/oclfpga): OCLFPGADevice opens a device,  *)
(* sets it up with a bitstream and one buffer for all of VTA's memory,     *)
(* gives out ranges of that buffer and runs instruction streams in it.     *)
(* The driver of oclfpga_driver.cc adds a constant to the offsets.  None   *)
(* of it is locked: one thread calls it.                                   *)
(*                                                                         *)
(* free() joins neighbouring chunks in a loop, here one action per turn.   *)
(* live and its tags are the model's own: the ranges the callers hold and  *)
(* what they last put there.  A size of 0 would give a chunk that shares   *)
(* its offset with the next: Sizes leaves it out.                          *)
(***************************************************************************)
EXTENDS Integers, Sequences, FiniteSets

CONSTANTS
    MemSize,     \* mem_size of setup
    Alignment,   \* _alignment
    Sizes,       \* bound: the sizes asked for
    Tag,         \* what a range may hold
    MaxSetups    \* bound: calls of setup

ASSUME OclAssumption ==
    /\ MemSize \in Nat \ {0} /\ Alignment \in Nat \ {0}
    /\ Sizes \subseteq Nat \ {0} /\ MaxSetups \in Nat

Kind == {"context", "program", "kernel", "queue", "mem"}

VARIABLES
    phase,      \* "closed", "open", "aborted" (a CHECK failed) or "exited"
    handle,     \* per kind, the object the device holds, 0 for NULL
    objects,    \* the OpenCL objects that exist: <<kind, number>>
    setups,     \* calls of setup
    chunks,     \* _mem_chunks: [offset, size, occupied]
    iter,       \* free()'s iterator while it joins chunks, else 0
    live,       \* [offset, size, tag] handed out
    content     \* what is at each offset of _mem

vars == <<phase, handle, objects, setups, chunks, iter, live, content>>
memory == <<chunks, iter, live, content>>

Init ==
    /\ phase = "closed"
    /\ handle = [k \in Kind |-> 0] /\ objects = {} /\ setups = 0
    /\ chunks = <<>> /\ iter = 0 /\ live = {}
    /\ content = [p \in 0..MemSize - 1 |-> "none"]

\* init: the first device of the first supported platform that gives a
\* context.  A CHECK fails before there is one, or after it: then the exception
\* leaves the constructor, no destructor runs and the context stays.
Open ==
    /\ phase = "closed"
    /\ \/ /\ phase' \in {"open", "aborted"}
          /\ handle' = [handle EXCEPT !["context"] = 1]
          /\ objects' = {<<"context", 1>>}
       \/ phase' = "aborted" /\ UNCHANGED <<handle, objects>>
    /\ UNCHANGED <<setups, memory>>

\* setup: program, kernel, queue and buffer, one after the other; where one
\* cannot be made a CHECK ends it.  The chunk comes after the buffer.
Order == <<"program", "kernel", "queue", "mem">>
Setup(made) ==
    /\ phase = "open" /\ iter = 0 /\ setups < MaxSetups
    /\ setups' = setups + 1
    /\ LET new == {Order[i] : i \in 1..made} IN
          /\ handle' = [k \in Kind |-> IF k \in new THEN setups'
                                      ELSE IF made < 4 /\ k = Order[made + 1] THEN 0 ELSE handle[k]]
          /\ objects' = objects \cup {<<k, setups'>> : k \in new}
    /\ IF made = 4 THEN chunks' = Append(chunks, [offset |-> 0, size |-> MemSize, occupied |-> FALSE])
       ELSE UNCHANGED chunks
    /\ UNCHANGED <<phase, iter, live, content>>

\* alloc: the first free chunk that is large enough.
AlignedDown(size) == (size \div Alignment) * Alignment              \* mutant of Aligned
Aligned(size) == ((size + Alignment - 1) \div Alignment) * Alignment
FirstFit(i, n) ==
    /\ i \in DOMAIN chunks /\ ~chunks[i].occupied /\ chunks[i].size >= n
    /\ \A j \in 1..i - 1 : chunks[j].occupied \/ chunks[j].size < n
Taken(i, n) == [chunks[i] EXCEPT !.size = n, !.occupied = TRUE]
Rest(i, n) == [offset |-> chunks[i].offset + n, size |-> chunks[i].size - n, occupied |-> FALSE]
\* mutant of Split: the rest takes the place in front.
SplitBefore(i, n) ==
    [k \in 1..Len(chunks) + 1 |-> IF k < i THEN chunks[k] ELSE IF k = i THEN Rest(i, n)
                                  ELSE IF k = i + 1 THEN Taken(i, n) ELSE chunks[k - 1]]
Split(i, n) ==
    [k \in 1..Len(chunks) + 1 |-> IF k < i THEN chunks[k] ELSE IF k = i THEN Taken(i, n)
                                  ELSE IF k = i + 1 THEN Rest(i, n) ELSE chunks[k - 1]]
Alloc(i, size) ==
    /\ phase = "open" /\ iter = 0
    /\ FirstFit(i, Aligned(size))
    /\ chunks' = IF chunks[i].size = Aligned(size) THEN [chunks EXCEPT ![i].occupied = TRUE]
                 ELSE Split(i, Aligned(size))
    /\ live' = live \cup {[offset |-> chunks[i].offset, size |-> size, tag |-> "none"]}
    /\ content' = [p \in DOMAIN content |->
                     IF p \in chunks[i].offset..chunks[i].offset + size - 1 THEN "none" ELSE content[p]]
    /\ UNCHANGED <<phase, handle, objects, setups, iter>>

\* free of what a caller holds: mark the chunk, go back to a free one before it.
FreeStart(i) == IF i > 1 /\ ~chunks[i - 1].occupied THEN i - 1 ELSE i
Free(b) ==
    /\ phase = "open" /\ iter = 0 /\ b \in live
    /\ live' = live \ {b}
    /\ \E i \in DOMAIN chunks :
          /\ chunks[i].offset >= b.offset /\ \A j \in 1..i - 1 : chunks[j].offset < b.offset
          /\ IF chunks[i].offset = b.offset /\ chunks[i].occupied THEN
                chunks' = [chunks EXCEPT ![i].occupied = FALSE] /\ iter' = FreeStart(i)
             ELSE UNCHANGED <<chunks, iter>>
    /\ UNCHANGED <<phase, handle, objects, setups, content>>

\* mutant of Joins: the chunk after is not looked at.
JoinsUsed == iter < Len(chunks)
Joins == iter < Len(chunks) /\ ~chunks[iter + 1].occupied
Join ==
    /\ iter > 0
    /\ IF Joins THEN
          /\ chunks' = [k \in 1..Len(chunks) - 1 |->
                          IF k < iter THEN chunks[k]
                          ELSE IF k = iter THEN [chunks[k] EXCEPT !.size = @ + chunks[k + 1].size]
                          ELSE chunks[k + 1]]
          /\ UNCHANGED iter
       ELSE iter' = 0 /\ UNCHANGED chunks
    /\ UNCHANGED <<phase, handle, objects, setups, live, content>>

\* writeMem, and executeInstructions, whose kernel writes the range of a
\* buffer: both return when it is done.  readMem reads what content says.
Write(b, t) ==
    /\ phase = "open" /\ iter = 0 /\ b \in live
    /\ live' = (live \ {b}) \cup {[b EXCEPT !.tag = t]}
    /\ content' = [p \in DOMAIN content |-> IF p \in b.offset..b.offset + b.size - 1 THEN t ELSE content[p]]
    /\ UNCHANGED <<phase, handle, objects, setups, chunks, iter>>

\* deinit, by the destructor of the static device, releases what the handles
\* name.  The process forgets its buffers.
ReleasedIfSetUp ==                                            \* mutant of Released
    IF handle["mem"] = 0 THEN {} ELSE {<<k, handle[k]>> : k \in Kind}
Released == {<<k, handle[k]>> : k \in Kind}
Deinit ==
    /\ phase = "open" /\ iter = 0
    /\ objects' = objects \ Released
    /\ handle' = [k \in Kind |-> 0]
    /\ phase' = "exited" /\ live' = {}
    /\ UNCHANGED <<setups, chunks, iter, content>>

Next ==
    \/ Open \/ Join \/ Deinit
    \/ \E made \in 0..4 : Setup(made)
    \/ \E i \in DOMAIN chunks, size \in Sizes : Alloc(i, size)
    \/ \E b \in live : Free(b) \/ \E t \in Tag : Write(b, t)

Spec == Init /\ [][Next]_vars

--------------------------------------------------------------------------------
End(c) == c.offset + c.size

\* The chunks lie one after the other and fill the memory, through every split
\* and every turn of the joining loop.
Tiled ==
    chunks # <<>> =>
        /\ chunks[1].offset = 0 /\ End(chunks[Len(chunks)]) = MemSize
        /\ \A i \in 1..Len(chunks) - 1 : chunks[i + 1].offset = End(chunks[i])

\* No two free chunks stay side by side: what was joined once can be given out
\* whole again.
Coalesced ==
    iter = 0 => \A i \in 1..Len(chunks) - 1 : chunks[i].occupied \/ chunks[i + 1].occupied
ChunksTile == Tiled /\ Coalesced

\* What is handed out is an occupied chunk of its own, at an aligned offset,
\* and every occupied chunk is in somebody's hands.
Held ==
    /\ \A b \in live : /\ b.offset % Alignment = 0
                       /\ \E i \in DOMAIN chunks : /\ chunks[i].offset = b.offset /\ chunks[i].occupied
                                                   /\ chunks[i].size = Aligned(b.size)
    /\ \A b, c \in live : b.offset = c.offset => b = c
    /\ phase = "open" => \A i \in DOMAIN chunks :
          chunks[i].occupied => \E b \in live : b.offset = chunks[i].offset

\* A range keeps what was put there until its holder puts something else there.
ContentKept ==
    \A b \in live : \A p \in b.offset..b.offset + b.size - 1 : content[p] = b.tag

\* Every OpenCL object is released at exit, wherever setup had failed.  A device
\* whose constructor threw has no exit.
AllReleased == phase = "exited" => objects = {}
================================================================================
