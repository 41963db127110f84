-------------------------------- MODULE Heap --------------------------------
(***************************************************************************)
(* lwIP's heap (core/mem.c): one array in which blocks, each headed by a   *)
(* struct mem, follow one another from the start to ram_end, linked in     *)
(* both directions.  A semaphore, mem_sem, makes each operation a single   *)
(* step.  Segments to be sent come from here (pbuf_alloc with PBUF_RAM),   *)
(* asked for by the TCP/IP thread and by the serial-to-TCP tasks.          *)
(***************************************************************************)
EXTENDS Integers, FiniteSets

CONSTANTS MEM_SIZE,           \* MEM_SIZE_ALIGNED, the length of the array
          SIZEOF_STRUCT_MEM,  \* the length of a block's head, aligned
          MIN_SIZE,           \* MIN_SIZE_ALIGNED, the least data of a block
          MEM_ALIGNMENT,
          Sizes               \* the sizes callers ask for

ASSUME HeapAssumption ==
    /\ MEM_SIZE \in Nat /\ SIZEOF_STRUCT_MEM \in Nat /\ MIN_SIZE \in Nat
    /\ MEM_ALIGNMENT \in Nat \ {0}
    /\ SIZEOF_STRUCT_MEM > 0 /\ MIN_SIZE > 0
    /\ SIZEOF_STRUCT_MEM + MIN_SIZE <= MEM_SIZE
    /\ Sizes \subseteq Nat

VARIABLES mem,     \* [block -> its struct mem]; a block is named by its offset in ram
          lfree,   \* the lowest free block, or ram_end
          owed     \* [block a caller holds -> the size last asked for]

vars == <<mem, lfree, owed>>

ram_end == MEM_SIZE

Blocks == DOMAIN mem

\* LWIP_MEM_ALIGN_SIZE, and the least size of a block
Aligned(size) == ((size + MEM_ALIGNMENT - 1) \div MEM_ALIGNMENT) * MEM_ALIGNMENT
BlockSize(size) == IF Aligned(size) < MIN_SIZE THEN MIN_SIZE ELSE Aligned(size)

\* The bytes of data block b of heap m has room for
Room(m, b) == m[b].next - (b + SIZEOF_STRUCT_MEM)

mem_init ==
    /\ mem = [b \in {0, ram_end} |->
                IF b = 0 THEN [next |-> MEM_SIZE, prev |-> 0, used |-> FALSE]
                         ELSE [next |-> MEM_SIZE, prev |-> MEM_SIZE, used |-> TRUE]]
    /\ lfree = 0
    /\ owed = [b \in {} |-> 0]

-----------------------------------------------------------------------------
(* Editing the list of blocks.  Each operator gives the new heap.          *)

\* Block a swallows its successor b.
Absorb(m, a, b) ==
    [c \in DOMAIN m \ {b} |->
        [next |-> IF c = a THEN m[b].next ELSE m[c].next,
         prev |-> IF c = m[b].next THEN a ELSE m[c].prev,
         used |-> m[c].used]]

\* Slip: mem_realloc forgets the block behind the one it has moved.
InsertNoBackLink(m, a, p, next) ==
    [c \in {d \in DOMAIN m : d <= a \/ next <= d} \cup {p} |->
        IF c = p THEN [next |-> next, prev |-> a, used |-> FALSE]
                 ELSE [m[c] EXCEPT !.next = IF c = a THEN p ELSE @]]

\* A free block at p takes the place of all there was between a and next.
Insert(m, a, p, next) ==
    [c \in {d \in DOMAIN m : d <= a \/ next <= d} \cup {p} |->
        IF c = p THEN [next |-> next, prev |-> a, used |-> FALSE]
        ELSE [next |-> IF c = a THEN p ELSE m[c].next,
              prev |-> IF c = next /\ next # MEM_SIZE THEN p ELSE m[c].prev,
              used |-> m[c].used]]

Use(m, b) == [m EXCEPT ![b].used = TRUE]
Release(m, b) == [m EXCEPT ![b].used = FALSE]

-----------------------------------------------------------------------------
(* plug_holes: the block b that has just become free is joined with a free *)
(* neighbour on either side.  The results are heap and lfree.              *)

HoleAhead(m, b) == m[b].next # b /\ m[b].next # ram_end /\ ~m[m[b].next].used
HoleBehind(m, b) == m[b].prev # b /\ ~m[m[b].prev].used

PlugForward(m, low, b) ==
    IF HoleAhead(m, b)
    THEN [mem |-> Absorb(m, b, m[b].next), lfree |-> IF low = m[b].next THEN b ELSE low]
    ELSE [mem |-> m, lfree |-> low]

PlugBackward(m, low, b) ==
    IF HoleBehind(m, b)
    THEN [mem |-> Absorb(m, m[b].prev, b), lfree |-> IF low = b THEN m[b].prev ELSE low]
    ELSE [mem |-> m, lfree |-> low]

\* Slip: holes are joined with the one ahead only.
PlugForwardOnly(m, low, b) == PlugForward(m, low, b)

plug_holes(m, low, b) ==
    LET ahead == PlugForward(m, low, b)
    IN  PlugBackward(ahead.mem, ahead.lfree, b)

-----------------------------------------------------------------------------
(* The operations                                                          *)

\* Slip: the search stops one header too early.
CandidatesShort(size) ==
    {b \in Blocks : /\ lfree <= b /\ b + SIZEOF_STRUCT_MEM < MEM_SIZE - size
                    /\ ~mem[b].used
                    /\ Room(mem, b) >= size}

\* The loop of mem_malloc looks at the blocks from lfree on.
Candidates(size) ==
    {b \in Blocks : /\ lfree <= b /\ b < MEM_SIZE - size
                    /\ ~mem[b].used
                    /\ Room(mem, b) >= size}

\* The loop that moves lfree up after the lowest free block was taken
IsLowestFree(m, low, from) ==
    /\ low \in DOMAIN m /\ from <= low
    /\ low = ram_end \/ ~m[low].used
    /\ \A c \in DOMAIN m : from <= c /\ c < low => m[c].used

\* Slip: the split does not count the head of the block taken.
TakenNoHead(b, size) ==
    IF Room(mem, b) >= size + SIZEOF_STRUCT_MEM + MIN_SIZE
    THEN Use(Insert(mem, b, b + size, mem[b].next), b)
    ELSE Use(mem, b)

\* Block b is taken, split if what remains can be a block of its own.
Taken(b, size) ==
    IF Room(mem, b) >= size + SIZEOF_STRUCT_MEM + MIN_SIZE
    THEN Use(Insert(mem, b, b + SIZEOF_STRUCT_MEM + size, mem[b].next), b)
    ELSE Use(mem, b)

mem_malloc(asked) ==
    /\ asked # 0 /\ BlockSize(asked) <= MEM_SIZE
    /\ \E b \in Candidates(BlockSize(asked)) :
        /\ \A c \in Candidates(BlockSize(asked)) : b <= c
        /\ mem' = Taken(b, BlockSize(asked))
        /\ owed' = [c \in DOMAIN owed \cup {b} |-> IF c = b THEN asked ELSE owed[c]]
        /\ IF b = lfree THEN \E low \in Blocks' : IsLowestFree(mem', low, lfree) /\ lfree' = low
                        ELSE lfree' = lfree

mem_free(b) ==
    /\ b \in DOMAIN owed
    /\ LET plugged == plug_holes(Release(mem, b), IF b < lfree THEN b ELSE lfree, b)
       IN  mem' = plugged.mem /\ lfree' = plugged.lfree
    /\ owed' = [c \in DOMAIN owed \ {b} |-> owed[c]]

\* The block behind b is free: it grows downwards to where b now ends.
ShrinkIntoHole(b, newsize) ==
    LET p == b + SIZEOF_STRUCT_MEM + newsize
        hole == mem[b].next
    IN  /\ ~mem[hole].used
        /\ mem' = Insert(mem, b, p, mem[hole].next)
        /\ lfree' = IF lfree = hole THEN p ELSE lfree

\* The block behind b is in use: what is cut off becomes a block if it can.
ShrinkAndSplit(b, newsize) ==
    LET p == b + SIZEOF_STRUCT_MEM + newsize
    IN  /\ mem[mem[b].next].used
        /\ IF newsize + SIZEOF_STRUCT_MEM + MIN_SIZE <= Room(mem, b)
           THEN /\ mem' = Insert(mem, b, p, mem[b].next)
                /\ lfree' = IF p < lfree THEN p ELSE lfree
           ELSE UNCHANGED <<mem, lfree>>

\* Slip: a block that is to grow is not refused.
mem_reallocGrows(b, asked) ==
    /\ b \in DOMAIN owed
    /\ IF BlockSize(asked) = Room(mem, b)
       THEN UNCHANGED <<mem, lfree>>
       ELSE ShrinkIntoHole(b, BlockSize(asked)) \/ ShrinkAndSplit(b, BlockSize(asked))
    /\ owed' = [owed EXCEPT ![b] = asked]

\* pbuf_realloc asks for no more than the block has; for the same size
\* nothing is done.
mem_realloc(b, asked) ==
    /\ b \in DOMAIN owed
    /\ BlockSize(asked) <= Room(mem, b)
    /\ IF BlockSize(asked) = Room(mem, b)
       THEN UNCHANGED <<mem, lfree>>
       ELSE ShrinkIntoHole(b, BlockSize(asked)) \/ ShrinkAndSplit(b, BlockSize(asked))
    /\ owed' = [owed EXCEPT ![b] = asked]

Malloc == \E asked \in Sizes : mem_malloc(asked)
Free == \E b \in Blocks : mem_free(b)
Realloc == \E b \in Blocks, asked \in Sizes : mem_realloc(b, asked)

Init == mem_init
Next == Malloc \/ Free \/ Realloc
Spec == Init /\ [][Next]_vars

-----------------------------------------------------------------------------
(* Properties                                                              *)

Header == [next : 0..MEM_SIZE, prev : 0..MEM_SIZE, used : BOOLEAN]

TypeOK ==
    /\ Blocks \subseteq 0..MEM_SIZE
    /\ mem \in [Blocks -> Header]
    /\ lfree \in Blocks
    /\ DOMAIN owed \subseteq Blocks /\ owed \in [DOMAIN owed -> Sizes]

\* Blocks follow one another without gap or overlap from the start of the
\* array to ram_end, and the links backward are the reverse of the links
\* forward (those of ram_end are never read).
Linked(m) ==
    /\ {0, ram_end} \subseteq DOMAIN m
    /\ m[0].prev = 0 /\ m[ram_end].next = ram_end /\ m[ram_end].used
    /\ \A b \in DOMAIN m \ {ram_end} :
        /\ m[b].next \in DOMAIN m
        /\ Room(m, b) >= MIN_SIZE
        /\ m[b].next # ram_end => m[m[b].next].prev = b
        /\ \A c \in DOMAIN m : c <= b \/ m[b].next <= c
    /\ \A b \in DOMAIN m \ {0, ram_end} :
        m[b].prev \in DOMAIN m \ {ram_end} /\ m[m[b].prev].next = b

\* The list of struct mem is sound: mem_malloc, plug_holes and mem_realloc
\* all relink it, and each repairs the neighbour's links in its own way.
HeapIsLinked == Linked(mem)

\* No two free blocks are neighbours ("plug_holes should have take care of
\* this", mem.c:567): mem_realloc joins nothing itself and relies on it.
NoHolesInARow(m) == \A b \in DOMAIN m \ {ram_end} : m[b].used \/ m[m[b].next].used
NoTwoHoles == NoHolesInARow(mem)

\* lfree is the lowest free block: no block below it is free, so a search
\* that begins there misses none.
Lowest(m, low) ==
    /\ low \in DOMAIN m
    /\ low = ram_end \/ ~m[low].used
    /\ \A c \in DOMAIN m : c < low => m[c].used
LowestFree == Lowest(mem, lfree)

\* What callers hold are exactly the blocks in use, each with room for what
\* was asked: nothing leaks and nobody's block is given away or cut short.
LentBlocksAreKept ==
    /\ DOMAIN owed = {b \in Blocks \ {ram_end} : mem[b].used}
    /\ \A b \in DOMAIN owed : owed[b] <= Room(mem, b)

\* A request is refused only if no stretch of memory between the blocks in
\* use could hold it and its head.
RefusedOnlyWhenNothingFits ==
    \A asked \in Sizes \ {0} : BlockSize(asked) <= MEM_SIZE =>
        \/ Candidates(BlockSize(asked)) # {}
        \/ \A a, b \in 0..MEM_SIZE :
              b - a >= SIZEOF_STRUCT_MEM + BlockSize(asked) =>
                 \E c \in DOMAIN owed : a < mem[c].next /\ c < b

\* The heap implements Allocator: a block in use is a piece held.
Abstract == INSTANCE Allocator
    WITH Size <- MEM_SIZE, Header <- SIZEOF_STRUCT_MEM, Requests <- Sizes,
         held <- [b \in DOMAIN owed |-> mem[b].next]
Allocates == Abstract!Spec

IInv == TypeOK /\ HeapIsLinked /\ NoTwoHoles /\ LowestFree /\ LentBlocksAreKept
=============================================================================
