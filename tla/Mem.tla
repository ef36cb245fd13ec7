-------------------------------- MODULE Mem --------------------------------
(***************************************************************************)
(* The heap of lwIP (core/mem.c): one array of bytes, cut into blocks by   *)
(* headers that hold the offsets of the next and the previous header and a *)
(* used mark, a first-fit search that starts at the lowest free block, and *)
(* the merging of neighbouring free blocks.                                *)
(*                                                                         *)
(* The offset of a header stands for the pointer to it.  Only the headers  *)
(* that are linked are kept: what is left in the array of one that was     *)
(* merged away is the user's data.  Every call holds mem_mutex from its    *)
(* first access to a shared header to its last, so a call is one step.     *)
(***************************************************************************)
EXTENDS Integers, FiniteSets

CONSTANTS MemSize,      \* MEM_SIZE_ALIGNED
          HeaderSize,   \* SIZEOF_STRUCT_MEM
          MinSize,      \* MIN_SIZE_ALIGNED
          Alignment,    \* MEM_ALIGNMENT
          Sizes         \* sizes the callers ask for

\* The sizes mem.c aligns at compile time are multiples of the alignment,
\* and one smallest block fits.
MemAssumption ==
  /\ {MemSize, HeaderSize, MinSize, Alignment} \subseteq Nat \ {0}
  /\ \A n \in {MemSize, HeaderSize, MinSize} : n % Alignment = 0
  /\ HeaderSize + MinSize <= MemSize
  /\ Sizes \subseteq Nat

VARIABLES ram,      \* the linked headers: offset -> [next, prev, used]
          lfree,    \* offset of the lowest free block, or of ram_end
          held,     \* what the callers own: offset -> size they may use
          refused   \* history: the size the last call, a mem_malloc, returned NULL for,
                    \* or 0

memVars == <<ram, lfree, held, refused>>

ram_end == MemSize

\* mem_init: one free block and the sentinel, which counts as used
Init ==
  /\ ram = [o \in {0, ram_end} |->
              IF o = 0 THEN [next |-> ram_end, prev |-> 0, used |-> FALSE]
                       ELSE [next |-> ram_end, prev |-> ram_end, used |-> TRUE]]
  /\ lfree = 0
  /\ held = [o \in {} |-> 0]
  /\ refused = 0

\* LWIP_MEM_ALIGN_SIZE, and every data block is at least MIN_SIZE_ALIGNED
Aligned(size) ==
  LET n == ((size + Alignment - 1) \div Alignment) * Alignment
  IN  IF n < MinSize THEN MinSize ELSE n

Room(r, o) == r[o].next - (o + HeaderSize)

\* The header at o is written over: it is no longer linked
Dropped(r, o) == [x \in DOMAIN r \ {o} |-> r[x]]

\* A free header at o2 between o and its next; the sentinel is not linked
\* back to the new header
Split(r, o, o2) ==
  LET next == r[o].next
  IN  [x \in DOMAIN r \cup {o2} |->
         CASE x = o2 -> [next |-> next, prev |-> o, used |-> FALSE]
           [] x = o -> [r[o] EXCEPT !.next = o2]
           [] x = next /\ x # o2 /\ next # ram_end -> [r[x] EXCEPT !.prev = o2]
           [] OTHER -> r[x]]

\* a and b are neighbours and b is merged into a
Joined(r, a, b) ==
  LET next == r[b].next
  IN  Dropped([r EXCEPT ![a].next = next, ![next].prev = a], b)

\* plug_holes joins the block with a free one after it and a free one before
\* it, and lfree follows; <<headers, lfree>>
plug_holes(r, f, o) ==
  LET nmem == r[o].next
      ahead == nmem # o /\ ~r[nmem].used /\ nmem # ram_end
      r1 == IF ahead THEN Joined(r, o, nmem) ELSE r
      f1 == IF ahead /\ f = nmem THEN o ELSE f
      pmem == r1[o].prev
      behind == pmem # o /\ ~r1[pmem].used
  IN  IF behind
      THEN <<Joined(r1, pmem, o), IF f1 = o THEN pmem ELSE f1>>
      ELSE <<r1, f1>>

\* The blocks the search passes: the first free one from lfree on with enough
\* room, as long as the offset is below MEM_SIZE_ALIGNED - size
Fits(size) ==
  {o \in DOMAIN ram : /\ lfree <= o
                      /\ o < MemSize - size
                      /\ ~ram[o].used
                      /\ Room(ram, o) >= size}

\* The lowest free block at or after o, or ram_end
NextFree(r, o) ==
  CHOOSE x \in DOMAIN r :
    /\ x >= o
    /\ x = ram_end \/ ~r[x].used
    /\ \A y \in DOMAIN r : o <= y /\ y < x => r[y].used

\* mem_malloc: the block is split when a smallest block fits behind it
mem_malloc(asked) ==
  LET size == Aligned(asked)
  IN  \/ /\ asked = 0 \/ size > MemSize \/ Fits(size) = {}
         /\ refused' = asked
         /\ UNCHANGED <<ram, lfree, held>>
      \/ /\ asked # 0
         /\ size <= MemSize
         /\ Fits(size) # {}
         /\ LET o == CHOOSE x \in Fits(size) : \A y \in Fits(size) : x <= y
                cut == IF Room(ram, o) >= size + HeaderSize + MinSize
                       THEN Split(ram, o, o + HeaderSize + size)
                       ELSE ram
                taken == [cut EXCEPT ![o].used = TRUE]
            IN  /\ ram' = taken
                /\ lfree' = IF o = lfree THEN NextFree(taken, o) ELSE lfree
                /\ held' = [x \in DOMAIN held \cup {o} |->
                              IF x = o THEN asked ELSE held[x]]
         /\ refused' = 0

\* mem_free of a pointer the caller got from mem_malloc
mem_free(o) ==
  LET done == plug_holes([ram EXCEPT ![o].used = FALSE],
                         IF o < lfree THEN o ELSE lfree, o)
  IN  /\ ram' = done[1]
      /\ lfree' = done[2]
      /\ held' = [x \in DOMAIN held \ {o} |-> held[x]]
      /\ refused' = 0

\* mem_trim shrinks a block: a free block behind it moves up, or a new one is
\* made where a smallest block fits, or the rest stays unused
mem_trim(o, asked) ==
  LET newsize == Aligned(asked)
      next == ram[o].next
      at == o + HeaderSize + newsize
      without == Dropped([ram EXCEPT ![o].next = ram[next].next], next)
  IN  /\ newsize < Room(ram, o)
      /\ \/ /\ ~ram[next].used
            /\ ram' = Split(without, o, at)
            /\ lfree' = IF lfree = next THEN at ELSE lfree
         \/ /\ ram[next].used
            /\ newsize + HeaderSize + MinSize <= Room(ram, o)
            /\ ram' = Split(ram, o, at)
            /\ lfree' = IF at < lfree THEN at ELSE lfree
         \/ /\ ram[next].used
            /\ newsize + HeaderSize + MinSize > Room(ram, o)
            /\ UNCHANGED <<ram, lfree>>
      /\ held' = [held EXCEPT ![o] = asked]
      /\ refused' = 0

Next ==
  \/ \E size \in Sizes : mem_malloc(size)
  \/ \E o \in DOMAIN held : mem_free(o) \/ \E size \in Sizes : mem_trim(o, size)

Spec == Init /\ [][Next]_memVars

----------------------------------------------------------------------------

\* The headers are one doubly linked chain from the start of the array to its
\* end, each block long enough for its header and its smallest content
Chained ==
  \A o \in DOMAIN ram \ {ram_end} :
    /\ ram[o].next \in DOMAIN ram
    /\ ram[o].next >= o + HeaderSize + MinSize
    /\ ~ \E x \in DOMAIN ram : o < x /\ x < ram[o].next
    /\ ram[o].next # ram_end => ram[ram[o].next].prev = o

\* The heap stays whole over any sequence of allocations, trims and frees in
\* any order (mem_malloc, mem_free, mem_trim, plug_holes): the headers form
\* one chain, a block is used exactly when a caller owns it and is as long
\* as what the caller asked for, two free blocks are never neighbours, lfree
\* is the lowest free block, and mem_malloc returns NULL only if no free
\* block would have been large enough.
MemSound ==
  /\ Chained
  /\ {o \in DOMAIN ram : ram[o].used} = DOMAIN held \cup {ram_end}
  /\ \A o \in DOMAIN held : held[o] <= Room(ram, o)
  /\ \A o \in DOMAIN ram \ {ram_end} : ~ram[o].used => ram[ram[o].next].used
  /\ lfree = NextFree(ram, 0)
  /\ refused # 0 =>
       \A o \in DOMAIN ram \ {ram_end} :
         ~ram[o].used => Room(ram, o) < Aligned(refused)
============================================================================
