------------------------------- MODULE MemPool -------------------------------
(***************************************************************************)
(* The memory pool of demo/memory_pool: mem_pool_palloc.c on the allocator *)
(* of mem_alloc.c.                                                         *)
(*                                                                         *)
(* A pool is a chain of blocks of one size.  Small requests are cut from   *)
(* the blocks in turn and come back only when the pool is reset or         *)
(* destroyed; large ones are heap objects hung on a list whose nodes are   *)
(* themselves small allocations.  The pool has one user thread, so an      *)
(* action is a whole call of the interface.  Addresses inside a block are  *)
(* offsets from its start; malloc returns starts that are multiples of     *)
(* Align, so rounding an offset is rounding the address.                   *)
(***************************************************************************)
EXTENDS Integers, Sequences, FiniteSets

CONSTANTS
    PoolSize,       \* the size given to ngx_create_pool, size of every block
    PageSize,       \* ngx_pagesize
    PoolHeader,     \* sizeof(ngx_pool_t)
    DataHeader,     \* sizeof(ngx_pool_data_t)
    NodeSize,       \* sizeof(ngx_pool_large_t)
    Align,          \* NGX_ALIGNMENT
    SizeModulus,    \* 2^w for the w bits of size_t
    Size,           \* the sizes callers ask for
    Object,         \* heap objects malloc can return for large requests
    NoObject,       \* a null pointer
    MaxBlocks       \* bound: malloc fails for one block more than these

ASSUME SizesAssumption ==
    /\ {PoolSize, PageSize, PoolHeader, DataHeader} \subseteq Nat
    /\ {NodeSize, Align} \subseteq Nat \ {0}
    /\ SizeModulus \in Nat
    /\ Size \subseteq Nat
    /\ MaxBlocks \in Nat
    /\ DataHeader <= PoolHeader
    /\ PoolHeader + NodeSize <= PoolSize
    /\ PoolSize + Align < SizeModulus
    /\ DataHeader % Align = 0 /\ PoolHeader % Align = 0
ASSUME ObjectsAssumption == NoObject \notin Object

VARIABLES
    blocks,     \* the chain: last and failed of each block, the first is pool
    current,    \* pool->current, as an index of the chain; 0 without a pool
    large,      \* pool->large from the head: where the node is, what it holds
    heap,       \* state of each heap object
    small,      \* ghost: the small allocations handed out since the last reset
    tries,      \* ghost: nodes the last ngx_palloc_large looked at
    longest     \* ghost: blocks the pool had at the last reset

vars == <<blocks, current, large, heap, small, tries, longest>>

NoPool == blocks = <<>>

\* The least of S, where a search from the front stops.
First(S) == {i \in S : \A j \in S : i <= j}

\* ngx_align_ptr: round up to a multiple of Align.
AlignUp(x) == ((x + Align - 1) \div Align) * Align

\* p->max, the largest request that goes to the blocks.
MaxSmall == IF PoolSize - PoolHeader < PageSize - 1
            THEN PoolSize - PoolHeader ELSE PageSize - 1

-----------------------------------------------------------------------------
(* ngx_palloc_small and ngx_palloc_block.                                  *)

\* m, where the request would start in block i.
Place(i, aligned) ==
    IF aligned THEN AlignUp(blocks[i].last) ELSE blocks[i].last

-----------------------------------------------------------------------------
(* Slips a programmer could make.  No behaviour of Spec takes one: each     *)
(* stands for a definition below in a variant of this module in which the   *)
(* property named with it must fail.                                        *)

\* The room is measured before the alignment (Separate).
FitsUnrounded(i, size, aligned) == (PoolSize - blocks[i].last) % SizeModulus >= size

\* The loop starts behind current (LongSearchIsShort).
CountedBehind ==
    [i \in 1..Len(blocks) |->
        IF i \in (current + 1)..(Len(blocks) - 1)
        THEN [blocks[i] EXCEPT !.failed = @ + 1] ELSE blocks[i]]

\* One failure more (LongSearchIsShort).
TiredLater == {i \in current..(Len(blocks) - 1) : blocks[i].failed > 5}

\* last moves by size from where it was, not from the aligned place (Separate).
InBlockUnrounded(i, size, aligned) ==
    [block |-> i, from |-> Place(i, aligned),
     blocks |-> [blocks EXCEPT ![i].last = @ + size],
     current |-> current]

\* pfree leaves the pointer in the node (LargeOwned).
PfreeKeeps(o) ==
    /\ ~NoPool
    /\ \E i \in 1..Len(large) : large[i].alloc = o
    /\ heap' = [heap EXCEPT ![o] = IF @ = "live" THEN "free" ELSE "corrupt"]
    /\ UNCHANGED <<blocks, current, large, small, tries, longest>>

\* reset empties the nodes but leaves them on the list (LargeOwned).
ResetKeepsNodes ==
    /\ ~NoPool
    /\ heap' = [o \in Object |-> "free"]
    /\ blocks' = [i \in 1..Len(blocks) |-> [last |-> PoolHeader, failed |-> 0]]
    /\ current' = 1
    /\ large' = [i \in 1..Len(large) |-> [large[i] EXCEPT !.alloc = NoObject]]
    /\ small' = {}
    /\ longest' = Len(blocks)
    /\ UNCHANGED tries

\* destroy keeps the list of nodes it has freed with the blocks (Separate).
DestroyKeepsList ==
    /\ ~NoPool
    /\ heap' = [o \in Object |-> "free"]
    /\ blocks' = <<>>
    /\ current' = 0
    /\ small' = {}
    /\ longest' = 0
    /\ UNCHANGED <<large, tries>>

-----------------------------------------------------------------------------
(* The search for room.                                                    *)

\* (size_t) (p->d.end - m) >= size: the difference is taken modulo 2^w.
Fits(i, size, aligned) == (PoolSize - Place(i, aligned)) % SizeModulus >= size

Candidates(size, aligned) ==
    {i \in current..Len(blocks) : Fits(i, size, aligned)}

\* Every block from current to the last but one has failed once more, and
\* current moves behind the last one that had failed more than four times: it is
\* the only member of NextCurrents.
Counted ==
    [i \in 1..Len(blocks) |->
        IF i \in current..(Len(blocks) - 1)
        THEN [blocks[i] EXCEPT !.failed = @ + 1] ELSE blocks[i]]

Tired == {i \in current..(Len(blocks) - 1) : blocks[i].failed > 4}

NextCurrents ==
    {c \in current..Len(blocks) :
        /\ c = current \/ c - 1 \in Tired
        /\ \A i \in Tired : i < c}

\* What ngx_palloc_small does: the block and place of the allocation (block 0
\* is a null pointer), and the chain and current block after it.
InBlock(i, size, aligned) ==
    [block |-> i, from |-> Place(i, aligned),
     blocks |-> [blocks EXCEPT ![i].last = Place(i, aligned) + size],
     current |-> current]

InNewBlock(size, next) ==
    [block |-> Len(blocks) + 1, from |-> AlignUp(DataHeader),
     blocks |-> Append(Counted, [last |-> AlignUp(DataHeader) + size, failed |-> 0]),
     current |-> next]

Nothing == [block |-> 0, from |-> 0, blocks |-> blocks, current |-> current]

\* The first block with room; else a new block, unless malloc returns NULL.
SmallOutcomes(size, aligned) ==
    LET fit == Candidates(size, aligned)
    IN  IF fit # {}
        THEN {InBlock(i, size, aligned) : i \in First(fit)}
        ELSE {Nothing} \cup
             (IF Len(blocks) < MaxBlocks
              THEN {InNewBlock(size, c) : c \in NextCurrents} ELSE {})

Region(r, size) == [block |-> r.block, from |-> r.from, to |-> r.from + size]

-----------------------------------------------------------------------------
Init ==
    /\ blocks = <<>>
    /\ current = 0
    /\ large = <<>>
    /\ heap = [o \in Object |-> "free"]
    /\ small = {}
    /\ tries = 0
    /\ longest = 0

\* ngx_create_pool, when malloc gives it a block.
Create ==
    /\ NoPool
    /\ blocks' = <<[last |-> PoolHeader, failed |-> 0]>>
    /\ current' = 1
    /\ longest' = 1
    /\ UNCHANGED <<large, heap, small, tries>>

\* ngx_palloc (aligned), ngx_pcalloc (the same, zeroed) and ngx_pnalloc (not
\* aligned), for a request that goes to the blocks.
PallocSmall(size, aligned) ==
    /\ ~NoPool
    /\ size <= MaxSmall
    /\ \E r \in SmallOutcomes(size, aligned) :
          /\ blocks' = r.blocks
          /\ current' = r.current
          /\ small' = IF r.block = 0 THEN small ELSE small \cup {Region(r, size)}
    /\ UNCHANGED <<large, heap, tries, longest>>

\* A node of the list: its place in a block, and alloc.
Node(r, o) == [block |-> r.block, from |-> r.from, alloc |-> o]

\* Take a node from the blocks for object o and push it on the list; when there
\* is none, free the object again.
HangNew(o) ==
    \E r \in SmallOutcomes(NodeSize, TRUE) :
        /\ blocks' = r.blocks
        /\ current' = r.current
        /\ IF r.block = 0
           THEN UNCHANGED <<large, heap, small>>
           ELSE /\ large' = <<Node(r, o)>> \o large
                /\ heap' = [heap EXCEPT ![o] = "live"]
                /\ small' = small \cup {Region(r, NodeSize)}

\* The nodes ngx_palloc_large looks at: n++ > 3 stops it after the fifth.
Looked == 1..(IF Len(large) < 5 THEN Len(large) ELSE 5)
Reusable == {i \in Looked : large[i].alloc = NoObject}

\* ngx_palloc_large, when malloc gives it object o: reuse a node that has lost
\* its object, or hang a new one.  The size plays no part.
PallocLarge(o) ==
    /\ ~NoPool
    /\ heap[o] = "free"
    /\ \/ /\ \E i \in First(Reusable) :
                /\ large' = [large EXCEPT ![i].alloc = o]
                /\ tries' = i
          /\ heap' = [heap EXCEPT ![o] = "live"]
          /\ UNCHANGED <<blocks, current, small>>
       \/ /\ Reusable = {}
          /\ HangNew(o)
          /\ tries' = Cardinality(Looked)
    /\ UNCHANGED longest

\* ngx_pmemalign: always a new node, whatever the alignment (ngx_memalign is
\* ngx_alloc in mem_alloc.h).
Pmemalign(o) ==
    /\ ~NoPool
    /\ heap[o] = "free"
    /\ HangNew(o)
    /\ UNCHANGED <<tries, longest>>

\* free(o): a second free of the same object corrupts the heap.
Freed(h, os) ==
    [o \in Object |-> IF o \notin os THEN h[o]
                      ELSE IF h[o] = "live" THEN "free" ELSE "corrupt"]

\* ngx_pfree of a pointer: the first node that holds it loses it; a pointer no
\* node holds is declined and changes nothing.
Pfree(o) ==
    /\ ~NoPool
    /\ \E i \in 1..Len(large) :
          /\ large[i].alloc = o
          /\ \A j \in 1..(i - 1) : large[j].alloc # o
          /\ large' = [large EXCEPT ![i].alloc = NoObject]
    /\ heap' = Freed(heap, {o})
    /\ UNCHANGED <<blocks, current, small, tries, longest>>

Hung == {large[i].alloc : i \in 1..Len(large)} \ {NoObject}

\* ngx_reset_pool: free the large objects, empty every block, forget the list.
\* The room kept for the header is that of the first block, in every block.
Reset ==
    /\ ~NoPool
    /\ heap' = Freed(heap, Hung)
    /\ blocks' = [i \in 1..Len(blocks) |-> [last |-> PoolHeader, failed |-> 0]]
    /\ current' = 1
    /\ large' = <<>>
    /\ small' = {}
    /\ longest' = Len(blocks)
    /\ UNCHANGED tries

\* ngx_destroy_pool: free the large objects, then every block of the chain.
Destroy ==
    /\ ~NoPool
    /\ heap' = Freed(heap, Hung)
    /\ blocks' = <<>>
    /\ current' = 0
    /\ large' = <<>>
    /\ small' = {}
    /\ longest' = 0
    /\ UNCHANGED tries

Next ==
    \/ Create \/ Reset \/ Destroy
    \/ \E size \in Size, aligned \in BOOLEAN : PallocSmall(size, aligned)
    \/ \E o \in Object : PallocLarge(o) \/ Pmemalign(o) \/ Pfree(o)

Spec == Init /\ [][Next]_vars

-----------------------------------------------------------------------------
(* Properties.                                                             *)

\* Every variable keeps the shape mem_pool_palloc.h:35-56 gives it.
TypeOK ==
    /\ blocks \in Seq([last : Nat, failed : Nat])
    /\ current \in 0..Len(blocks)
    /\ NoPool <=> current = 0
    /\ \A i \in 1..Len(large) :
          /\ large[i].block \in 1..Len(blocks)
          /\ large[i].alloc \in Object \cup {NoObject}
    /\ heap \in [Object -> {"free", "live", "corrupt"}]
    /\ tries \in Nat
    /\ longest \in Nat

\* The comment at mem_pool_palloc.c:169 on the test of line 170: "is the
\* remaining memory enough".  Every allocation lies in its block, behind the
\* header and below last.
Enough ==
    \A a \in small :
        /\ a.block \in 1..Len(blocks)
        /\ DataHeader <= a.from
        /\ a.to <= blocks[a.block].last
        /\ blocks[a.block].last <= PoolSize

Disjoint ==
    \A a, b \in small :
        a.block = b.block => a = b \/ a.to <= b.from \/ b.to <= a.from

\* Every allocation fits its block, and no two since the last reset share a byte,
\* whether they belong to callers or are nodes of the list (mem_pool_palloc.c:162-173,
\* :206-208); nothing on the list lies in a block that is gone (:77-103).
Separate == TypeOK /\ Enough /\ Disjoint

\* The nodes of the list are small allocations of their own that reset and
\* reuse never hand to anybody else while they are linked.
NodesReserved ==
    /\ \A i \in 1..Len(large) :
          [block |-> large[i].block, from |-> large[i].from,
           to |-> large[i].from + NodeSize] \in small
    /\ \A i, j \in 1..Len(large) :
          large[i].block = large[j].block /\ large[i].from = large[j].from => i = j

\* The list holds each live object once, every live object is on the list, and
\* nothing is freed twice: pfree, reset and destroy agree on who owns what
\* (mem_pool_palloc.c:83-87, :108-112, :237-261, :296-303).
LargeOwned ==
    /\ NodesReserved
    /\ \A o \in Object : heap[o] = "live" <=> o \in Hung
    /\ \A i, j \in 1..Len(large) :
          large[i].alloc = large[j].alloc /\ large[i].alloc # NoObject => i = j
    /\ \A o \in Object : heap[o] # "corrupt"

\* The blocks a search starts with have failed at least as often as those behind
\* them (mem_pool_palloc.c:210-214): no block is given up before one that was
\* tried as long.
FailedDecreases ==
    \A i \in 1..Len(blocks) : \A j \in i..Len(blocks) :
        current <= i => blocks[j].failed <= blocks[i].failed

\* A search looks at seven blocks at most, or, in a pool that was longer when it
\* was reset, at five more than it had then (mem_pool_palloc.c:159-178, :210-214).
SearchIsShort ==
    /\ FailedDecreases
    /\ Len(blocks) - current + 1 <= IF longest > 2 THEN longest + 5 ELSE 7

\* The comment at mem_pool_palloc.c:243: "try to find one 4 times only".
FourTries == tries <= 4
=============================================================================
