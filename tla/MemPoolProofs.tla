---------------------------- MODULE MemPoolProofs ----------------------------
(***************************************************************************)
(* Proofs about the memory pool: that no two allocations share a byte,     *)
(* that the list of large objects owns each of them once, and how far a    *)
(* search for room goes, for pools, requests and chains of any size.       *)
(***************************************************************************)
EXTENDS MemPool, SequenceTheorems, FiniteSetTheorems, TLAPS

\* The size of every block is a multiple of NGX_ALIGNMENT.  Without this the
\* room left wraps round (Enough, MCMemPoolUnaligned.cfg); main.c:5 has 4096.
Aligned == PoolSize % Align = 0

Block == [last : Nat, failed : Nat]

Typed ==
    /\ blocks \in Seq(Block)
    /\ current \in 0..Len(blocks)
    /\ NoPool <=> current = 0
    /\ large \in Seq([block : Nat, from : Nat, alloc : Object \cup {NoObject}])
    /\ heap \in [Object -> {"free", "live", "corrupt"}]
    /\ small \in SUBSET [block : Nat, from : Nat, to : Nat]
    /\ tries \in Nat
    /\ longest \in Nat

\* A block is filled from its header to last, and last stays inside.
Filled(bs) == \A i \in 1..Len(bs) : DataHeader <= bs[i].last /\ bs[i].last <= PoolSize

\* An allocation lies below the last of its block, which is where the next one
\* will begin.
Below ==
    \A a \in small :
        /\ a.block \in 1..Len(blocks)
        /\ DataHeader <= a.from /\ a.from <= a.to
        /\ a.to <= blocks[a.block].last

RoomInv == Filled(blocks) /\ Below /\ Disjoint

\* How often block i has failed: once for every block appended since it had one
\* behind it, counted from the last reset.
FailedExact ==
    /\ ~NoPool => longest \in 1..Len(blocks)
    /\ \A i \in 1..Len(blocks) : current <= i =>
          blocks[i].failed = IF i < longest THEN Len(blocks) - longest
                             ELSE IF i < Len(blocks) THEN Len(blocks) - 1 - i
                             ELSE 0
    /\ ~NoPool => blocks[current].failed <= 5

PoolInv == Typed /\ RoomInv /\ LargeOwned /\ FailedExact

-----------------------------------------------------------------------------
(* Arithmetic of addresses.                                                *)

\* Division with remainder.
LEMMA DivFacts ==
  ASSUME NEW n \in Nat, NEW a \in Nat, a > 0
  PROVE  /\ n \div a \in Nat
         /\ n = a * (n \div a) + (n % a)
         /\ n % a \in 0..(a - 1)
  OBVIOUS

\* Rounding up does not go back, and does not pass a multiple of Align.
LEMMA AlignUpFacts ==
  ASSUME NEW x \in Nat
  PROVE  /\ AlignUp(x) \in Nat
         /\ x <= AlignUp(x)
         /\ \A p \in Nat : p % Align = 0 /\ x <= p => AlignUp(x) <= p
<1> DEFINE A == Align
           n == x + A - 1
           q == n \div A
<1>1. A \in Nat /\ A > 0
  BY SizesAssumption
<1>2. n \in Nat
  BY <1>1
<1>3. q \in Nat /\ n = A * q + (n % A) /\ n % A \in 0..(A - 1)
  BY <1>1, <1>2, DivFacts
<1>4. AlignUp(x) = q * A
  BY DEF AlignUp
<1>5. q * A = A * q /\ A * q \in Nat
  BY <1>1, <1>3
<1>6. x <= A * q
  BY <1>1, <1>2, <1>3, <1>5
<1>7. ASSUME NEW p \in Nat, p % A = 0, x <= p PROVE A * q <= p
  <2> DEFINE m == p \div A
  <2>1. m \in Nat /\ p = A * m
    BY <1>1, <1>7, DivFacts
  <2>2. A * q < A * (m + 1)
    <3>1. A * (m + 1) = A * m + A
      BY <1>1, <2>1
    <3> QED BY <1>1, <1>2, <1>3, <1>5, <1>7, <2>1, <3>1
  <2>3. q < m + 1
    BY <1>1, <1>3, <2>1, <2>2
  <2>4. q <= m
    BY <1>3, <2>1, <2>3
  <2>5. A * q <= A * m
    BY <1>1, <1>3, <2>1, <2>4
  <2> QED BY <2>1, <2>5
<1> QED BY <1>4, <1>5, <1>6, <1>7

\* A difference that is no less than zero keeps its value as a size_t.
LEMMA ModFacts ==
  ASSUME NEW x \in Int, 0 <= x, x < SizeModulus
  PROVE  x % SizeModulus = x
  BY SizesAssumption, Z3

\* A block of the chain.
LEMMA BlockTypes ==
  ASSUME Typed, NEW i \in 1..Len(blocks)
  PROVE  blocks[i] \in Block /\ blocks[i].last \in Nat /\ blocks[i].failed \in Nat
<1>1. blocks[i] \in Block
  BY DEF Typed
<1> QED BY <1>1 DEF Block

\* What the test of mem_pool_palloc.c:170 means: the request fits.
LEMMA FitsIsRoom ==
  ASSUME Aligned, Typed, Filled(blocks), NEW i \in 1..Len(blocks),
         NEW size \in Nat, NEW aligned \in BOOLEAN, Fits(i, size, aligned)
  PROVE  /\ Place(i, aligned) \in Nat
         /\ blocks[i].last <= Place(i, aligned)
         /\ Place(i, aligned) + size <= PoolSize
<1>1. blocks[i].last \in Nat
  BY BlockTypes
<1>2. blocks[i].last <= PoolSize /\ PoolSize \in Nat
  BY SizesAssumption DEF Filled
<1>3. /\ Place(i, aligned) \in Nat
      /\ blocks[i].last <= Place(i, aligned)
      /\ Place(i, aligned) <= PoolSize
  <2>1. /\ AlignUp(blocks[i].last) \in Nat
        /\ blocks[i].last <= AlignUp(blocks[i].last)
        /\ AlignUp(blocks[i].last) <= PoolSize
    BY <1>1, <1>2, AlignUpFacts DEF Aligned
  <2>2. CASE aligned
    BY <2>1, <2>2 DEF Place
  <2>3. CASE ~aligned
    BY <1>1, <1>2, <2>3 DEF Place
  <2> QED BY <2>2, <2>3
<1>4. /\ PoolSize - Place(i, aligned) \in Int
      /\ 0 <= PoolSize - Place(i, aligned)
      /\ PoolSize - Place(i, aligned) < SizeModulus
  BY <1>2, <1>3, SizesAssumption, SMTT(150)
<1>5. PoolSize - Place(i, aligned) >= size
  BY <1>4, ModFacts DEF Fits
<1> QED BY <1>2, <1>3, <1>5

\* The header of a block is a multiple of Align.
LEMMA HeaderAligned == AlignUp(DataHeader) = DataHeader
<1>1. DataHeader \in Nat /\ DataHeader % Align = 0
  BY SizesAssumption
<1> QED BY <1>1, AlignUpFacts

-----------------------------------------------------------------------------
(* What ngx_palloc_small gives.                                            *)

\* The chain has grown at its end and no block has lost an allocation; the new
\* region lies behind all others of its block, and inside it.
Gives(r, size) ==
    /\ r.block \in 1..Len(r.blocks) /\ r.from \in Nat
    /\ r.blocks \in Seq(Block) /\ Filled(r.blocks)
    /\ Len(blocks) <= Len(r.blocks)
    /\ \A i \in 1..Len(blocks) : blocks[i].last <= r.blocks[i].last
    /\ r.current \in 1..Len(r.blocks)
    /\ DataHeader <= r.from
    /\ r.block \in 1..Len(blocks) => blocks[r.block].last <= r.from
    /\ r.from + size <= r.blocks[r.block].last

\* FailedExact of another chain and current block.
ExactOf(bs, c) ==
    /\ longest \in 1..Len(bs)
    /\ \A i \in 1..Len(bs) : c <= i =>
          bs[i].failed = IF i < longest THEN Len(bs) - longest
                         ELSE IF i < Len(bs) THEN Len(bs) - 1 - i
                         ELSE 0
    /\ bs[c].failed <= 5

\* A block with room gives a place behind what it has handed out.
LEMMA InBlockGives ==
  ASSUME Aligned, PoolInv, ~NoPool, NEW size \in Nat, NEW aligned \in BOOLEAN,
         NEW i \in Candidates(size, aligned)
  PROVE  /\ Gives(InBlock(i, size, aligned), size)
         /\ ExactOf(InBlock(i, size, aligned).blocks, InBlock(i, size, aligned).current)
<1> DEFINE r == InBlock(i, size, aligned)
           m == Place(i, aligned)
<1>1. current \in 1..Len(blocks) /\ i \in 1..Len(blocks) /\ current <= i
  BY DEF PoolInv, Typed, Candidates
<1>2. m \in Nat /\ blocks[i].last <= m /\ m + size <= PoolSize
  BY <1>1, FitsIsRoom DEF PoolInv, RoomInv, Candidates
<1>3. /\ r.block = i /\ r.from = m /\ r.current = current
      /\ r.blocks = [blocks EXCEPT ![i].last = m + size]
  BY DEF InBlock
<1>4. \A j \in 1..Len(blocks) :
        blocks[j] \in Block /\ blocks[j].last \in Nat /\ blocks[j].failed \in Nat
  BY BlockTypes DEF PoolInv
<1>5. /\ r.blocks \in Seq(Block) /\ Len(r.blocks) = Len(blocks)
      /\ \A j \in 1..Len(blocks) :
            /\ r.blocks[j].failed = blocks[j].failed
            /\ r.blocks[j].last = IF j = i THEN m + size ELSE blocks[j].last
  <2> HIDE DEF m, r
  <2>1. blocks \in Seq(Block)
    BY DEF PoolInv, Typed
  <2>2. [blocks[i] EXCEPT !.last = m + size] \in Block
    BY <1>1, <1>2, <1>4, SMTT(150) DEF Block
  <2>3. r.blocks = [blocks EXCEPT ![i] = [blocks[i] EXCEPT !.last = m + size]]
    BY <1>3
  <2>4. r.blocks \in Seq(Block) /\ Len(r.blocks) = Len(blocks)
    BY <1>1, <2>1, <2>2, <2>3, ExceptSeq
  <2>5. ASSUME NEW j \in 1..Len(blocks)
        PROVE  /\ r.blocks[j].failed = blocks[j].failed
               /\ r.blocks[j].last = IF j = i THEN m + size ELSE blocks[j].last
    BY <1>1, <1>4, <2>1, <2>3, <2>5, SMTT(150) DEF Block
  <2> QED BY <2>4, <2>5
<1>6. Filled(blocks) /\ DataHeader \in Nat /\ PoolSize \in Nat
  BY SizesAssumption DEF PoolInv, RoomInv
<1> HIDE DEF r, m
<1>7. Filled(r.blocks)
  BY <1>1, <1>2, <1>4, <1>5, <1>6, SMTT(150) DEF Filled
<1>8. \A j \in 1..Len(blocks) : blocks[j].last <= r.blocks[j].last
  BY <1>1, <1>2, <1>4, <1>5
<1>9. DataHeader <= r.from
  BY <1>1, <1>2, <1>3, <1>4, <1>6 DEF Filled
<1>10. Gives(r, size)
  BY <1>1, <1>2, <1>3, <1>5, <1>7, <1>8, <1>9 DEF Gives
<1>11. ExactOf(r.blocks, r.current)
  BY <1>1, <1>3, <1>5 DEF ExactOf, PoolInv, FailedExact
<1> QED BY <1>10, <1>11 DEF r

\* A new block gives its first place; each block the search passed has failed
\* once more, and current has left those that failed too often.
LEMMA InNewBlockGives ==
  ASSUME PoolInv, ~NoPool, NEW size \in Nat, size <= PoolSize - PoolHeader,
         NEW c \in NextCurrents
  PROVE  /\ Gives(InNewBlock(size, c), size)
         /\ ExactOf(InNewBlock(size, c).blocks, InNewBlock(size, c).current)
<1> DEFINE r == InNewBlock(size, c)
           new == [last |-> DataHeader + size, failed |-> 0]
           n == Len(blocks)
<1>1. n \in Nat /\ current \in 1..n /\ c \in current..n
  BY DEF PoolInv, Typed, NextCurrents
<1>2. /\ DataHeader \in Nat /\ PoolSize \in Nat /\ PoolHeader \in Nat
      /\ DataHeader <= PoolHeader
  BY SizesAssumption
<1>3. \A j \in 1..n :
        blocks[j] \in Block /\ blocks[j].last \in Nat /\ blocks[j].failed \in Nat
  BY BlockTypes DEF PoolInv
<1>4. /\ Counted \in Seq(Block) /\ Len(Counted) = n
      /\ \A j \in 1..n :
            /\ Counted[j].last = blocks[j].last
            /\ Counted[j].failed =
                  IF j \in current..(n - 1) THEN blocks[j].failed + 1
                  ELSE blocks[j].failed
  <2>1. \A j \in 1..n :
            /\ Counted[j] \in Block
            /\ Counted[j].last = blocks[j].last
            /\ Counted[j].failed =
                  IF j \in current..(n - 1) THEN blocks[j].failed + 1
                  ELSE blocks[j].failed
    BY <1>1, <1>3, SMTT(150) DEF Counted, Block
  <2>2. Counted = [j \in 1..n |-> Counted[j]]
    BY DEF Counted
  <2> HIDE DEF n
  <2>3. Counted \in [1..n -> Block]
    BY <2>1, <2>2
  <2> QED BY <1>1, <2>1, <2>3
<1>5. /\ r.block = n + 1 /\ r.from = DataHeader /\ r.current = c
      /\ r.blocks = Append(Counted, new)
  BY HeaderAligned DEF InNewBlock
<1>6. new \in Block
  BY <1>2 DEF Block
<1> HIDE DEF new, r
<1>7. /\ r.blocks \in Seq(Block) /\ Len(r.blocks) = n + 1
      /\ \A j \in 1..n : r.blocks[j] = Counted[j]
      /\ r.blocks[n + 1] = new
  <2> HIDE DEF n
  <2>1. /\ Append(Counted, new) \in Seq(Block)
        /\ Len(Append(Counted, new)) = Len(Counted) + 1
        /\ \A j \in 1..Len(Counted) : Append(Counted, new)[j] = Counted[j]
        /\ Append(Counted, new)[Len(Counted) + 1] = new
    BY <1>4, <1>6, AppendProperties
  <2> QED BY <1>4, <1>5, <2>1
<1>8. new.last = DataHeader + size /\ new.failed = 0
  BY DEF new
<1>9. Filled(r.blocks)
  <2>1. Filled(blocks)
    BY DEF PoolInv, RoomInv
  <2> SUFFICES ASSUME NEW j \in 1..(n + 1)
               PROVE  DataHeader <= r.blocks[j].last /\ r.blocks[j].last <= PoolSize
    BY <1>7 DEF Filled
  <2>2. CASE j \in 1..n
    BY <1>4, <1>7, <2>1, <2>2, ZenonT(60) DEF Filled
  <2>3. CASE j = n + 1
    BY <1>2, <1>7, <1>8, <2>3
  <2> QED BY <1>1, <2>2, <2>3
<1>10. \A j \in 1..n : blocks[j].last <= r.blocks[j].last
  BY <1>3, <1>4, <1>7, SMTT(60)
<1>11. Gives(r, size)
  BY <1>1, <1>2, <1>5, <1>7, <1>8, <1>9, <1>10 DEF Gives
<1>12. \A j \in 1..n : j >= c =>
          Counted[j].failed = IF j < n THEN blocks[j].failed + 1 ELSE blocks[j].failed
  BY <1>1, <1>4
<1>13. longest \in 1..n
       /\ \A j \in 1..n : current <= j =>
             blocks[j].failed = IF j < longest THEN n - longest
                                ELSE IF j < n THEN n - 1 - j ELSE 0
  BY DEF PoolInv, FailedExact
<1>14. Counted[c].failed <= 5
  <2>1. CASE c = n
    BY <1>1, <1>12, <1>13, <2>1
  <2>2. CASE c < n
    <3>1. c \notin Tired
      BY <1>1 DEF NextCurrents
    <3>2. blocks[c].failed <= 4
      BY <1>1, <1>3, <2>2, <3>1 DEF Tired, Block
    <3> QED BY <1>1, <1>3, <1>12, <2>2, <3>2 DEF Block
  <2> QED BY <1>1, <2>1, <2>2
<1>15. ASSUME NEW j \in 1..(n + 1), c <= j
       PROVE  r.blocks[j].failed = IF j < longest THEN n + 1 - longest
                                   ELSE IF j < n + 1 THEN n - j ELSE 0
  <2>1. CASE j = n + 1
    BY <1>1, <1>7, <1>8, <1>13, <2>1
  <2>2. CASE j = n
    BY <1>1, <1>7, <1>12, <1>13, <1>15, <2>2, SMTT(60)
  <2>3. CASE j < n
    <3>1. j \in 1..n /\ current <= j /\ r.blocks[j].failed = blocks[j].failed + 1
      BY <1>1, <1>7, <1>12, <1>15, <2>3, SMTT(150)
    <3> QED BY <1>1, <1>13, <2>3, <3>1
  <2> QED BY <1>1, <2>1, <2>2, <2>3
<1>16. ExactOf(r.blocks, c)
  BY <1>1, <1>7, <1>13, <1>14, <1>15, SMTT(60) DEF ExactOf
<1> QED BY <1>5, <1>11, <1>16 DEF r

\* ngx_palloc_small gives a place of its own, or nothing and changes nothing.
LEMMA SmallFacts ==
  ASSUME Aligned, PoolInv, ~NoPool, NEW size \in Nat,
         size <= PoolSize - PoolHeader, NEW aligned \in BOOLEAN,
         NEW r \in SmallOutcomes(size, aligned)
  PROVE  /\ r = Nothing \/ (r.block # 0 /\ Gives(r, size))
         /\ r = Nothing \/ ExactOf(r.blocks, r.current)
<1>1. CASE \E i \in Candidates(size, aligned) : r = InBlock(i, size, aligned)
  <2>1. PICK i \in Candidates(size, aligned) : r = InBlock(i, size, aligned)
    BY <1>1
  <2>2. Gives(r, size) /\ ExactOf(r.blocks, r.current)
    BY <2>1, InBlockGives
  <2> QED BY <2>2 DEF Gives
<1>2. CASE r = Nothing
  BY <1>2
<1>3. CASE \E c \in NextCurrents : r = InNewBlock(size, c)
  <2>1. PICK c \in NextCurrents : r = InNewBlock(size, c)
    BY <1>3
  <2>2. Gives(r, size) /\ ExactOf(r.blocks, r.current)
    BY <2>1, InNewBlockGives
  <2> QED BY <2>2 DEF Gives
<1> QED BY <1>1, <1>2, <1>3 DEF SmallOutcomes, First
-----------------------------------------------------------------------------
(* What a call keeps.                                                      *)

\* The region that is given lies apart from all others.
LEMMA RegionAdded ==
  ASSUME PoolInv, NEW size \in Nat, NEW r, Gives(r, size),
         blocks' = r.blocks, small' = small \cup {Region(r, size)}
  PROVE  /\ RoomInv'
         /\ small' \in SUBSET [block : Nat, from : Nat, to : Nat]
         /\ \A a \in small : a.block = r.block => a.to <= r.from
<1> DEFINE new == Region(r, size)
<1>1. /\ new.block = r.block /\ new.from = r.from /\ new.to = r.from + size
      /\ new \in [block : Nat, from : Nat, to : Nat]
  BY DEF Region, Gives
<1>2. \A a \in small : a.block \in Nat /\ a.from \in Nat /\ a.to \in Nat
  BY DEF PoolInv, Typed
<1>3. \A j \in 1..Len(blocks) : blocks[j].last \in Nat
  BY BlockTypes DEF PoolInv
<1>4. /\ Len(blocks) \in Nat /\ Len(r.blocks) \in Nat /\ r.from \in Nat
      /\ Len(blocks) <= Len(r.blocks)
  BY DEF Gives, PoolInv, Typed
<1>5. \A j \in 1..Len(r.blocks) : r.blocks[j].last \in Nat
  <2>1. \A j \in 1..Len(r.blocks) : r.blocks[j] \in Block
    BY DEF Gives
  <2> QED BY <2>1 DEF Block
<1>6. ASSUME NEW a \in small
      PROVE  /\ a.block \in 1..Len(blocks)
             /\ DataHeader <= a.from /\ a.from <= a.to
             /\ a.to <= blocks[a.block].last
             /\ blocks[a.block].last <= r.blocks[a.block].last
  BY <1>6 DEF PoolInv, RoomInv, Below, Gives
<1>7. \A a \in small : a.block = r.block => a.to <= r.from
  <2> SUFFICES ASSUME NEW a \in small, a.block = r.block PROVE a.to <= r.from
    OBVIOUS
  <2>1. blocks[r.block].last <= r.from
    BY <1>6 DEF Gives
  <2> QED BY <1>2, <1>3, <1>4, <1>6, <2>1
<1> HIDE DEF new
<1>8. Filled(blocks)'
  BY DEF Gives, Filled
<1>9. Below'
  <2> SUFFICES ASSUME NEW a \in small'
               PROVE  /\ a.block \in 1..Len(r.blocks)
                      /\ DataHeader <= a.from /\ a.from <= a.to
                      /\ a.to <= r.blocks[a.block].last
    BY DEF Below
  <2>1. CASE a = new
    BY <1>1, <1>4, <2>1, SMTT(60) DEF Gives
  <2>2. CASE a \in small
    <3>1. a.block \in 1..Len(r.blocks)
      BY <1>2, <1>4, <1>6, <2>2
    <3> QED BY <1>2, <1>3, <1>5, <1>6, <2>2, <3>1, SMTT(150)
  <2> QED BY <2>1, <2>2 DEF new
<1>10. Disjoint'
  <2> SUFFICES ASSUME NEW a \in small', NEW b \in small', a.block = b.block
               PROVE  a = b \/ a.to <= b.from \/ b.to <= a.from
    BY DEF Disjoint
  <2>1. CASE a \in small /\ b \in small
    BY <2>1 DEF PoolInv, RoomInv, Disjoint
  <2>2. CASE a \in small /\ b = new
    BY <1>1, <1>7, <2>2
  <2>3. CASE a = new /\ b \in small
    BY <1>1, <1>7, <2>3
  <2> QED BY <2>1, <2>2, <2>3 DEF new
<1>11. small' \in SUBSET [block : Nat, from : Nat, to : Nat]
  BY <1>1 DEF PoolInv, Typed, new
<1> QED BY <1>7, <1>8, <1>9, <1>10, <1>11 DEF RoomInv

\* The chain and the current block are those of r, and longest stays.
LEMMA ChainKept ==
  ASSUME PoolInv, ~NoPool, NEW r, NEW size \in Nat, Gives(r, size),
         ExactOf(r.blocks, r.current),
         blocks' = r.blocks, current' = r.current, longest' = longest
  PROVE  /\ FailedExact' /\ ~NoPool'
         /\ blocks' \in Seq(Block) /\ current' \in 0..Len(blocks')
         /\ (NoPool <=> current = 0)'
<1>1. /\ Len(r.blocks) \in Nat /\ r.current \in 1..Len(r.blocks)
      /\ r.blocks \in Seq(Block)
  BY DEF Gives
<1>2. r.blocks # <<>>
  BY <1>1
<1>3. FailedExact'
  BY <1>2 DEF ExactOf, FailedExact
<1> QED BY <1>1, <1>2, <1>3 DEF NoPool

\* ngx_palloc and ngx_pnalloc of a small size.
LEMMA PallocSmallInv ==
  ASSUME Aligned, PoolInv, NEW size \in Size, NEW aligned \in BOOLEAN,
         PallocSmall(size, aligned)
  PROVE  PoolInv'
<1>1. size \in Nat /\ size <= PoolSize - PoolHeader
  BY SizesAssumption DEF PallocSmall, MaxSmall
<1>2. ~NoPool /\ UNCHANGED <<large, heap, tries, longest>>
  BY DEF PallocSmall
<1>3. PICK r \in SmallOutcomes(size, aligned) :
          /\ blocks' = r.blocks
          /\ current' = r.current
          /\ small' = IF r.block = 0 THEN small ELSE small \cup {Region(r, size)}
  BY DEF PallocSmall
<1>4. CASE r = Nothing
  <2>1. UNCHANGED vars
    BY <1>2, <1>3, <1>4 DEF Nothing, vars
  <2> QED BY <2>1 DEF PoolInv, Typed, RoomInv, Filled, Below, Disjoint, LargeOwned,
              NodesReserved, Hung, FailedExact, NoPool, vars
<1>5. CASE r.block # 0 /\ Gives(r, size) /\ ExactOf(r.blocks, r.current)
  <2>1. small' = small \cup {Region(r, size)}
    BY <1>3, <1>5
  <2>2. /\ RoomInv'
        /\ small' \in SUBSET [block : Nat, from : Nat, to : Nat]
    BY <1>1, <1>3, <1>5, <2>1, RegionAdded
  <2>3. /\ FailedExact'
        /\ blocks' \in Seq(Block) /\ current' \in 0..Len(blocks')
        /\ (NoPool <=> current = 0)'
    BY <1>1, <1>2, <1>3, <1>5, ChainKept
  <2>4. Typed'
    BY <1>2, <2>2, <2>3 DEF PoolInv, Typed
  <2>5. LargeOwned'
    BY <1>2, <2>1 DEF PoolInv, LargeOwned, NodesReserved, Hung
  <2> QED BY <2>2, <2>3, <2>4, <2>5 DEF PoolInv
<1> QED BY <1>1, <1>2, <1>4, <1>5, SmallFacts

\* A node of its own for a large object.
LEMMA HangNewInv ==
  ASSUME Aligned, PoolInv, ~NoPool, NEW o \in Object, heap[o] = "free", HangNew(o),
         longest' = longest, tries' \in Nat
  PROVE  PoolInv'
<1>1. /\ NodeSize \in Nat /\ NodeSize > 0 /\ NodeSize <= PoolSize - PoolHeader
      /\ o # NoObject
  BY SizesAssumption, ObjectsAssumption
<1>2. PICK r \in SmallOutcomes(NodeSize, TRUE) :
          /\ blocks' = r.blocks
          /\ current' = r.current
          /\ IF r.block = 0
             THEN UNCHANGED <<large, heap, small>>
             ELSE /\ large' = <<Node(r, o)>> \o large
                  /\ heap' = [heap EXCEPT ![o] = "live"]
                  /\ small' = small \cup {Region(r, NodeSize)}
  BY DEF HangNew
<1>3. CASE r = Nothing
  <2>1. UNCHANGED <<blocks, current, large, heap, small, longest>>
    BY <1>2, <1>3 DEF Nothing
  <2> QED BY <2>1 DEF PoolInv, Typed, RoomInv, Filled, Below, Disjoint, LargeOwned,
              NodesReserved, Hung, FailedExact, NoPool
<1>4. CASE r.block # 0 /\ Gives(r, NodeSize) /\ ExactOf(r.blocks, r.current)
  <2> DEFINE node == Node(r, o)
             NodeSet == [block : Nat, from : Nat, alloc : Object \cup {NoObject}]
             n == Len(large)
  <2>1. /\ large' = <<node>> \o large
        /\ heap' = [heap EXCEPT ![o] = "live"]
        /\ small' = small \cup {Region(r, NodeSize)}
    BY <1>2, <1>4
  <2>2. /\ RoomInv'
        /\ small' \in SUBSET [block : Nat, from : Nat, to : Nat]
        /\ \A a \in small : a.block = r.block => a.to <= r.from
    BY <1>1, <1>2, <1>4, <2>1, RegionAdded
  <2>3. /\ FailedExact'
        /\ blocks' \in Seq(Block) /\ current' \in 0..Len(blocks')
        /\ (NoPool <=> current = 0)'
    BY <1>1, <1>2, <1>4, ChainKept
  <2>4. /\ node \in NodeSet /\ node.block = r.block /\ node.from = r.from
        /\ node.alloc = o
    BY <1>4 DEF Node, Gives
  <2>5. large \in Seq(NodeSet) /\ n \in Nat
    BY DEF PoolInv, Typed
  <2> HIDE DEF node, NodeSet
  <2>6. /\ large' \in Seq(NodeSet) /\ Len(large') = n + 1
        /\ large'[1] = node
        /\ \A i \in 1..n : large'[i + 1] = large[i]
    <3>1. <<node>> \in Seq(NodeSet) /\ Len(<<node>>) = 1 /\ <<node>>[1] = node
      BY <2>4
    <3> QED BY <2>1, <2>5, <3>1, ConcatProperties
  <2>7. \A i \in 2..(n + 1) : i - 1 \in 1..n /\ large'[i] = large[i - 1]
    BY <2>5, <2>6
  <2> HIDE DEF n
  <2>8. heap' \in [Object -> {"free", "live", "corrupt"}]
    BY <2>1 DEF PoolInv, Typed
  <2>9. Typed'
    <3>1. longest' \in Nat
      BY DEF PoolInv, Typed
    <3> QED BY <2>2, <2>3, <2>6, <2>8, <3>1 DEF Typed, NodeSet
  <2>10. LargeOwned
    BY DEF PoolInv
  <2>11. \A i \in 1..n : large[i].alloc # o
    <3>1. o \notin Hung
      BY <2>10 DEF LargeOwned
    <3> QED BY <1>1, <3>1 DEF Hung, n
  <2>12. \A i \in 1..n : ~(large[i].block = r.block /\ large[i].from = r.from)
    <3> SUFFICES ASSUME NEW i \in 1..n, large[i].block = r.block, large[i].from = r.from
                 PROVE  FALSE
      OBVIOUS
    <3> DEFINE a == [block |-> large[i].block, from |-> large[i].from,
                     to |-> large[i].from + NodeSize]
    <3>1. a \in small
      BY <2>10 DEF LargeOwned, NodesReserved, n
    <3>2. a.block = r.block /\ a.to = r.from + NodeSize
      OBVIOUS
    <3> HIDE DEF a
    <3>3. r.from + NodeSize <= r.from
      BY <2>2, <3>1, <3>2
    <3>4. r.from \in Nat
      BY <1>4 DEF Gives
    <3> QED BY <1>1, <3>3, <3>4
  <2>13. NodesReserved'
    <3>1. ASSUME NEW i \in 1..(n + 1)
          PROVE  [block |-> large'[i].block, from |-> large'[i].from,
                  to |-> large'[i].from + NodeSize] \in small'
      <4>1. CASE i = 1
        BY <2>1, <2>4, <2>6, <4>1 DEF Region
      <4>2. CASE i # 1
        <5>1. i \in 2..(n + 1)
          BY <2>5, <4>2
        <5>2. i - 1 \in 1..n /\ large'[i] = large[i - 1]
          BY <2>7, <5>1
        <5>3. [block |-> large[i - 1].block, from |-> large[i - 1].from,
               to |-> large[i - 1].from + NodeSize] \in small
          BY <2>10, <5>2 DEF LargeOwned, NodesReserved, n
        <5> QED BY <2>1, <5>2, <5>3
      <4> QED BY <4>1, <4>2
    <3>2. ASSUME NEW i \in 1..(n + 1), NEW j \in 1..(n + 1),
                 large'[i].block = large'[j].block, large'[i].from = large'[j].from
          PROVE  i = j
      <4>1. i = 1 \/ i \in 2..(n + 1)
        BY <2>5
      <4>2. j = 1 \/ j \in 2..(n + 1)
        BY <2>5
      <4>3. CASE i = 1 /\ j \in 2..(n + 1)
        BY <2>4, <2>6, <2>7, <2>12, <3>2, <4>3, ZenonT(60)
      <4>4. CASE j = 1 /\ i \in 2..(n + 1)
        BY <2>4, <2>6, <2>7, <2>12, <3>2, <4>4
      <4>5. CASE i \in 2..(n + 1) /\ j \in 2..(n + 1)
        <5>1. /\ i - 1 \in 1..n /\ large'[i] = large[i - 1]
              /\ j - 1 \in 1..n /\ large'[j] = large[j - 1]
          BY <2>7, <4>5
        <5>2. i - 1 = j - 1
          BY <2>10, <3>2, <5>1 DEF LargeOwned, NodesReserved, n
        <5> QED BY <2>5, <5>2
      <4> QED BY <4>1, <4>2, <4>3, <4>4, <4>5
    <3> QED BY <2>6, <3>1, <3>2 DEF NodesReserved
  <2>14. Hung' = Hung \cup {o}
    <3>1. Hung' = {large'[i].alloc : i \in 1..(n + 1)} \ {NoObject}
      BY <2>6 DEF Hung
    <3>2. Hung = {large[i].alloc : i \in 1..n} \ {NoObject}
      BY DEF Hung, n
    <3>3. \A i \in 1..(n + 1) : i = 1 \/ i \in 2..(n + 1)
      BY <2>5
    <3>4. \A i \in 1..n : i + 1 \in 1..(n + 1)
      BY <2>5
    <3>5. \A i \in 1..(n + 1) :
              large'[i].alloc = o \/ \E j \in 1..n : large'[i].alloc = large[j].alloc
      BY <2>4, <2>6, <2>7, <3>3
    <3>6. \A j \in 1..n : \E i \in 1..(n + 1) : large'[i].alloc = large[j].alloc
      BY <2>6, <3>4
    <3>7. \E i \in 1..(n + 1) : large'[i].alloc = o
      BY <2>4, <2>5, <2>6
    <3> QED BY <1>1, <3>1, <3>2, <3>5, <3>6, <3>7
  <2>15. heap \in [Object -> {"free", "live", "corrupt"}]
    BY DEF PoolInv, Typed
  <2>16. \A p \in Object : heap'[p] # "corrupt" /\ (heap'[p] = "live" <=> p \in Hung')
    BY <2>1, <2>10, <2>14, <2>15 DEF LargeOwned
  <2>17. ASSUME NEW i \in 1..(n + 1), NEW j \in 1..(n + 1),
                large'[i].alloc = large'[j].alloc, large'[i].alloc # NoObject
         PROVE  i = j
    <3>1. i = 1 \/ i \in 2..(n + 1)
      BY <2>5
    <3>2. j = 1 \/ j \in 2..(n + 1)
      BY <2>5
    <3>3. CASE i = 1 /\ j \in 2..(n + 1)
      BY <2>4, <2>6, <2>7, <2>11, <2>17, <3>3
    <3>4. CASE j = 1 /\ i \in 2..(n + 1)
      BY <2>4, <2>6, <2>7, <2>11, <2>17, <3>4
    <3>5. CASE i \in 2..(n + 1) /\ j \in 2..(n + 1)
      <4>1. /\ i - 1 \in 1..n /\ large'[i] = large[i - 1]
            /\ j - 1 \in 1..n /\ large'[j] = large[j - 1]
        BY <2>7, <3>5
      <4>2. i - 1 = j - 1
        BY <2>10, <2>17, <4>1, ZenonT(60) DEF LargeOwned, n
      <4> QED BY <2>5, <4>2
    <3> QED BY <3>1, <3>2, <3>3, <3>4, <3>5
  <2>18. LargeOwned'
    BY <2>6, <2>13, <2>16, <2>17 DEF LargeOwned
  <2> QED BY <2>2, <2>3, <2>9, <2>18 DEF PoolInv
<1> QED BY <1>1, <1>3, <1>4, SmallFacts

-----------------------------------------------------------------------------
(* The nodes change what they hold.                                        *)

\* Node i of the list holds p, and the rest of the pool is as it was.
LEMMA HoldFacts ==
  ASSUME PoolInv, NEW i \in 1..Len(large), NEW p \in Object \cup {NoObject},
         large' = [large EXCEPT ![i].alloc = p], UNCHANGED <<blocks, small>>
  PROVE  /\ large' \in Seq([block : Nat, from : Nat, alloc : Object \cup {NoObject}])
         /\ Len(large') = Len(large)
         /\ \A j \in 1..Len(large) :
               /\ large'[j].block = large[j].block
               /\ large'[j].from = large[j].from
               /\ large'[j].alloc = IF j = i THEN p ELSE large[j].alloc
         /\ NodesReserved'
<1> DEFINE NodeSet == [block : Nat, from : Nat, alloc : Object \cup {NoObject}]
<1>1. large \in Seq(NodeSet) /\ \A j \in 1..Len(large) : large[j] \in NodeSet
  <2>1. large \in Seq(NodeSet)
    BY DEF PoolInv, Typed
  <2> HIDE DEF NodeSet
  <2> QED BY <2>1
<1>2. [large[i] EXCEPT !.alloc = p] \in NodeSet
  BY <1>1
<1>3. large' \in Seq(NodeSet) /\ Len(large') = Len(large)
  <2> HIDE DEF NodeSet
  <2> QED BY <1>1, <1>2, ExceptSeq
<1>4. \A j \in 1..Len(large) :
         /\ large'[j].block = large[j].block
         /\ large'[j].from = large[j].from
         /\ large'[j].alloc = IF j = i THEN p ELSE large[j].alloc
  BY <1>1, SMTT(60)
<1>5. NodesReserved
  BY DEF PoolInv, LargeOwned
<1>6. NodesReserved'
  <2> HIDE DEF NodeSet
  <2>1. \A j \in 1..Len(large') :
          [block |-> large'[j].block, from |-> large'[j].from,
           to |-> large'[j].from + NodeSize] \in small'
    BY <1>3, <1>4, <1>5 DEF NodesReserved
  <2>2. \A j, k \in 1..Len(large') :
          large'[j].block = large'[k].block /\ large'[j].from = large'[k].from => j = k
    BY <1>3, <1>4, <1>5 DEF NodesReserved
  <2> QED BY <2>1, <2>2 DEF NodesReserved
<1> QED BY <1>3, <1>4, <1>6

\* What blocks and regions say does not depend on the objects.
LEMMA BlocksFrame ==
  ASSUME PoolInv, UNCHANGED <<blocks, current, small, longest>>
  PROVE  /\ RoomInv' /\ FailedExact'
         /\ blocks' \in Seq(Block) /\ current' \in 0..Len(blocks')
         /\ (NoPool <=> current = 0)'
         /\ small' \in SUBSET [block : Nat, from : Nat, to : Nat]
         /\ longest' \in Nat
  BY ZenonT(60) DEF PoolInv, Typed, RoomInv, Filled, Below, Disjoint, FailedExact, NoPool

\* ngx_palloc_large: a node is used again, or hung.
LEMMA PallocLargeInv ==
  ASSUME Aligned, PoolInv, NEW o \in Object, PallocLarge(o)
  PROVE  PoolInv'
<1>1. ~NoPool /\ heap[o] = "free" /\ longest' = longest /\ o # NoObject
  BY ObjectsAssumption DEF PallocLarge
<1>2. Len(large) \in Nat /\ heap \in [Object -> {"free", "live", "corrupt"}]
  BY DEF PoolInv, Typed
<1>3. CASE Reusable = {} /\ HangNew(o) /\ tries' = Cardinality(Looked)
  <2>1. Cardinality(Looked) \in Nat
    <3>1. \E n \in Nat : Looked = 1..n
      BY <1>2 DEF Looked
    <3> QED BY <3>1, FS_Interval, FS_CardinalityType
  <2> QED BY <1>1, <1>3, <2>1, HangNewInv
<1>4. CASE /\ \E i \in First(Reusable) :
                 /\ large' = [large EXCEPT ![i].alloc = o]
                 /\ tries' = i
           /\ heap' = [heap EXCEPT ![o] = "live"]
           /\ UNCHANGED <<blocks, current, small>>
  <2>1. PICK i \in 1..Len(large) :
           /\ large[i].alloc = NoObject
           /\ large' = [large EXCEPT ![i].alloc = o]
           /\ tries' = i
    <3>1. \A i \in Looked : i \in 1..Len(large)
      BY <1>2 DEF Looked
    <3> QED BY <1>4, <3>1 DEF First, Reusable
  <2>2. /\ large' \in Seq([block : Nat, from : Nat, alloc : Object \cup {NoObject}])
        /\ Len(large') = Len(large)
        /\ \A j \in 1..Len(large) :
              large'[j].alloc = IF j = i THEN o ELSE large[j].alloc
        /\ NodesReserved'
    <3>1. o \in Object \cup {NoObject} /\ UNCHANGED <<blocks, small>>
      BY <1>4
    <3> QED BY <2>1, <3>1, HoldFacts, ZenonT(60)
  <2>3. heap' \in [Object -> {"free", "live", "corrupt"}] /\ tries' \in Nat
    BY <1>2, <1>4, <2>1
  <2>4. /\ RoomInv' /\ FailedExact'
        /\ blocks' \in Seq(Block) /\ current' \in 0..Len(blocks')
        /\ (NoPool <=> current = 0)'
        /\ small' \in SUBSET [block : Nat, from : Nat, to : Nat]
        /\ longest' \in Nat
    BY <1>1, <1>4, BlocksFrame DEF PoolInv
  <2>5. Typed'
    BY <2>2, <2>3, <2>4 DEF Typed
  <2>6. LargeOwned
    BY DEF PoolInv
  <2>7. o \notin Hung
    BY <1>1, <2>6 DEF LargeOwned
  <2>8. \A j \in 1..Len(large) : large[j].alloc # o
    BY <1>1, <2>7 DEF Hung
  <2>9. Hung' = Hung \cup {o}
    BY <1>1, <2>1, <2>2 DEF Hung
  <2>10. \A p \in Object : heap'[p] # "corrupt" /\ (heap'[p] = "live" <=> p \in Hung')
    BY <1>2, <1>4, <2>6, <2>9 DEF LargeOwned
  <2>11. \A j, k \in 1..Len(large') :
            large'[j].alloc = large'[k].alloc /\ large'[j].alloc # NoObject => j = k
    BY <2>2, <2>6, <2>8, ZenonT(60) DEF LargeOwned
  <2>12. LargeOwned'
    BY <2>2, <2>10, <2>11 DEF LargeOwned
  <2> QED BY <2>4, <2>5, <2>12 DEF PoolInv
<1> QED BY <1>3, <1>4 DEF PallocLarge

\* ngx_pfree: one node holds the object, which is freed once.
LEMMA PfreeInv ==
  ASSUME PoolInv, NEW o \in Object, Pfree(o)
  PROVE  PoolInv'
<1>1. PICK i \in 1..Len(large) :
         large[i].alloc = o /\ large' = [large EXCEPT ![i].alloc = NoObject]
  BY DEF Pfree
<1>2. /\ heap' = Freed(heap, {o}) /\ UNCHANGED <<blocks, current, small, tries, longest>>
      /\ o # NoObject
  BY ObjectsAssumption DEF Pfree
<1>3. /\ large' \in Seq([block : Nat, from : Nat, alloc : Object \cup {NoObject}])
      /\ Len(large') = Len(large)
      /\ \A j \in 1..Len(large) :
            large'[j].alloc = IF j = i THEN NoObject ELSE large[j].alloc
      /\ NodesReserved'
  <2>1. NoObject \in Object \cup {NoObject} /\ UNCHANGED <<blocks, small>>
    BY <1>2
  <2> QED BY <1>1, <2>1, HoldFacts, ZenonT(60)
<1>4. LargeOwned /\ heap \in [Object -> {"free", "live", "corrupt"}] /\ tries \in Nat
  BY DEF PoolInv, Typed
<1>5. o \in Hung
  BY <1>1, <1>2 DEF Hung
<1>6. heap[o] = "live"
  BY <1>4, <1>5 DEF LargeOwned
<1>7. heap' = [heap EXCEPT ![o] = "free"]
  BY <1>2, <1>4, <1>6 DEF Freed
<1>8. Hung' = Hung \ {o}
  <2>1. \A j \in 1..Len(large) : large[j].alloc = o => j = i
    BY <1>1, <1>2, <1>4 DEF LargeOwned
  <2> QED BY <1>1, <1>2, <1>3, <2>1, SMTT(150) DEF Hung
<1>9. /\ RoomInv' /\ FailedExact'
      /\ blocks' \in Seq(Block) /\ current' \in 0..Len(blocks')
      /\ (NoPool <=> current = 0)'
      /\ small' \in SUBSET [block : Nat, from : Nat, to : Nat]
      /\ longest' \in Nat
  BY <1>2, BlocksFrame DEF PoolInv
<1>10. Typed'
  BY <1>2, <1>3, <1>4, <1>7, <1>9 DEF Typed
<1>11. \A p \in Object : heap'[p] # "corrupt" /\ (heap'[p] = "live" <=> p \in Hung')
  BY <1>4, <1>7, <1>8 DEF LargeOwned
<1>12. \A j, k \in 1..Len(large') :
          large'[j].alloc = large'[k].alloc /\ large'[j].alloc # NoObject => j = k
  BY <1>3, <1>4, ZenonT(60) DEF LargeOwned
<1>13. LargeOwned'
  BY <1>3, <1>11, <1>12 DEF LargeOwned
<1> QED BY <1>9, <1>10, <1>13 DEF PoolInv

-----------------------------------------------------------------------------
(* The life of a pool.                                                     *)

\* Freeing what hangs on the list, once each, leaves no object live.
LEMMA AllFreed ==
  ASSUME PoolInv, heap' = Freed(heap, Hung), large' = <<>>
  PROVE  /\ heap' \in [Object -> {"free", "live", "corrupt"}]
         /\ \A o \in Object : heap'[o] = "free"
         /\ LargeOwned'
         /\ large' \in Seq([block : Nat, from : Nat, alloc : Object \cup {NoObject}])
<1>1. LargeOwned /\ heap \in [Object -> {"free", "live", "corrupt"}]
  BY DEF PoolInv, Typed
<1>2. \A o \in Object : heap'[o] = "free"
  BY <1>1 DEF Freed, LargeOwned
<1>3. heap' \in [Object -> {"free", "live", "corrupt"}]
  BY <1>1, <1>2 DEF Freed
<1>4. 1..Len(large') = {}
  OBVIOUS
<1>5. Hung' = {}
  BY <1>4 DEF Hung
<1>6. LargeOwned'
  BY <1>2, <1>4, <1>5 DEF LargeOwned, NodesReserved
<1> QED BY <1>2, <1>3, <1>6

\* A chain without allocations.
LEMMA EmptyRoom ==
  ASSUME small' = {}, Filled(blocks')
  PROVE  RoomInv' /\ small' \in SUBSET [block : Nat, from : Nat, to : Nat]
  BY DEF RoomInv, Below, Disjoint, Filled

\* ngx_reset_pool.
LEMMA ResetInv == ASSUME PoolInv, Reset PROVE PoolInv'
<1> DEFINE n == Len(blocks)
           b == [last |-> PoolHeader, failed |-> 0]
<1>1. /\ ~NoPool /\ heap' = Freed(heap, Hung) /\ current' = 1 /\ large' = <<>>
      /\ small' = {} /\ longest' = n /\ tries' = tries
      /\ blocks' = [i \in 1..n |-> b]
  BY DEF Reset
<1>2. n \in Nat /\ n > 0 /\ tries \in Nat
  BY <1>1 DEF PoolInv, Typed, NoPool
<1>3. /\ PoolHeader \in Nat /\ PoolSize \in Nat /\ DataHeader <= PoolHeader
      /\ PoolHeader <= PoolSize
  BY SizesAssumption
<1>4. b \in Block /\ b.last = PoolHeader /\ b.failed = 0
  BY <1>3 DEF Block
<1> HIDE DEF n, b
<1>5. blocks' \in Seq(Block) /\ Len(blocks') = n /\ \A i \in 1..n : blocks'[i] = b
  BY <1>1, <1>2, <1>4
<1>6. Filled(blocks')
  BY <1>3, <1>4, <1>5 DEF Filled
<1>7. FailedExact'
  BY <1>1, <1>2, <1>4, <1>5 DEF FailedExact
<1>8. blocks' # <<>>
  BY <1>2, <1>5
<1>9. RoomInv' /\ small' \in SUBSET [block : Nat, from : Nat, to : Nat]
  BY <1>1, <1>6, EmptyRoom
<1>10. LargeOwned' /\ heap' \in [Object -> {"free", "live", "corrupt"}]
  BY <1>1, AllFreed
<1>11. large' \in Seq([block : Nat, from : Nat, alloc : Object \cup {NoObject}])
  BY <1>1
<1>12. Typed'
  BY <1>1, <1>2, <1>5, <1>8, <1>9, <1>10, <1>11 DEF Typed, NoPool
<1> QED BY <1>7, <1>9, <1>10, <1>12 DEF PoolInv

\* ngx_destroy_pool.
LEMMA DestroyInv == ASSUME PoolInv, Destroy PROVE PoolInv'
<1>1. /\ heap' = Freed(heap, Hung) /\ current' = 0 /\ large' = <<>>
      /\ small' = {} /\ longest' = 0 /\ tries' = tries /\ blocks' = <<>>
  BY DEF Destroy
<1>2. Len(blocks') = 0 /\ blocks' \in Seq(Block) /\ 1..Len(blocks') = {}
  BY <1>1
<1>3. Filled(blocks') /\ FailedExact'
  BY <1>1, <1>2 DEF Filled, FailedExact, NoPool
<1>4. RoomInv' /\ small' \in SUBSET [block : Nat, from : Nat, to : Nat]
  BY <1>1, <1>3, EmptyRoom
<1>5. /\ LargeOwned' /\ heap' \in [Object -> {"free", "live", "corrupt"}]
      /\ large' \in Seq([block : Nat, from : Nat, alloc : Object \cup {NoObject}])
  BY <1>1, AllFreed
<1>6. tries \in Nat
  BY DEF PoolInv, Typed
<1>7. Typed'
  BY <1>1, <1>2, <1>4, <1>5, <1>6 DEF Typed, NoPool
<1> QED BY <1>3, <1>4, <1>5, <1>7 DEF PoolInv

\* ngx_create_pool.
LEMMA CreateInv == ASSUME PoolInv, Create PROVE PoolInv'
<1> DEFINE b == [last |-> PoolHeader, failed |-> 0]
<1>1. /\ NoPool /\ blocks' = <<b>> /\ current' = 1 /\ longest' = 1
      /\ UNCHANGED <<large, heap, small, tries>>
  BY DEF Create
<1>2. /\ PoolHeader \in Nat /\ PoolSize \in Nat /\ DataHeader <= PoolHeader
      /\ PoolHeader <= PoolSize
  BY SizesAssumption
<1>3. b \in Block /\ b.last = PoolHeader /\ b.failed = 0
  BY <1>2 DEF Block
<1> HIDE DEF b
<1>4. blocks' \in Seq(Block) /\ Len(blocks') = 1 /\ blocks'[1] = b
  BY <1>1, <1>3
<1>5. Filled(blocks')
  BY <1>2, <1>3, <1>4 DEF Filled
<1>6. FailedExact'
  BY <1>1, <1>3, <1>4 DEF FailedExact
<1>7. small = {}
  BY <1>1 DEF PoolInv, RoomInv, Below, NoPool
<1>8. RoomInv' /\ small' \in SUBSET [block : Nat, from : Nat, to : Nat]
  BY <1>1, <1>5, <1>7, EmptyRoom
<1>9. LargeOwned'
  BY <1>1 DEF PoolInv, LargeOwned, NodesReserved, Hung
<1>10. Typed'
  BY <1>1, <1>4, <1>8 DEF PoolInv, Typed, NoPool
<1> QED BY <1>6, <1>8, <1>9, <1>10 DEF PoolInv

\* There is no pool at first.
LEMMA InitPoolInv == Init => PoolInv
<1> SUFFICES ASSUME Init PROVE PoolInv
  OBVIOUS
<1>1. /\ Len(blocks) = 0 /\ 1..Len(blocks) = {} /\ 1..Len(large) = {}
      /\ blocks \in Seq(Block)
      /\ large \in Seq([block : Nat, from : Nat, alloc : Object \cup {NoObject}])
  BY DEF Init
<1>2. Typed
  BY <1>1 DEF Init, Typed, NoPool
<1>3. RoomInv
  BY <1>1 DEF Init, RoomInv, Filled, Below, Disjoint
<1>4. Hung = {}
  BY <1>1 DEF Hung
<1>5. LargeOwned
  BY <1>1, <1>4 DEF Init, LargeOwned, NodesReserved
<1>6. FailedExact
  BY <1>1 DEF Init, FailedExact, NoPool
<1> QED BY <1>2, <1>3, <1>5, <1>6 DEF PoolInv

\* Every call of the interface keeps the invariant.
LEMMA NextPoolInv == Aligned /\ PoolInv /\ [Next]_vars => PoolInv'
<1> SUFFICES ASSUME Aligned, PoolInv, [Next]_vars PROVE PoolInv'
  OBVIOUS
<1>1. ASSUME NEW o \in Object, Pmemalign(o) PROVE PoolInv'
  <2>1. ~NoPool /\ heap[o] = "free" /\ HangNew(o) /\ longest' = longest /\ tries' = tries
    BY <1>1 DEF Pmemalign
  <2>2. tries \in Nat
    BY DEF PoolInv, Typed
  <2> QED BY <2>1, <2>2, HangNewInv
<1>2. CASE UNCHANGED vars
  BY <1>2 DEF PoolInv, Typed, RoomInv, Filled, Below, Disjoint, LargeOwned,
              NodesReserved, Hung, FailedExact, NoPool, vars
<1> QED BY <1>1, <1>2, CreateInv, ResetInv, DestroyInv, PallocSmallInv,
           PallocLargeInv, PfreeInv DEF Next

\* The invariant always holds.
LEMMA PoolInvariance == ASSUME Aligned PROVE Spec => []PoolInv
<1>1. Aligned => (PoolInv /\ [Next]_vars => PoolInv')
  BY NextPoolInv
<1>2. PoolInv /\ [Next]_vars => PoolInv'
  BY <1>1
<1> QED BY <1>2, InitPoolInv, PTL DEF Spec

-----------------------------------------------------------------------------
(* Theorems.                                                               *)

\* No two allocations since the last reset share a byte, and each fits its
\* block, in pools of any size that is a multiple of Align
\* (mem_pool_palloc.c:162-173, :206-208).
THEOREM AllocationsAreSeparate == ASSUME Aligned PROVE Spec => []Separate
<1>1. PoolInv => Separate
  <2> SUFFICES ASSUME PoolInv PROVE Separate
    OBVIOUS
  <2>1. \A a \in small : blocks[a.block].last <= PoolSize
    BY DEF PoolInv, RoomInv, Filled, Below
  <2>2. Enough
    BY <2>1 DEF PoolInv, RoomInv, Below, Enough
  <2>3. ASSUME NEW i \in 1..Len(large)
        PROVE  large[i].block \in 1..Len(blocks) /\ large[i].alloc \in Object \cup {NoObject}
    <3>1. [block |-> large[i].block, from |-> large[i].from,
           to |-> large[i].from + NodeSize] \in small
      BY DEF PoolInv, LargeOwned, NodesReserved
    <3>2. large[i].block \in 1..Len(blocks)
      BY <3>1 DEF PoolInv, RoomInv, Below
    <3> DEFINE NodeSet == [block : Nat, from : Nat, alloc : Object \cup {NoObject}]
    <3>3. large \in Seq(NodeSet)
      BY DEF PoolInv, Typed
    <3>4. large[i] \in NodeSet
      <4> HIDE DEF NodeSet
      <4> QED BY <3>3
    <3> QED BY <3>2, <3>4
  <2>4. TypeOK
    BY <2>3 DEF PoolInv, Typed, TypeOK, Block
  <2> QED BY <2>2, <2>4 DEF PoolInv, RoomInv, Separate
<1> QED BY <1>1, PoolInvariance, PTL

\* Every live large object hangs on one node of the list, which is nobody
\* else's memory, and nothing is freed twice (mem_pool_palloc.c:83-87,
\* :108-112, :237-261, :296-303).
THEOREM LargeAreOwned == ASSUME Aligned PROVE Spec => []LargeOwned
<1>1. PoolInv => LargeOwned
  BY DEF PoolInv
<1> QED BY <1>1, PoolInvariance, PTL

\* A search looks at seven blocks at most, or at five more than the pool had
\* when it was reset (mem_pool_palloc.c:159-178, :210-214).
THEOREM SearchesAreShort == ASSUME Aligned PROVE Spec => []SearchIsShort
<1>1. PoolInv => SearchIsShort
  <2> SUFFICES ASSUME PoolInv PROVE SearchIsShort
    OBVIOUS
  <2> DEFINE n == Len(blocks)
  <2>1. n \in Nat /\ current \in 0..n /\ longest \in Nat /\ (NoPool <=> current = 0)
    BY DEF PoolInv, Typed
  <2>2. CASE NoPool
    <3>1. n = 0 /\ 1..n = {}
      BY <2>2 DEF NoPool
    <3> QED BY <2>1, <2>2, <3>1 DEF SearchIsShort, FailedDecreases
  <2>3. CASE ~NoPool
    <3>1. /\ longest \in 1..n
          /\ \A i \in 1..n : current <= i =>
                blocks[i].failed = IF i < longest THEN n - longest
                                   ELSE IF i < n THEN n - 1 - i ELSE 0
          /\ blocks[current].failed <= 5
      BY <2>3 DEF PoolInv, FailedExact
    <3> HIDE DEF n
    <3>2. \A i \in 1..n : \A j \in i..n :
             current <= i => blocks[j].failed <= blocks[i].failed
      BY <2>1, <3>1
    <3>3. n - current + 1 <= IF longest > 2 THEN longest + 5 ELSE 7
      BY <2>1, <2>3, <3>1
    <3> QED BY <3>2, <3>3 DEF SearchIsShort, FailedDecreases, n
  <2> QED BY <2>2, <2>3
<1> QED BY <1>1, PoolInvariance, PTL

=============================================================================
