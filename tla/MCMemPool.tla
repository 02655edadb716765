------------------------------ MODULE MCMemPool ------------------------------
(***************************************************************************)
(* Two small pools for TLC, with the sizes of the 64-bit build: one with   *)
(* odd sizes and large objects, and Long, with none of them but more       *)
(* blocks.  A behaviour is one of the first or one of the second.          *)
(***************************************************************************)
EXTENDS MemPool, TLC

VARIABLES isLong, lblocks, lcurrent, llarge, lheap, lsmall, ltries, llongest

Long == INSTANCE MemPool WITH
    PoolSize <- 88, Size <- {20, 32}, Object <- {}, MaxBlocks <- 8,
    blocks <- lblocks, current <- lcurrent, large <- llarge, heap <- lheap,
    small <- lsmall, tries <- ltries, longest <- llongest

longVars == <<lblocks, lcurrent, llarge, lheap, lsmall, ltries, llongest>>

MCInit == isLong \in BOOLEAN /\ Init /\ Long!Init

MCNext ==
    \/ ~isLong /\ Next /\ UNCHANGED <<isLong, longVars>>
    \/ isLong /\ Long!Next /\ UNCHANGED <<isLong, vars>>

MCSpec == MCInit /\ [][MCNext]_<<isLong, vars, longVars>>

Symmetry == Permutations(Object)

\* SearchIsShort of the longer pool: a search looks at a few blocks only, and
\* the first of them have failed most (mem_pool_palloc.c:159-178, :210-214).
LongSearchIsShort == Long!SearchIsShort
=============================================================================
