------------------------------- MODULE Arena -------------------------------
(***************************************************************************)
(* The arena of arena.c: memory is handed out from the newest block, and a *)
(* new block is allocated when a request does not fit there.  Nothing is   *)
(* freed but the whole arena.  Offsets are from a block's data, which      *)
(* malloc aligns for every type.  Sizes are far below SIZE_MAX: no sum     *)
(* here wraps.                                                             *)
(***************************************************************************)
EXTENDS Integers, Sequences

CONSTANTS BlockSize,   \* arena->block_size (4096)
          Sizes,       \* the sizes asked for
          Alignments   \* _Alignof of the types stored

ASSUME ArenaAssumption ==
  /\ BlockSize \in Nat \ {0}
  /\ Sizes \subseteq Nat \ {0}
  /\ Alignments \subseteq {1, 2, 4, 8}

VARIABLES blocks,    \* the blocks, the head of the code's list last
          reserved,  \* arena->total_reserved
          objects    \* what was handed out since the last reset

arenaVars == <<blocks, reserved, objects>>

Newest == blocks[Len(blocks)]
MaxSize(x, y) == IF x > y THEN x ELSE y

\* Deliberately wrong variant: rounds down.
AlignDown(value, alignment) == value - (value % alignment)

\* (value + mask) & ~mask, for a power of two.
wirble_align_up(value, alignment) ==
  (value + alignment - 1) - ((value + alignment - 1) % alignment)

Object(block, start, size, alignment) ==
  [block |-> block, start |-> start, size |-> size, alignment |-> alignment]

FitsHead(size, alignment) ==
  /\ blocks # <<>>
  /\ wirble_align_up(Newest.used, alignment) + size <= Newest.capacity

ArenaInit == blocks = <<>> /\ reserved = 0 /\ objects = {}

\* wirble_arena_alloc_from when the head has room.
AllocInHead(size, alignment) ==
  LET start == wirble_align_up(Newest.used, alignment) IN
  /\ FitsHead(size, alignment)
  /\ blocks' = [blocks EXCEPT ![Len(blocks)].used = start + size]
  /\ objects' = objects \cup {Object(Len(blocks), start, size, alignment)}
  /\ UNCHANGED reserved

\* wirble_arena_alloc_from when it has not: the rest of the old head is lost.
AllocInNewBlock(size, alignment) ==
  LET capacity == MaxSize(BlockSize, size + alignment) IN
  /\ ~FitsHead(size, alignment)
  /\ blocks' = Append(blocks, [capacity |-> capacity, used |-> size])
  /\ reserved' = reserved + capacity
  /\ objects' = objects \cup {Object(Len(blocks) + 1, 0, size, alignment)}

wirble_arena_alloc_from(size, alignment) ==
  AllocInHead(size, alignment) \/ AllocInNewBlock(size, alignment)

wirble_arena_reset == blocks' = <<>> /\ reserved' = 0 /\ objects' = {}

ArenaNext ==
  \/ \E size \in Sizes, alignment \in Alignments : wirble_arena_alloc_from(size, alignment)
  \/ wirble_arena_reset

ArenaSpec == ArenaInit /\ [][ArenaNext]_arenaVars

-----------------------------------------------------------------------------
ArenaTypeOK ==
  /\ blocks \in Seq([capacity : Nat, used : Nat])
  /\ reserved \in Nat
  /\ objects \subseteq [block : Nat \ {0}, start : Nat, size : Nat \ {0}, alignment : {1, 2, 4, 8}]

EndOf(o) == o.start + o.size

\* Every object lies inside the used part of a block that exists.
Inside ==
  \A o \in objects :
    o.block \in 1..Len(blocks) /\ EndOf(o) <= blocks[o.block].used

\* No block is used beyond its capacity.
WithinCapacity == \A b \in 1..Len(blocks) : blocks[b].used <= blocks[b].capacity

\* No two objects overlap.
Disjoint ==
  \A o, p \in objects :
    o # p /\ o.block = p.block => EndOf(o) <= p.start \/ EndOf(p) <= o.start

Aligned == \A o \in objects : o.start % o.alignment = 0

\* wirble_arena_alloc_from, however the sizes and alignments follow each
\* other and wherever blocks end: what was handed out since the last reset is
\* aligned, inside its block's memory, and shared with no other object.
ArenaSound == Inside /\ WithinCapacity /\ Disjoint /\ Aligned
=============================================================================
