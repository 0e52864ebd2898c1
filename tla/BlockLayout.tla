---------------------------- MODULE BlockLayout ----------------------------
(***************************************************************************)
(* From the blocks of MAL functions to one instruction stream.             *)
(*                                                                         *)
(* mal_compute_cfg fills in the successors and predecessors of a           *)
(* function's blocks, a block at a time; the caller decides when, and may  *)
(* add instructions before and after.  mdsLowerFromMAL and tosBuildFromMDS *)
(* copy the blocks of all functions, whose ids count from 0 in every       *)
(* function, into one program, and tosFinalizeProgram puts them in reverse *)
(* postorder: a depth-first search from block 0, then from every block     *)
(* not seen yet.  The WVM starts at the first instruction of the stream.   *)
(*                                                                         *)
(* The selector has a pattern for every instruction.  The built-in tables  *)
(* have none for branches, which a caller has to add with mdsAddPattern;   *)
(* returns and straight-line code need nothing.                            *)
(*                                                                         *)
(* Blocks are named by their position, from 1, among the blocks of all     *)
(* functions; a successor list holds the ids the code stores.              *)
(***************************************************************************)
EXTENDS Integers, Sequences, FiniteSetsExt, SequencesExt

CONSTANTS Programs,   \* initial blocks: sequences of [fn, id, term]
          Endings,    \* terminators the caller may add later
          MaxEdits    \* bound: instructions added

\* The last instruction of a block is a record [op, targets]: "NONE" is any
\* that is no terminator, "EMPTY" means that the block has no instruction.
Terms == {t \in [op : {"EMPTY", "NONE", "RET", "BR", "CBR"}, targets : Seq(Nat)] :
            Len(t.targets) = IF t.op = "CBR" THEN 2 ELSE IF t.op = "BR" THEN 1 ELSE 0}

\* mal_block_create numbers the blocks of a function, and the blocks of a
\* function follow each other in the program.
ASSUME ProgramsAssumption ==
  \A p \in Programs :
    /\ p \in Seq([fn : Nat, id : Nat, term : Terms])
    /\ \A b, c \in DOMAIN p : p[b].fn = p[c].fn =>
         /\ b # c => p[b].id # p[c].id
         /\ \A d \in b..c : p[d].fn = p[b].fn
ASSUME EditsAssumption == Endings \subseteq Terms /\ MaxEdits \in Nat

VARIABLES blocks,     \* [fn, id, term, n]: n instructions, the last is term
          edits,      \* instructions added by the caller
          succs, preds,  \* block -> ids of its successors, predecessors
          fresh,      \* functions not changed since their mal_compute_cfg
          cursor,     \* the block mal_compute_cfg has come to; 0 outside it
          phase,      \* "mal", "layout" or "done"
          dfs,        \* visit_block's stack: [block, next], the top first
          seen, postorder,
          stream,     \* program->instructions: [block, blockId, order, id]
          layout      \* program->blocks: [block, id, layoutIndex, first, n]

vars == <<blocks, edits, succs, preds, fresh, cursor, phase, dfs, seen, postorder, stream, layout>>

Blocks == DOMAIN blocks
FunctionOf(b) == {c \in Blocks : blocks[c].fn = blocks[b].fn}

Size(term) == IF term.op = "EMPTY" THEN 0 ELSE 1

Init ==
  /\ \E p \in Programs : blocks = [b \in DOMAIN p |->
       [fn |-> p[b].fn, id |-> p[b].id, term |-> p[b].term, n |-> Size(p[b].term)]]
  /\ edits = 0
  /\ succs = [b \in Blocks |-> <<>>] /\ preds = [b \in Blocks |-> <<>>]
  /\ fresh = {} /\ cursor = 0 /\ phase = "mal"
  /\ dfs = <<>> /\ seen = {} /\ postorder = <<>> /\ stream = <<>> /\ layout = <<>>

-----------------------------------------------------------------------------
(* The control-flow graph.                                                 *)

\* mal_block_insert_end: the new instruction ends the block, and the edges of
\* its function are out of date.
mal_block_insert_end(b, term) ==
  /\ phase = "mal" /\ cursor = 0 /\ edits < MaxEdits
  /\ blocks' = [blocks EXCEPT ![b].term = term, ![b].n = @ + 1]
  /\ edits' = edits + 1
  /\ fresh' = fresh \ {blocks[b].fn}
  /\ UNCHANGED <<succs, preds, cursor, phase, dfs, seen, postorder, stream, layout>>

mal_compute_cfg(b) ==
  /\ phase = "mal" /\ cursor = 0 /\ b = Min(FunctionOf(b))
  /\ cursor' = b
  /\ UNCHANGED <<blocks, edits, succs, preds, fresh, phase, dfs, seen, postorder, stream, layout>>

\* mal_block_by_id: the block of b's function with the id, in a sequence; the
\* empty one if there is none.
EdgeTo(b, id) ==
  LET named == {c \in FunctionOf(b) : blocks[c].id = id}
  IN IF named = {} THEN <<>> ELSE <<Min(named)>>

\* The blocks the last instruction of b leads to; targets that do not exist
\* have no edge, and neither has an empty block.
EdgesOf(b) ==
  LET term == blocks[b].term
  IN CASE term.op = "BR" -> EdgeTo(b, term.targets[1])
       [] term.op = "CBR" -> EdgeTo(b, term.targets[1]) \o EdgeTo(b, term.targets[2])
       [] term.op = "NONE" /\ b + 1 \in FunctionOf(b) -> <<b + 1>>
       [] OTHER -> <<>>

\* The successor list the edges of b make.
SuccsAfter(b) == [j \in DOMAIN EdgesOf(b) |-> blocks[EdgesOf(b)[j]].id]

\* How often x occurs in s.
Count(s, x) == Cardinality({j \in DOMAIN s : s[j] = x})

\* Deliberately wrong variant: old predecessors are kept.
PredsKept(b, c) == preds[c] \o [j \in 1..Count(EdgesOf(b), c) |-> blocks[b].id]

\* The predecessors of c after one iteration: those of block b are dropped,
\* then its own edges are added.
PredsAfter(b, c) ==
  (IF c = b THEN <<>> ELSE preds[c]) \o [j \in 1..Count(EdgesOf(b), c) |-> blocks[b].id]

\* One iteration of mal_compute_cfg.
CfgBlock ==
  /\ cursor # 0
  /\ succs' = [succs EXCEPT ![cursor] = SuccsAfter(cursor)]
  /\ preds' = [c \in Blocks |-> PredsAfter(cursor, c)]
  /\ IF cursor + 1 \in FunctionOf(cursor)
     THEN cursor' = cursor + 1 /\ UNCHANGED fresh
     ELSE cursor' = 0 /\ fresh' = fresh \cup {blocks[cursor].fn}
  /\ UNCHANGED <<blocks, edits, phase, dfs, seen, postorder, stream, layout>>

-----------------------------------------------------------------------------
(* The layout.                                                             *)

Instrs(b) == [j \in 1..blocks[b].n |-> [block |-> b, blockId |-> blocks[b].id, order |-> j - 1, id |-> 0]]

\* The sum of the first i - 1 sizes: the instructions before the i-th block.
Before(sizes, i) == Cardinality(UNION {{k} \X (1..sizes[k]) : k \in 1..(i - 1)})

Sizes(order) == [i \in DOMAIN order |-> blocks[order[i]].n]

\* The instructions code[b] of the blocks in the given order; each gets its
\* position in the stream, from 0, as its id.
Concatenated(order, code) ==
  [k \in 1..Before(Sizes(order), Len(order) + 1) |->
     LET Start(i) == Before(Sizes(order), i)
         i == CHOOSE i \in DOMAIN order : k \in (Start(i) + 1)..(Start(i) + Sizes(order)[i])
     IN [code[order[i]][k - Start(i)] EXCEPT !.id = k - 1]]

TOS_INVALID_INSTR == -1

\* Their descriptors: where each block begins.
Descriptors(order) ==
  [i \in DOMAIN order |->
     [block |-> order[i], id |-> blocks[order[i]].id, layoutIndex |-> i - 1, n |-> Sizes(order)[i],
      first |-> IF Sizes(order)[i] = 0 THEN TOS_INVALID_INSTR ELSE Before(Sizes(order), i)]]

\* mdsLowerFromMAL and tosBuildFromMDS: all blocks, as they are.
Lower ==
  /\ phase = "mal" /\ cursor = 0
  /\ phase' = "layout"
  /\ stream' = Concatenated([b \in Blocks |-> b], [b \in Blocks |-> Instrs(b)])
  /\ layout' = Descriptors([b \in Blocks |-> b])
  /\ UNCHANGED <<blocks, edits, succs, preds, fresh, cursor, dfs, seen, postorder>>

\* The first block of the program with the id: 0 if there is none.
tos_find_block_index(id) ==
  LET found == {b \in Blocks : blocks[b].id = id} IN IF found = {} THEN 0 ELSE Min(found)

\* Deliberately wrong variant: the block is not marked.
EnterUnmarked(b, rest) == dfs' = <<[block |-> b, next |-> 1]>> \o rest /\ UNCHANGED seen

Enter(b, rest) == dfs' = <<[block |-> b, next |-> 1]>> \o rest /\ seen' = seen \cup {b}

FirstUnseen == Min(Blocks \ seen)

\* compute_layout_order: a new search from the first block not seen.
VisitRoot ==
  /\ phase = "layout" /\ dfs = <<>> /\ seen # Blocks
  /\ Enter(FirstUnseen, <<>>)
  /\ UNCHANGED <<blocks, edits, succs, preds, fresh, cursor, phase, postorder, stream, layout>>

\* Deliberately wrong variant: the same successor again.
AdvanceNot(frame) == frame

Advance(frame) == [frame EXCEPT !.next = @ + 1]

\* visit_block: the next successor of the block on top.
VisitSuccessor ==
  /\ phase = "layout" /\ dfs # <<>>
  /\ LET top == Head(dfs) IN
     /\ top.next <= Len(succs[top.block])
     /\ LET s == tos_find_block_index(succs[top.block][top.next])
            rest == <<Advance(top)>> \o Tail(dfs)
        IN \/ s \in Blocks \ seen /\ Enter(s, rest)
           \/ s \notin Blocks \ seen /\ dfs' = rest /\ UNCHANGED seen
  /\ UNCHANGED <<blocks, edits, succs, preds, fresh, cursor, phase, postorder, stream, layout>>

\* visit_block: the block on top is finished.
VisitDone ==
  /\ phase = "layout" /\ dfs # <<>>
  /\ Head(dfs).next > Len(succs[Head(dfs).block])
  /\ postorder' = Append(postorder, Head(dfs).block)
  /\ dfs' = Tail(dfs)
  /\ UNCHANGED <<blocks, edits, succs, preds, fresh, cursor, phase, seen, stream, layout>>

\* Deliberately wrong variants: without its last block; not reversed.
DropLast == Reverse(Front(postorder)) \o <<Head(postorder)>>
PlainPostorder == postorder

\* The postorder backwards.
LayoutOrder == Reverse(postorder)

\* The instructions of the i-th block of the old layout, from the old stream.
Source(i) ==
  [j \in 1..layout[i].n |-> [stream[layout[i].first + j] EXCEPT !.order = j - 1]]

\* rebuild_instruction_stream and the end of tosFinalizeProgram.
Rebuild ==
  /\ phase = "layout" /\ dfs = <<>> /\ seen = Blocks
  /\ stream' = Concatenated(LayoutOrder, [b \in Blocks |-> Source(b)])
  /\ layout' = Descriptors(LayoutOrder)
  /\ phase' = "done"
  /\ UNCHANGED <<blocks, edits, succs, preds, fresh, cursor, dfs, seen, postorder>>

\* tosValidateProgram: blocks begin where the block before ends, and every
\* instruction knows its place.
tosValidateProgram ==
  LET instCursor(i) == Before([k \in DOMAIN layout |-> layout[k].n], i) IN
  /\ \A i \in DOMAIN layout :
       /\ layout[i].layoutIndex = i - 1
       /\ layout[i].first = IF layout[i].n = 0 THEN TOS_INVALID_INSTR ELSE instCursor(i)
       /\ \A j \in 1..layout[i].n :
            LET inst == stream[instCursor(i) + j] IN
            /\ inst.id = instCursor(i) + j - 1 /\ inst.order = j - 1
            /\ inst.blockId = layout[i].id
  /\ instCursor(Len(layout) + 1) = Len(stream)

-----------------------------------------------------------------------------
Caller ==
  \/ \E b \in Blocks : mal_compute_cfg(b) \/ \E term \in Endings : mal_block_insert_end(b, term)
  \/ Lower

Next == Caller \/ CfgBlock \/ VisitRoot \/ VisitSuccessor \/ VisitDone \/ Rebuild

Spec == Init /\ [][Next]_vars
FairSpec == Spec /\ WF_vars(VisitRoot \/ VisitSuccessor \/ VisitDone \/ Rebuild)

-----------------------------------------------------------------------------
(* Properties.                                                             *)

Position(b) == CHOOSE i \in DOMAIN layout : layout[i].block = b

\* The edges of the program as the search follows them.
Leads(b, c) == \E j \in DOMAIN succs[b] : tos_find_block_index(succs[b][j]) = c

\* The blocks that can be reached from b.
Reach(b) ==
  LET Closed(S) == \A a \in S, c \in Blocks : Leads(a, c) => c \in S
  IN {c \in Blocks : \A S \in SUBSET Blocks : b \in S /\ Closed(S) => c \in S}

\* Types; the blocks seen are the ones on the stack and the ones finished.
TypeOK ==
  /\ phase \in {"mal", "layout", "done"} /\ cursor \in {0} \cup Blocks /\ edits \in 0..MaxEdits
  /\ \A b \in Blocks : /\ Range(succs[b]) \cup Range(preds[b]) \subseteq {c.id : c \in Range(blocks)}
                        /\ blocks[b].n \in Nat
  /\ fresh \subseteq {c.fn : c \in Range(blocks)}
  /\ \A i \in DOMAIN dfs : dfs[i].next \in 1..(Len(succs[dfs[i].block]) + 1)
  /\ seen = Range(postorder) \cup {f.block : f \in Range(dfs)} /\ seen \subseteq Blocks
  /\ Cardinality(seen) = Len(postorder) + Len(dfs)

\* After mal_compute_cfg the successors listed are the edges of the function as
\* it is now, and every predecessor listed is one: nothing is left over from
\* before a change and no edge is listed twice.  The edges that close a loop,
\* from the block itself or a later one, are all listed.
PredsSound ==
  cursor = 0 => \A b \in Blocks : blocks[b].fn \in fresh =>
    /\ succs[b] = SuccsAfter(b)
    /\ \A p \in FunctionOf(b) :
         /\ Count(preds[b], blocks[p].id) <= Count(EdgesOf(p), b)
         /\ p >= b => Count(preds[b], blocks[p].id) = Count(EdgesOf(p), b)
    /\ \A j \in DOMAIN preds[b] : \E p \in FunctionOf(b) : blocks[p].id = preds[b][j]

\* What the documentation says of a basic block, that it has its predecessors:
\* every edge to it is listed.  The iteration for a block frees its list, with
\* the edges that earlier blocks have added to it.
PredsListed ==
  cursor = 0 => \A b \in Blocks : blocks[b].fn \in fresh =>
    \A p \in FunctionOf(b) : Count(preds[b], blocks[p].id) = Count(EdgesOf(p), b)

\* The final stream has every instruction of every block once, a block's
\* together and in their order: duplicate ids, cycles, empty and unreachable
\* blocks lose nothing.  tosValidateProgram accepts it, and what
\* tosBuildFromMDS made before it.
LayoutComplete ==
  /\ phase # "mal" => tosValidateProgram
  /\ phase = "done" =>
      /\ Len(layout) = Len(blocks) /\ {d.block : d \in Range(layout)} = Blocks
      /\ \A b \in Blocks : LET first == layout[Position(b)].first IN
           /\ {k \in DOMAIN stream : stream[k].block = b} = (first + 1)..(first + blocks[b].n)
           /\ \A j \in 1..blocks[b].n : stream[first + j].order = j - 1

\* The layout is a reverse postorder: a block comes before its successors,
\* unless the edge closes a cycle, and the stream, which the WVM executes from
\* its first instruction, starts with the entry block of the first function if
\* all blocks can be reached from it (blocks that cannot are put before it).
SuccessorsFollow ==
  phase = "done" =>
    /\ \A b, c \in Blocks : Leads(b, c) /\ b \notin Reach(c) => Position(b) < Position(c)
    /\ 1 \in Blocks /\ Reach(1) = Blocks => Position(1) = 1

\* The search ends, whatever cycles the blocks have.
Finishes == (phase = "layout") ~> (phase = "done")
=============================================================================
