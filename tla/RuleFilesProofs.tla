-------------------------- MODULE RuleFilesProofs --------------------------
(***************************************************************************)
(* Proofs about RuleFiles and the arena below it: for any files and any    *)
(* writer, and wherever an allocation fails.                               *)
(***************************************************************************)
EXTENDS RuleFiles, NumberFacts, SequenceTheorems

-----------------------------------------------------------------------------
(* The arena.  ArenaSound is inductive with the types: the end of the used *)
(* part of a block bounds all objects in it, so that an object put behind  *)
(* it meets none of them.                                                  *)

ArenaInv == ArenaTypeOK /\ ArenaSound

\* What wirble_align_up returns: a multiple of the alignment that is not
\* below the value.
LEMMA AlignUp ==
  ASSUME NEW value \in Nat, NEW alignment \in {1, 2, 4, 8}
  PROVE  /\ wirble_align_up(value, alignment) \in Nat
         /\ wirble_align_up(value, alignment) >= value
         /\ wirble_align_up(value, alignment) % alignment = 0
<1>1. CASE alignment = 1 BY <1>1 DEF wirble_align_up
<1>2. CASE alignment = 2 BY <1>2 DEF wirble_align_up
<1>3. CASE alignment = 4 BY <1>3 DEF wirble_align_up
<1>4. CASE alignment = 8 BY <1>4 DEF wirble_align_up
<1> QED BY <1>1, <1>2, <1>3, <1>4

\* Initially there is nothing.
LEMMA InitArena == ArenaInit => ArenaInv
BY DEF ArenaInit, ArenaInv, ArenaTypeOK, ArenaSound, Inside, WithinCapacity, Disjoint, Aligned

\* A request that fits the head is put behind all that is there.
LEMMA HeadStep ==
  ASSUME ArenaInv, NEW size \in Sizes, NEW alignment \in Alignments,
         AllocInHead(size, alignment)
  PROVE  ArenaInv'
<1> DEFINE n == Len(blocks)
           start == wirble_align_up(Newest.used, alignment)
           new == Object(n, start, size, alignment)
<1>1. /\ size \in Nat \ {0} /\ alignment \in {1, 2, 4, 8}
      /\ blocks \in Seq([capacity : Nat, used : Nat]) /\ blocks # <<>>
      /\ n \in 1..Len(blocks) /\ n \in Nat \ {0}
  BY ArenaAssumption DEF ArenaInv, ArenaTypeOK, AllocInHead, FitsHead
<1>2. Newest \in [capacity : Nat, used : Nat]
  BY <1>1, ElementOfSeq DEF Newest
<1>3. start \in Nat /\ start >= Newest.used /\ start % alignment = 0
  BY <1>1, <1>2, AlignUp
<1>4. /\ start + size <= Newest.capacity
      /\ blocks' = [blocks EXCEPT ![n] = [Newest EXCEPT !.used = start + size]]
      /\ objects' = objects \cup {new}
      /\ reserved' = reserved
  BY DEF AllocInHead, FitsHead, Newest
<1> HIDE DEF n, start
<1>5. /\ Len(blocks') = Len(blocks)
      /\ \A b \in 1..Len(blocks) : b # n => blocks'[b] = blocks[b]
      /\ blocks'[n] = [Newest EXCEPT !.used = start + size]
      /\ blocks' \in Seq([capacity : Nat, used : Nat])
  <2> DEFINE entry == [Newest EXCEPT !.used = start + size]
  <2>1. entry \in [capacity : Nat, used : Nat]
    <3>1. start + size \in Nat
      BY <1>1, <1>3
    <3> QED BY <3>1, <1>2
  <2> HIDE DEF entry
  <2>2. blocks' = [blocks EXCEPT ![n] = entry]
    BY <1>4 DEF entry
  <2>3. /\ blocks' \in Seq([capacity : Nat, used : Nat])
        /\ Len(blocks') = Len(blocks)
        /\ \A b \in 1..Len(blocks) : blocks'[b] = IF b = n THEN entry ELSE blocks[b]
    BY <1>1, <2>1, <2>2, ExceptSeq
  <2> QED BY <1>1, <2>3 DEF entry
<1>6. /\ blocks'[n].used = start + size
      /\ blocks'[n].capacity = Newest.capacity
      /\ blocks[n] = Newest
  BY <1>2, <1>5 DEF n, Newest
<1>7. new \in [block : Nat \ {0}, start : Nat, size : Nat \ {0}, alignment : {1, 2, 4, 8}]
  BY <1>1, <1>3 DEF Object
<1>8. ArenaTypeOK'
  BY <1>4, <1>5, <1>7 DEF ArenaInv, ArenaTypeOK
<1>9. Inside'
  <2> SUFFICES ASSUME NEW o \in objects'
               PROVE  o.block \in 1..Len(blocks') /\ EndOf(o) <= blocks'[o.block].used
    BY DEF Inside, EndOf
  <2>1. CASE o = new
    <3>1. o.block = n /\ EndOf(o) = start + size
      BY <2>1 DEF Object, EndOf
    <3> QED BY <3>1, <1>1, <1>3, <1>5, <1>6
  <2>2. CASE o \in objects
    <3>1. o.block \in 1..Len(blocks) /\ EndOf(o) <= blocks[o.block].used
      BY <2>2 DEF ArenaInv, ArenaSound, Inside
    <3>2. EndOf(o) \in Nat
      BY <2>2 DEF ArenaInv, ArenaTypeOK, EndOf
    <3>3. CASE o.block = n
      BY <3>1, <3>2, <3>3, <1>1, <1>2, <1>3, <1>5, <1>6
    <3>4. CASE o.block # n
      BY <3>1, <3>4, <1>5
    <3> QED BY <3>3, <3>4
  <2> QED BY <2>1, <2>2, <1>4
<1>10. WithinCapacity'
  BY <1>2, <1>3, <1>4, <1>5, <1>6 DEF ArenaInv, ArenaSound, WithinCapacity
<1>11. Disjoint'
  <2>1. \A o \in objects : o.block = n => EndOf(o) <= start
    BY <1>2, <1>3, <1>6 DEF ArenaInv, ArenaSound, ArenaTypeOK, Inside, EndOf
  <2>2. new.block = n /\ new.start = start
    BY DEF Object
  <2> QED BY <2>1, <2>2, <1>4 DEF ArenaInv, ArenaSound, Disjoint, EndOf
<1>12. Aligned'
  BY <1>3, <1>4 DEF ArenaInv, ArenaSound, Aligned, Object
<1> QED BY <1>8, <1>9, <1>10, <1>11, <1>12 DEF ArenaInv, ArenaSound

\* A request that does not fit has a block of its own to begin with.
LEMMA NewBlockStep ==
  ASSUME ArenaInv, NEW size \in Sizes, NEW alignment \in Alignments,
         AllocInNewBlock(size, alignment)
  PROVE  ArenaInv'
<1> DEFINE n == Len(blocks) + 1
           capacity == MaxSize(BlockSize, size + alignment)
           new == Object(n, 0, size, alignment)
<1>1. /\ size \in Nat \ {0} /\ alignment \in {1, 2, 4, 8}
      /\ capacity \in Nat /\ size <= capacity
      /\ blocks \in Seq([capacity : Nat, used : Nat]) /\ Len(blocks) \in Nat
  BY ArenaAssumption DEF ArenaInv, ArenaTypeOK, MaxSize
<1>2. /\ blocks' = Append(blocks, [capacity |-> capacity, used |-> size])
      /\ reserved' = reserved + capacity
      /\ objects' = objects \cup {new}
  BY DEF AllocInNewBlock
<1> HIDE DEF capacity
<1>3. /\ Len(blocks') = n
      /\ \A b \in 1..Len(blocks) : blocks'[b] = blocks[b]
      /\ blocks'[n] = [capacity |-> capacity, used |-> size]
      /\ blocks' \in Seq([capacity : Nat, used : Nat])
  BY <1>1, <1>2
<1>4. new \in [block : Nat \ {0}, start : Nat, size : Nat \ {0}, alignment : {1, 2, 4, 8}]
  BY <1>1 DEF Object
<1>5. ArenaTypeOK'
  BY <1>1, <1>2, <1>3, <1>4 DEF ArenaInv, ArenaTypeOK
<1>6. Inside'
  <2> SUFFICES ASSUME NEW o \in objects'
               PROVE  o.block \in 1..Len(blocks') /\ EndOf(o) <= blocks'[o.block].used
    BY DEF Inside, EndOf
  <2>1. CASE o = new
    BY <2>1, <1>1, <1>3 DEF Object, EndOf
  <2>2. CASE o \in objects
    <3>1. o.block \in 1..Len(blocks) /\ EndOf(o) <= blocks[o.block].used
      BY <2>2 DEF ArenaInv, ArenaSound, Inside
    <3>2. blocks'[o.block] = blocks[o.block]
      BY <3>1, <1>3
    <3>3. o.block \in 1..Len(blocks')
      <4>1. PICK k \in Nat : k = Len(blocks) /\ Len(blocks') = k + 1
        BY <1>1, <1>3
      <4> QED BY <3>1, <4>1
    <3> QED BY <3>1, <3>2, <3>3
  <2> QED BY <2>1, <2>2, <1>2
<1>7. WithinCapacity'
  <2> SUFFICES ASSUME NEW b \in 1..Len(blocks')
               PROVE  blocks'[b].used <= blocks'[b].capacity
    BY DEF WithinCapacity
  <2>1. CASE b = n
    BY <2>1, <1>1, <1>3
  <2>2. CASE b # n
    <3>1. b \in 1..Len(blocks)
      BY <2>2, <1>1, <1>3
    <3> QED BY <3>1, <1>3 DEF ArenaInv, ArenaSound, WithinCapacity
  <2> QED BY <2>1, <2>2
<1>8. Disjoint'
  <2>1. \A o \in objects : o.block # n
    BY <1>1 DEF ArenaInv, ArenaSound, Inside
  <2>2. new.block = n
    BY DEF Object
  <2> QED BY <2>1, <2>2, <1>2 DEF ArenaInv, ArenaSound, Disjoint, EndOf
<1>9. Aligned'
  BY <1>1, <1>2 DEF ArenaInv, ArenaSound, Aligned, Object
<1> QED BY <1>5, <1>6, <1>7, <1>8, <1>9 DEF ArenaInv, ArenaSound

\* wirble_arena_alloc_from and wirble_arena_reset keep the arena sound: for
\* every block size and every sequence of requests and resets, no two objects
\* handed out since the last reset overlap, and each is aligned and inside
\* its block.
THEOREM ArenaIsSound == ArenaSpec => []ArenaSound
<1>1. ArenaInit => ArenaInv
  BY InitArena
<1>2. ArenaInv /\ [ArenaNext]_arenaVars => ArenaInv'
  <2> SUFFICES ASSUME ArenaInv, [ArenaNext]_arenaVars PROVE ArenaInv'
    OBVIOUS
  <2>1. ASSUME NEW size \in Sizes, NEW alignment \in Alignments,
               wirble_arena_alloc_from(size, alignment)
        PROVE  ArenaInv'
    BY <2>1, HeadStep, NewBlockStep DEF wirble_arena_alloc_from
  <2>2. CASE wirble_arena_reset
    BY <2>2 DEF wirble_arena_reset, ArenaInv, ArenaTypeOK, ArenaSound, Inside,
                WithinCapacity, Disjoint, Aligned
  <2>3. CASE UNCHANGED arenaVars
    BY <2>3 DEF arenaVars, ArenaInv, ArenaTypeOK, ArenaSound, Inside,
                WithinCapacity, Disjoint, Aligned, EndOf
  <2> QED BY <2>1, <2>2, <2>3 DEF ArenaNext
<1>3. ArenaInv => ArenaSound
  BY DEF ArenaInv
<1> QED BY <1>1, <1>2, <1>3, PTL DEF ArenaSpec

-----------------------------------------------------------------------------
(* The inductive invariant of the loaders.                                 *)

Fields == {"stage", "attempts", "fellBack", "path", "buffer", "tree", "at", "form", "rules", "cap",
           "system", "systemCap", "strategy", "systemStrategy", "heap", "found", "valid"}
Stages == {"try", "read", "parse", "node", "text", "load", "form", "validate", "strategy", "apply",
           "use", "done", "crashed"}
Paths == {"path", "std/path", "std", "cwd"}

\* A tree that the parser may have made of a file.
Parsed(t) == \E text \in Texts(scenario) : IsTreeOf(t, wirble_sexp_wrap_input(text))

\* The writer has begun to write the file.
Edited(p) == p = scenario.edit.path /\ written >= 0

\* What has been read of a file that is open: the file as it was, or nothing of
\* it, and more only of a file that is being written.
BufferInv(l) ==
  /\ l.path \in DOMAIN disk /\ (l.path \in scenario.present \/ Edited(l.path))
  /\ \E old \in {<< >>} \cup {Tokens(scenario.files[p]) : p \in {l.path} \cap scenario.present} :
       \E n \in 0..Len(Tokens(scenario.edit.forms)) :
         l.buffer = Spliced(scenario, old, n) /\ (n > Len(old) => Edited(l.path))

\* What the search for a file and the reader have reached.
ReaderInv(l) ==
  /\ l.attempts \in Seq(Paths) /\ (l.stage = "try" => l.attempts # <<>>)
  /\ l.stage = "read" => BufferInv(l)
  /\ l.stage = "parse" => l.buffer \in Texts(scenario)
  /\ l.tree = NoTree \/ Parsed(l.tree)
  /\ l.stage \in {"node", "text", "load", "form"} => Parsed(l.tree)
  /\ l.at \in 0..Len(l.tree.text)
  /\ l.stage \in {"node", "text"} => l.at # 0
  /\ l.stage \in {"try", "read", "parse"} => l.at = 0

\* The arrays of rules.
ArrayInv(l) ==
  /\ l.form \in Nat /\ (l.stage = "form" => l.form # 0)
  /\ IsSeq(l.rules) /\ l.cap \in Nat /\ IsSeq(l.system) /\ l.systemCap \in Nat
  /\ ~OfMal => Len(l.rules) <= l.cap /\ Len(l.system) <= l.systemCap

\* Objects of the rules that are counted, or among the others given.
Within(heap, others, count) == \A h \in heap : h \in others \/ h[1] \in 1..count

\* What may be allocated at a stage.
HeapInv(l) ==
  /\ l.stage \in {"try", "read", "parse", "node", "text", "load"} => l.heap \subseteq {Storage}
  /\ l.stage = "form" => IF OfMal THEN Within(l.heap, {Storage, System, RuleArray}, Len(l.rules))
                         ELSE l.heap \subseteq {Storage, FileArray}
  /\ l.stage = "validate" => Loader = "validate" /\ l.heap \subseteq {FileArray}
  /\ l.stage = "strategy" => Loader \in {"wrs", "builtin"} /\ l.heap \subseteq {FileArray}
  /\ l.stage = "apply" => Loader \in {"wrs", "builtin"} /\ l.heap \subseteq {FileArray, RuleArray}
  /\ l.stage = "use" =>
       IF OfMal THEN Within(l.heap, {System, RuleArray}, Len(l.rules))
       ELSE l.heap \subseteq {RuleArray} \cup (IF Loader = "builtin" THEN {FileArray} ELSE {})
  /\ l.stage = "done" => l.heap \subseteq IF Loader = "builtin" THEN {FileArray} ELSE {}

LoaderInv(l) ==
  DOMAIN l = Fields /\ l.stage \in Stages /\ ReaderInv(l) /\ ArrayInv(l) /\ HeapInv(l)

DiskInv ==
  /\ scenario \in Scenarios
  /\ DOMAIN disk = DOMAIN scenario.files
  /\ \A p \in DOMAIN disk :
       disk[p] = IF Edited(p) THEN SubSeq(Tokens(scenario.edit.forms), 1, written)
                 ELSE IF p \in scenario.present THEN Tokens(scenario.files[p]) ELSE Missing
  /\ written \in -1..Len(Tokens(scenario.edit.forms))

\* The tree is destroyed when a file has been loaded, and when none can be.
TreeGone == {"validate", "strategy", "apply", "use", "done"}
BlocksInv == r.stage \in TreeGone => blocks = <<>>

IInv == DiskInv /\ LoaderInv(r) /\ BlocksInv

-----------------------------------------------------------------------------
(* Trees and the steps of loading a rule.                                  *)

\* A node's child is a node of the tree, or null.
LEMMA ChildFacts ==
  ASSUME NEW t, NEW s, IsTreeOf(t, s), NEW i \in 0..Len(t.text), NEW n \in Nat
  PROVE  /\ Len(t.text) \in Nat /\ wirble_sexp_node_child(t, i, n) \in 0..Len(t.text)
<1>1. Len(t.text) \in Nat /\ DOMAIN t.text = 1..Len(t.text)
  BY DEF IsTreeOf
<1>2. CASE i # 0 /\ n < Len(t.kids[i])
  <2>1. i \in DOMAIN t.text
    BY <1>1, <1>2
  <2>2. t.kids[i] \in Seq((i + 1)..Len(t.text))
    BY <2>1 DEF IsTreeOf
  <2>3. n + 1 \in 1..Len(t.kids[i])
    BY <1>2, <2>2
  <2>4. t.kids[i][n + 1] \in (i + 1)..Len(t.text)
    BY <2>2, <2>3
  <2> QED BY <1>1, <2>4 DEF wirble_sexp_node_child
<1>3. CASE ~(i # 0 /\ n < Len(t.kids[i]))
  BY <1>1, <1>3 DEF wirble_sexp_node_child, wirble_sexp_node_is_list
<1> QED BY <1>1, <1>2, <1>3

LEMMA FindFacts ==
  ASSUME NEW t, NEW s, IsTreeOf(t, s), NEW i \in 1..Len(t.text), NEW keyword
  PROVE  wirble_sexp_list_find_keyword(t, i, keyword) \in 0..Len(t.text)
<1>1. Len(t.text) \in Nat /\ i \in 0..Len(t.text)
  BY DEF IsTreeOf
<1>2. CASE Places(t, i, keyword) = {}
  BY <1>1, <1>2 DEF wirble_sexp_list_find_keyword
<1>3. CASE Places(t, i, keyword) # {}
  <2>1. Places(t, i, keyword) \in SUBSET Nat
    BY DEF Places
  <2>2. Min(Places(t, i, keyword)) \in Nat
    BY <1>3, <2>1, MinNat
  <2> QED BY <1>1, <1>3, <2>2, ChildFacts DEF wirble_sexp_list_find_keyword
<1> QED BY <1>2, <1>3

Step == [object : {NoObject, <<"name", 0>>, <<"rules", 0>>} \cup ({"match", "replace"} \X Nat),
         ok : BOOLEAN]

LEMMA ListSteps ==
  ASSUME NEW t, NEW s, IsTreeOf(t, s), NEW list \in 1..Len(t.text), NEW field \in {"match", "replace"}
  PROVE  mal_load_pattern_list(t, list, field) \in Seq(Step)
<1>1. \A ok \in BOOLEAN : Check(ok) \in Step
  BY DEF Check, Step
<1>2. \A n \in Nat : Get(field, n) \in Step
  BY DEF Get, Step
<1>3. PICK k \in Nat : k = Len(t.kids[list])
  BY DEF IsTreeOf
<1>4. PICK m \in Nat : 1..m = 1..(k - 1)
  <2>1. CASE k = 0
    <3>1. 1..0 = 1..(k - 1)
      BY <2>1
    <3> QED BY <3>1
  <2>2. CASE k # 0
    BY <2>2
  <2> QED BY <2>1, <2>2
<1> DEFINE ops == Operands(t, list)
           rest == [n \in DOMAIN ops |-> IF ops[n].kind = "VAR" THEN Get(field, n)
                                         ELSE Check(ops[n].kind # "BAD")]
           first == IF Len(t.kids[list]) = 1 THEN <<>> ELSE <<Get(field, 0)>>
<1>5. DOMAIN ops = 1..m
  BY <1>3, <1>4 DEF Operands
<1>6. rest \in Seq(Step)
  <2> HIDE DEF ops
  <2>1. ASSUME NEW n \in 1..m PROVE rest[n] \in Step
    <3>1. n \in Nat /\ (ops[n].kind # "BAD") \in BOOLEAN
      OBVIOUS
    <3>2. CASE ops[n].kind = "VAR"
      <4>1. rest[n] = Get(field, n)
        BY <1>5, <3>2
      <4> QED BY <1>2, <3>1, <4>1
    <3>3. CASE ops[n].kind # "VAR"
      <4>1. rest[n] = Check(ops[n].kind # "BAD")
        BY <1>5, <3>3
      <4> QED BY <1>1, <3>1, <4>1
    <3> QED BY <3>2, <3>3
  <2>2. rest \in [1..m -> Step]
    BY <1>5, <2>1
  <2> HIDE DEF rest
  <2> QED BY <2>2, SeqDef
<1>7. first \in Seq(Step)
  <2>1. Get(field, 0) \in Step
    BY <1>2
  <2>2. <<Get(field, 0)>> \in Seq(Step) /\ <<>> \in Seq(Step)
    BY <2>1
  <2> QED BY <2>2
<1>8. <<Check(FALSE)>> \in Seq(Step)
  <2>1. Check(FALSE) \in Step
    BY <1>1
  <2>2. \A c \in Step : <<c>> \in Seq(Step)
    OBVIOUS
  <2> QED BY <2>1, <2>2, Zenon
<1>9. first \o rest \in Seq(Step)
  BY <1>6, <1>7, ConcatProperties
<1> QED BY <1>8, <1>9 DEF mal_load_pattern_list

LEMMA StepsFacts ==
  ASSUME NEW t, NEW s, IsTreeOf(t, s), NEW form \in 1..Len(t.text)
  PROVE  LoadSteps(t, wirble_sexp_extract_rule(t, form)) \in Seq(Step)
<1> DEFINE view == wirble_sexp_extract_rule(t, form)
<1>1. view.match \in 0..Len(t.text) /\ view.replace \in 0..Len(t.text)
  BY FindFacts DEF wirble_sexp_extract_rule
<1> HIDE DEF view
<1>2. <<Check(FALSE)>> \in Seq(Step) /\ <<Get("name", 0)>> \in Seq(Step) /\ <<Get("rules", 0)>> \in Seq(Step)
  BY DEF Check, Get, Step
<1>3. CASE Complete(view)
  <2>1. view.match \in 1..Len(t.text) /\ view.replace \in 1..Len(t.text)
    BY <1>1, <1>3 DEF Complete
  <2>2. /\ mal_load_pattern_list(t, view.match, "match") \in Seq(Step)
        /\ mal_load_pattern_list(t, view.replace, "replace") \in Seq(Step)
    BY <2>1, ListSteps
  <2>3. PICK a, b, c \in Seq(Step) :
          LoadSteps(t, view) = a \o b \o c \o <<Get("rules", 0)>>
    <3>1. CASE view.name # 0 /\ wirble_sexp_node_is_list(t, view.name)
      BY <1>2, <1>3, <2>2, <3>1 DEF LoadSteps
    <3>2. CASE ~(view.name # 0 /\ wirble_sexp_node_is_list(t, view.name))
      BY <1>2, <1>3, <2>2, <3>2 DEF LoadSteps
    <3> QED BY <3>1, <3>2
  <2>4. a \o b \in Seq(Step)
    BY ConcatProperties
  <2>5. a \o b \o c \in Seq(Step)
    BY <2>4, ConcatProperties
  <2>6. a \o b \o c \o <<Get("rules", 0)>> \in Seq(Step)
    BY <1>2, <2>5, ConcatProperties
  <2> QED BY <2>3, <2>6 DEF view
<1>4. CASE ~Complete(view)
  BY <1>2, <1>4 DEF LoadSteps, view
<1> QED BY <1>3, <1>4

\* The objects of a rule are the rule's, but for the array of rules.
LEMMA AllocatedFacts ==
  ASSUME NEW steps \in Seq(Step), NEW n \in Nat, n <= Len(steps) + 1, NEW rule,
         NEW h \in Allocated(steps, n, rule)
  PROVE  h = RuleArray \/ h[1] = rule
<1>1. PICK m \in 1..(n - 1) :
        /\ steps[m].object # NoObject
        /\ h = <<IF steps[m].object[1] = "rules" THEN 0 ELSE rule, steps[m].object[1], steps[m].object[2]>>
  BY DEF Allocated
<1>2. m \in 1..Len(steps)
  BY <1>1
<1>3. steps[m] \in Step
  BY <1>2
<1>4. PICK o : o = steps[m].object /\ o \in {NoObject, <<"name", 0>>, <<"rules", 0>>} \cup ({"match", "replace"} \X Nat)
  BY <1>3 DEF Step
<1>5. o[1] = "rules" => o = <<"rules", 0>>
  <2>1. CASE o \in {"match", "replace"} \X Nat
    <3>1. o[1] \in {"match", "replace"}
      BY <2>1
    <3> QED BY <3>1
  <2>2. CASE o \in {<<"name", 0>>, <<"rules", 0>>}
    BY <2>2
  <2> QED BY <1>1, <1>4, <2>1, <2>2
<1> QED BY <1>1, <1>4, <1>5 DEF RuleArray

\* Freeing a rule that could not be loaded, and the system with the others.
LEMMA DestroyFacts ==
  ASSUME NEW heap, NEW count \in Nat, Within(heap, {Storage, System, RuleArray}, count + 1)
  PROVE  mal_mrs_destroy(mal_rule_free_members(heap, count + 1), count) \subseteq {Storage}
<1> SUFFICES ASSUME NEW h \in mal_mrs_destroy(mal_rule_free_members(heap, count + 1), count)
             PROVE  h = Storage
  OBVIOUS
<1>1. /\ h \in heap /\ h[1] # count + 1 /\ h \notin {RuleArray, System}
      /\ \A k \in 1..count : h[1] # k
  BY DEF mal_mrs_destroy, mal_rule_free_members
<1>2. h[1] \notin 1..(count + 1)
  BY <1>1
<1> QED BY <1>1, <1>2 DEF Within

\* Freeing the system with all its rules.
LEMMA DestroyAll ==
  ASSUME NEW heap, NEW count \in Nat, Within(heap, {System, RuleArray}, count)
  PROVE  mal_mrs_destroy(heap, count) = {}
<1> SUFFICES ASSUME NEW h \in mal_mrs_destroy(heap, count) PROVE FALSE
  OBVIOUS
<1>1. h \in heap /\ h \notin {RuleArray, System} /\ \A k \in 1..count : h[1] # k
  BY DEF mal_mrs_destroy, mal_rule_free_members
<1> QED BY <1>1 DEF Within

LEMMA AppendRule ==
  ASSUME DiskInv, NEW rules, IsSeq(rules), NEW cap \in Nat, Len(rules) <= cap, NEW rule,
         NEW a \in wrs_append_rule(rules, cap, rule)
  PROVE  IsSeq(a.rules) /\ a.cap \in Nat /\ Len(a.rules) <= a.cap
<1>1. IsSeq(Append(rules, rule)) /\ Len(Append(rules, rule)) = Len(rules) + 1 /\ Len(rules) \in Nat
  BY AppendSeq, SeqFacts
<1>2. InitRules \in Nat \ {0}
  BY MemoryAssumption
<1>3. CASE a = [rules |-> rules, cap |-> cap]
  BY <1>3
<1>4. CASE a = [rules |-> Append(rules, rule),
                cap |-> IF Len(rules) < cap THEN cap ELSE IF cap = 0 THEN InitRules ELSE 2 * cap]
  <2>1. a.rules = Append(rules, rule) /\ a.cap = IF Len(rules) < cap THEN cap ELSE IF cap = 0 THEN InitRules ELSE 2 * cap
    BY <1>4
  <2> QED BY <1>1, <1>2, <2>1
<1> QED BY <1>3, <1>4 DEF wrs_append_rule


-----------------------------------------------------------------------------
(* What may be read of a file that another process writes.                 *)

LEMMA ScenarioTexts ==
  ASSUME NEW s \in Scenarios
  PROVE  /\ Tokens(s.edit.forms) \in Seq(STRING) /\ Len(Tokens(s.edit.forms)) \in Nat
         /\ \A p \in s.present : Tokens(s.files[p]) \in Seq(STRING)
BY ScenariosAssumption, LenProperties

\* Nothing is put behind a text that is no shorter than what is written.
LEMMA NoneBehind ==
  ASSUME NEW new, NEW old \in Seq(STRING), NEW n \in Nat, ~(n > Len(old))
  PROVE  old \o SubSeq(new, Len(old) + 1, n) = old
<1>1. Len(old) + 1 > n /\ Len(old) + 1 \in Int /\ n \in Int
  BY LenProperties
<1>2. SubSeq(new, Len(old) + 1, n) = << >>
  BY <1>1, SubSeqEmpty
<1> QED BY <1>2, ConcatEmptySeq

LEMMA SplicedNone ==
  ASSUME NEW s, NEW old \in Seq(STRING), NEW n \in Nat, ~(n > Len(old))
  PROVE  Spliced(s, old, n) = old
BY NoneBehind DEF Spliced

LEMMA NothingSpliced ==
  ASSUME NEW s
  PROVE  Spliced(s, << >>, 0) = << >>
<1>1. << >> \in Seq(STRING) /\ ~(0 > Len(<< >>))
  OBVIOUS
<1> QED BY <1>1, SplicedNone

\* The end of a first part.
LEMMA EndOfPart ==
  ASSUME NEW s \in Seq(STRING), NEW m \in Nat, m <= Len(s), NEW k \in Nat, 1 <= k, k <= m
  PROVE  SubSeq(SubSeq(s, 1, m), k, m) = SubSeq(s, k, m)
<1>1. Len(s) \in Nat /\ 1 \in 1..Len(s) /\ m \in 1..Len(s) /\ k \in 1..(m - 1 + 1) /\ m \in 1..(m - 1 + 1)
  BY LenProperties
<1>2. \A a \in 1..Len(s), b \in 1..Len(s) : \A c \in 1..(b - a + 1), d \in 1..(b - a + 1) :
        SubSeq(SubSeq(s, a, b), c, d) = SubSeq(s, a + c - 1, a + d - 1)
  BY SubSeqOfSubSeq
<1>3. SubSeq(SubSeq(s, 1, m), k, m) = SubSeq(s, 1 + k - 1, 1 + m - 1)
  BY <1>1, <1>2
<1>4. 1 + k - 1 = k /\ 1 + m - 1 = m
  OBVIOUS
<1> QED BY <1>3, <1>4

\* A text behind another one, in one piece or in two.
LEMMA JoinPieces ==
  \A old, new \in Seq(STRING) : \A k, n, m \in Nat :
    k <= n /\ n <= m /\ m <= Len(new)
    => (old \o SubSeq(new, k + 1, n)) \o SubSeq(new, n + 1, m) = old \o SubSeq(new, k + 1, m)
<1> TAKE old, new \in Seq(STRING)
<1> TAKE k, n, m \in Nat
<1> HAVE k <= n /\ n <= m /\ m <= Len(new)
<1>1. Len(new) \in Nat
  BY LenProperties
<1>2. \A c \in 1..(Len(new) + 1) : \A a \in (c - 1)..Len(new) : \A b \in a..Len(new) :
        SubSeq(new, c, a) \o SubSeq(new, a + 1, b) = SubSeq(new, c, b)
  BY ConcatAdjacentSubSeq
<1>3. k + 1 \in 1..(Len(new) + 1) /\ n \in ((k + 1) - 1)..Len(new) /\ m \in n..Len(new)
  BY <1>1
<1>4. SubSeq(new, k + 1, n) \o SubSeq(new, n + 1, m) = SubSeq(new, k + 1, m)
  BY ONLY <1>2, <1>3, Zenon
<1>5. SubSeq(new, k + 1, n) \in Seq(STRING) /\ SubSeq(new, n + 1, m) \in Seq(STRING)
  <2>1. k + 1 \in Int /\ n + 1 \in Int /\ n \in Int /\ m \in Int
    OBVIOUS
  <2>2. \A i \in (k + 1)..m : new[i] \in STRING
    <3> SUFFICES ASSUME NEW i \in (k + 1)..m PROVE new[i] \in STRING
      OBVIOUS
    <3>1. i \in 1..Len(new)
      BY <1>1
    <3> QED BY <3>1, ElementOfSeq
  <2>3. \A i \in (k + 1)..n : new[i] \in STRING
    BY <2>2
  <2>4. \A i \in (n + 1)..m : new[i] \in STRING
    BY <2>2
  <2> QED BY <2>1, <2>3, <2>4, SubSeqProperties
<1>6. \A t, u \in Seq(STRING) : (old \o t) \o u = old \o (t \o u)
  BY ConcatAssociative
<1>7. (old \o SubSeq(new, k + 1, n)) \o SubSeq(new, n + 1, m)
      = old \o (SubSeq(new, k + 1, n) \o SubSeq(new, n + 1, m))
  BY ONLY <1>5, <1>6, Zenon
<1> QED BY ONLY <1>4, <1>7

\* Behind an old text and a part of the new one comes the next part.
LEMMA JoinParts ==
  \A new, old \in Seq(STRING) : \A n, m \in 0..Len(new) : \A buffer, text, more :
    /\ buffer = old \o SubSeq(new, Len(old) + 1, n) /\ text = SubSeq(new, 1, m)
    /\ more = SubSeq(text, Len(buffer) + 1, Len(text)) /\ more # << >>
    => buffer \o more = old \o SubSeq(new, Len(old) + 1, m)
<1> TAKE new, old \in Seq(STRING)
<1> TAKE n, m \in 0..Len(new)
<1> TAKE buffer, text, more
<1>0. SUFFICES ASSUME /\ buffer = old \o SubSeq(new, Len(old) + 1, n) /\ text = SubSeq(new, 1, m)
                      /\ more = SubSeq(text, Len(buffer) + 1, Len(text)) /\ more # << >>
               PROVE  buffer \o more = old \o SubSeq(new, Len(old) + 1, m)
  OBVIOUS
<1>1. PICK k \in Nat : k = Len(old)
  BY LenProperties
<1>2. Len(new) \in Nat /\ n \in 0..Len(new) /\ m \in 0..Len(new)
  BY LenProperties
<1>3. buffer = old \o SubSeq(new, k + 1, n)
  BY <1>0, <1>1
<1>4. text = SubSeq(new, 1, m) /\ text \in Seq(STRING) /\ Len(text) = m
  BY <1>0, <1>2, SubSeqProperties
<1>5. CASE n > k
  <2>1. SubSeq(new, k + 1, n) \in Seq(STRING) /\ Len(SubSeq(new, k + 1, n)) = n - k
    BY <1>2, <1>5, SubSeqProperties
  <2>2. Len(buffer) = n
    BY <1>1, <1>2, <1>3, <2>1, ConcatProperties
  <2>3. more = SubSeq(text, n + 1, m)
    BY <1>0, <1>4, <2>2
  <2>4. n + 1 <= m
    <3>1. n + 1 \in Int /\ m \in Int
      BY <1>2
    <3>2. CASE m < n + 1
      <4>1. SubSeq(text, n + 1, m) = << >>
        BY <3>1, <3>2, SubSeqEmpty
      <4> QED BY <1>0, <2>3, <4>1
    <3> QED BY <3>1, <3>2
  <2>5. more = SubSeq(new, n + 1, m)
    <3>1. m \in Nat /\ m <= Len(new) /\ n + 1 \in Nat /\ 1 <= n + 1
      BY <1>2
    <3>2. SubSeq(SubSeq(new, 1, m), n + 1, m) = SubSeq(new, n + 1, m)
      BY <2>4, <3>1, EndOfPart
    <3> QED BY <1>4, <2>3, <3>2
  <2>6. (old \o SubSeq(new, k + 1, n)) \o SubSeq(new, n + 1, m) = old \o SubSeq(new, k + 1, m)
    <3>1. old \in Seq(STRING) /\ new \in Seq(STRING) /\ k \in Nat /\ n \in Nat /\ m \in Nat
      BY <1>2
    <3>2. k <= n /\ n <= m /\ m <= Len(new)
      BY <1>2, <1>5, <2>4
    <3>3. \A a, b, c \in Nat :
            a <= b /\ b <= c /\ c <= Len(new)
            => (old \o SubSeq(new, a + 1, b)) \o SubSeq(new, b + 1, c) = old \o SubSeq(new, a + 1, c)
      BY ONLY <3>1, JoinPieces
    <3>4. k <= n /\ n <= m /\ m <= Len(new)
          => (old \o SubSeq(new, k + 1, n)) \o SubSeq(new, n + 1, m) = old \o SubSeq(new, k + 1, m)
      BY ONLY <3>1, <3>3, Zenon
    <3> QED BY ONLY <3>2, <3>4, Zenon
  <2> QED BY <1>1, <1>3, <2>5, <2>6
<1>6. CASE ~(n > k)
  <2>1. buffer = old
    BY <1>1, <1>2, <1>3, <1>6, NoneBehind
  <2>2. more = SubSeq(text, k + 1, m)
    BY <1>0, <1>1, <1>4, <2>1
  <2>3. k + 1 <= m
    <3>1. k + 1 \in Int /\ m \in Int
      BY <1>2
    <3>2. CASE m < k + 1
      <4>1. SubSeq(text, k + 1, m) = << >>
        BY <3>1, <3>2, SubSeqEmpty
      <4> QED BY <1>0, <2>2, <4>1
    <3> QED BY <3>1, <3>2
  <2>4. more = SubSeq(new, k + 1, m)
    <3>1. m \in Nat /\ m <= Len(new) /\ k + 1 \in Nat /\ 1 <= k + 1
      BY <1>2
    <3>2. SubSeq(SubSeq(new, 1, m), k + 1, m) = SubSeq(new, k + 1, m)
      BY <2>3, <3>1, EndOfPart
    <3> QED BY <1>4, <2>2, <3>2
  <2> QED BY <1>1, <2>1, <2>4
<1> QED BY <1>5, <1>6

-----------------------------------------------------------------------------
(* What the parts of a step make of the loader's state.                    *)

\* A loader's state with no file in hand: what a failure begins with.
Idle(l) ==
  /\ DOMAIN l = Fields /\ l.attempts \in Seq(Paths) /\ ArrayInv(l)
  /\ l.heap \subseteq {Storage}

LEMMA IdleFacts ==
  ASSUME NEW l, LoaderInv(l), l.stage \in {"try", "read", "parse", "node", "text", "load"}
  PROVE  Idle(l)
BY DEF LoaderInv, ReaderInv, HeapInv, Idle

\* Only what is named is different.
SameBut(m, l, changed) == DOMAIN m = Fields /\ \A f \in Fields \ changed : m[f] = l[f]

LEMMA NoTreeFacts == NoTree.text = <<>> /\ NoTree.kids = <<>> /\ Len(NoTree.text) = 0
BY DEF NoTree

\* A state that looks for a file, or has given up.
LEMMA SearchInv ==
  ASSUME NEW l, Idle(l), NEW m, SameBut(m, l, {"stage", "attempts", "fellBack", "path", "buffer", "tree", "at", "heap"}),
         m.attempts \in Seq(Paths), m.tree = NoTree, m.at = 0,
         \/ m.stage = "try" /\ m.attempts # <<>> /\ m.heap \subseteq {Storage}
         \/ m.stage = "done" /\ m.heap = {}
  PROVE  LoaderInv(m)
<1>1. /\ m.form = l.form /\ m.rules = l.rules /\ m.cap = l.cap /\ m.system = l.system
      /\ m.systemCap = l.systemCap
  BY DEF SameBut, Fields
<1>2. ArrayInv(m)
  BY <1>1 DEF Idle, ArrayInv
<1>3. ReaderInv(m)
  BY NoTreeFacts DEF ReaderInv
<1>4. HeapInv(m)
  BY DEF HeapInv
<1> QED BY <1>2, <1>3, <1>4 DEF LoaderInv, SameBut, Stages

LEMMA DestroyedFacts ==
  ASSUME NEW l, DOMAIN l = Fields
  PROVE  /\ SameBut(Destroyed(l), l, {"heap", "tree", "buffer", "at"})
         /\ Destroyed(l).heap = l.heap \ {Storage} /\ Destroyed(l).tree = NoTree /\ Destroyed(l).at = 0
BY DEF Destroyed, SameBut, Fields

\* A load that fails has freed all it had.
LEMMA LoadFailedInv ==
  ASSUME NEW l, Idle(l)
  PROVE  LoaderInv(LoadFailed(l)) /\ LoadFailed(l).stage \in {"try", "done"}
<1> DEFINE d == Destroyed(l)
<1>1. /\ SameBut(d, l, {"heap", "tree", "buffer", "at"})
      /\ d.heap = {} /\ d.tree = NoTree /\ d.at = 0 /\ d.attempts = l.attempts
  BY DestroyedFacts DEF Idle, SameBut, Fields
<1> HIDE DEF d
<1>2. CASE OfMal /\ ~l.fellBack
  <2>1. PICK m : m = [d EXCEPT !.stage = "try", !.attempts = DefaultAttempts, !.fellBack = TRUE]
    OBVIOUS
  <2>2. /\ SameBut(m, l, {"stage", "attempts", "fellBack", "path", "buffer", "tree", "at", "heap"})
        /\ m.stage = "try" /\ m.attempts = DefaultAttempts /\ m.tree = NoTree /\ m.at = 0 /\ m.heap = {}
    BY <1>1, <2>1 DEF SameBut, Fields
  <2>3. DefaultAttempts \in Seq(Paths) /\ DefaultAttempts # <<>>
    BY DEF DefaultAttempts, Paths
  <2>4. LoaderInv(m)
    BY <2>2, <2>3, SearchInv
  <2>5. LoadFailed(l) = m
    BY <1>2, <2>1 DEF LoadFailed, d
  <2> QED BY <2>2, <2>4, <2>5
<1>3. CASE ~(OfMal /\ ~l.fellBack) /\ l.attempts # <<>> /\ ~OfMal
  <2>1. PICK m : m = [d EXCEPT !.stage = "try"]
    OBVIOUS
  <2>2. /\ SameBut(m, l, {"stage", "attempts", "fellBack", "path", "buffer", "tree", "at", "heap"})
        /\ m.stage = "try" /\ m.attempts = l.attempts /\ m.tree = NoTree /\ m.at = 0 /\ m.heap = {}
    BY <1>1, <2>1 DEF SameBut, Fields
  <2>3. LoaderInv(m)
    BY <1>3, <2>2, SearchInv DEF Idle
  <2>4. LoadFailed(l) = m
    BY <1>3, <2>1 DEF LoadFailed, d
  <2> QED BY <2>2, <2>3, <2>4
<1>4. CASE ~(OfMal /\ ~l.fellBack) /\ ~(l.attempts # <<>> /\ ~OfMal)
  <2>1. PICK m : m = [d EXCEPT !.stage = "done"]
    OBVIOUS
  <2>2. /\ SameBut(m, l, {"stage", "attempts", "fellBack", "path", "buffer", "tree", "at", "heap"})
        /\ m.stage = "done" /\ m.attempts = l.attempts /\ m.tree = NoTree /\ m.at = 0 /\ m.heap = {}
    BY <1>1, <2>1 DEF SameBut, Fields
  <2>3. LoaderInv(m)
    BY <2>2, SearchInv DEF Idle
  <2>4. LoadFailed(l) = m
    BY <1>4, <2>1 DEF LoadFailed, d
  <2> QED BY <2>2, <2>3, <2>4
<1> QED BY <1>2, <1>3, <1>4

\* A state reached in a step has the invariant after it.
LEMMA Carried ==
  ASSUME UNCHANGED Environment, NEW l, LoaderInv(l), r' = l
  PROVE  LoaderInv(r)'
BY DEF Environment, BufferInv, Edited, LoaderInv, ReaderInv, ArrayInv, HeapInv, Parsed, Within, OfMal, Loader

LEMMA StepInv ==
  ASSUME IInv, UNCHANGED Environment, NEW l, LoaderInv(l), r' = l,
         \/ blocks' = <<>>
         \/ l.stage \notin TreeGone
         \/ r.stage \in TreeGone /\ UNCHANGED arenaVars
  PROVE  IInv'
<1>1. scenario' = scenario /\ disk' = disk /\ written' = written
  BY DEF Environment
<1>2. DiskInv'
  BY <1>1 DEF IInv, DiskInv, Edited
<1>3. LoaderInv(r)'
  BY Carried
<1>4. BlocksInv'
  BY DEF IInv, BlocksInv, arenaVars
<1> QED BY <1>2, <1>3, <1>4 DEF IInv

\* wirble_sexp_tree_parse_file fails.
LEMMA ParseFailedInv ==
  ASSUME IInv, UNCHANGED Environment, NEW l, Idle(l), ParseFailed(l)
  PROVE  IInv' /\ (wirble_arena_reset \/ UNCHANGED arenaVars)
<1>1. CASE OfMal /\ l.attempts # <<>>
  <2>1. PICK m : m = [l EXCEPT !.stage = "try", !.tree = NoTree, !.at = 0]
    OBVIOUS
  <2>2. /\ SameBut(m, l, {"stage", "attempts", "fellBack", "path", "buffer", "tree", "at", "heap"})
        /\ m.stage = "try" /\ m.attempts = l.attempts /\ m.tree = NoTree /\ m.at = 0 /\ m.heap = l.heap
    BY <2>1 DEF Idle, SameBut, Fields
  <2>3. LoaderInv(m)
    BY <1>1, <2>2, SearchInv DEF Idle
  <2>4. r' = m /\ UNCHANGED arenaVars
    BY <1>1, <2>1 DEF ParseFailed
  <2>5. m.stage \notin TreeGone
    BY <2>2 DEF TreeGone
  <2> QED BY <2>3, <2>4, <2>5, StepInv
<1>2. CASE ~(OfMal /\ l.attempts # <<>>)
  <2>1. r' = LoadFailed(l) /\ wirble_arena_reset
    BY <1>2 DEF ParseFailed, wirble_sexp_tree_reset
  <2>2. LoaderInv(LoadFailed(l))
    BY LoadFailedInv
  <2> QED BY <2>1, <2>2, StepInv DEF wirble_arena_reset
<1> QED BY <1>1, <1>2

-----------------------------------------------------------------------------
(* The steps of the reader.                                                *)

\* What a step does to the arena.
ArenaStep == ArenaNext \/ UNCHANGED arenaVars

LEMMA ResetStep == wirble_arena_reset => ArenaStep
BY DEF ArenaStep, ArenaNext

\* A file to open is found, or the search goes on.
LEMMA OpenStep ==
  ASSUME IInv, OpenFile
  PROVE  IInv' /\ ArenaStep
<1> DEFINE path == Head(r.attempts)
           l == [r EXCEPT !.path = path, !.attempts = Tail(@), !.tree = NoTree, !.buffer = << >>]
<1>1. r.stage = "try" /\ UNCHANGED Environment /\ LoaderInv(r) /\ DiskInv
  BY DEF OpenFile, IInv
<1>2. r.attempts \in Seq(Paths) /\ r.attempts # << >> /\ DOMAIN r = Fields
  BY <1>1 DEF LoaderInv, ReaderInv
<1>3. path \in Paths /\ Tail(r.attempts) \in Seq(Paths)
  BY <1>2, HeadTailProperties
<1>4. path \in DOMAIN disk
  BY <1>1, <1>3, ScenariosAssumption DEF DiskInv, Paths
<1>5. /\ SameBut(l, r, {"path", "attempts", "tree", "buffer"})
      /\ l.attempts \in Seq(Paths) /\ l.tree = NoTree /\ l.stage = "try" /\ l.heap = r.heap
      /\ l.path = path /\ l.buffer = << >>
  BY <1>1, <1>2, <1>3 DEF SameBut, Fields
<1>6. Idle(r)
  BY <1>1, IdleFacts
<1>7. Idle(l)
  BY <1>5, <1>6 DEF Idle, ArrayInv, SameBut, Fields
<1>8. wirble_arena_reset
  BY DEF OpenFile, wirble_sexp_tree_reset
<1>9. CASE disk[path] # Missing /\ r' = [l EXCEPT !.stage = "read"]
  <2>1. PICK m : m = [l EXCEPT !.stage = "read"]
    OBVIOUS
  <2> HIDE DEF l
  <2>2. SameBut(m, l, {"stage"}) /\ m.stage = "read"
    BY <1>5, <2>1 DEF SameBut, Fields
  <2>3. /\ m.attempts = l.attempts /\ m.tree = NoTree /\ m.at = l.at /\ m.heap = l.heap
        /\ m.form = l.form /\ m.rules = l.rules /\ m.cap = l.cap /\ m.system = l.system
        /\ m.systemCap = l.systemCap /\ m.path = path /\ m.buffer = << >>
    BY <1>5, <2>2 DEF SameBut, Fields
  <2>4. m.at = 0
    <3>1. r.at = 0 /\ l.at = r.at
      BY <1>1, <1>5 DEF LoaderInv, ReaderInv, SameBut, Fields
    <3> QED BY <2>3, <3>1
  <2>5. BufferInv(m)
    <3>1. path \in scenario.present \/ Edited(path)
      BY <1>1, <1>4, <1>9 DEF DiskInv
    <3>2. Spliced(scenario, << >>, 0) = << >> /\ ~(0 > Len(<< >>)) /\ 0 \in 0..Len(Tokens(scenario.edit.forms))
      BY <1>1, ScenarioTexts, NothingSpliced DEF DiskInv
    <3> QED BY <1>4, <2>3, <3>1, <3>2 DEF BufferInv
  <2>6. ReaderInv(m)
    BY <1>5, <2>2, <2>3, <2>4, <2>5, NoTreeFacts DEF ReaderInv
  <2>7. ArrayInv(m) /\ HeapInv(m)
    BY <1>7, <2>2, <2>3 DEF Idle, ArrayInv, HeapInv
  <2>8. LoaderInv(m)
    BY <2>2, <2>6, <2>7 DEF LoaderInv, SameBut, Stages
  <2> QED BY <1>1, <1>8, <1>9, <2>1, <2>8, StepInv, ResetStep DEF wirble_arena_reset
<1>10. CASE r' = IF OfMal /\ l.attempts # << >> THEN l ELSE LoadFailed(l)
  <2> HIDE DEF l
  <2>1. CASE OfMal /\ l.attempts # << >>
    <3>1. l.at = 0 /\ l.heap \subseteq {Storage}
      BY <1>1, <1>5, <1>7 DEF LoaderInv, ReaderInv, SameBut, Fields, Idle
    <3>2. SameBut(l, r, {"stage", "attempts", "fellBack", "path", "buffer", "tree", "at", "heap"})
      BY <1>5 DEF SameBut
    <3>3. LoaderInv(l)
      BY <1>5, <1>6, <2>1, <3>1, <3>2, SearchInv
    <3> QED BY <3>3, <1>1, <1>8, <1>10, <2>1, <3>1, StepInv, ResetStep DEF wirble_arena_reset
  <2>2. CASE ~(OfMal /\ l.attempts # << >>)
    <3>1. LoaderInv(LoadFailed(l))
      BY <1>7, LoadFailedInv
    <3> QED BY <1>1, <1>8, <1>10, <2>2, <3>1, StepInv, ResetStep DEF wirble_arena_reset
  <2> QED BY <2>1, <2>2
<1>11. r' = IF disk[path] # Missing THEN [l EXCEPT !.stage = "read"]
            ELSE IF OfMal /\ l.attempts # << >> THEN l ELSE LoadFailed(l)
  BY DEF OpenFile
<1> HIDE DEF l, path
<1> QED BY <1>9, <1>10, <1>11

\* What is read behind what has been read before is again what may be read.
LEMMA ReadMore ==
  ASSUME DiskInv, NEW l, BufferInv(l),
         NEW more, more = SubSeq(disk[l.path], Len(l.buffer) + 1, Len(disk[l.path])), more # << >>,
         NEW m, m.path = l.path, m.buffer = l.buffer \o more
  PROVE  BufferInv(m)
<1> DEFINE new == Tokens(scenario.edit.forms)
           was == Tokens(scenario.files[l.path])
<1>1. PICK old \in {<< >>} \cup {Tokens(scenario.files[p]) : p \in {l.path} \cap scenario.present} :
        \E n \in 0..Len(new) : l.buffer = Spliced(scenario, old, n) /\ (n > Len(old) => Edited(l.path))
  BY DEF BufferInv
<1>2. PICK n \in 0..Len(new) : l.buffer = Spliced(scenario, old, n) /\ (n > Len(old) => Edited(l.path))
  BY <1>1
<1>3. l.path \in DOMAIN disk /\ (l.path \in scenario.present \/ Edited(l.path)) /\ m.path \in DOMAIN disk
      /\ (m.path \in scenario.present \/ Edited(m.path))
  BY DEF BufferInv
<1>4. /\ new \in Seq(STRING) /\ Len(new) \in Nat /\ old \in Seq(STRING) /\ Len(old) \in Nat
      /\ l.path \in scenario.present => was \in Seq(STRING)
  <2>1. new \in Seq(STRING) /\ \A p \in scenario.present : Tokens(scenario.files[p]) \in Seq(STRING)
    BY ScenarioTexts DEF DiskInv
  <2>2. old = << >> \/ (old = was /\ l.path \in scenario.present)
    BY <1>1
  <2>3. << >> \in Seq(STRING)
    OBVIOUS
  <2>4. old \in Seq(STRING)
    BY <2>1, <2>2, <2>3, Zenon
  <2> HIDE DEF new, was
  <2> QED BY <2>1, <2>4, LenProperties DEF was
<1>5. CASE Edited(l.path)
  <2>1. disk[l.path] = SubSeq(new, 1, written) /\ written \in 0..Len(new)
    <3>1. disk[l.path] = SubSeq(new, 1, written) /\ written \in -1..Len(new) /\ written >= 0
      BY <1>3, <1>5 DEF DiskInv, Edited
    <3> HIDE DEF new
    <3> QED BY <1>4, <3>1
  <2>2. l.buffer \o more = Spliced(scenario, old, written)
    <3>1. PICK w, x, a, c : w = written /\ x = new /\ a = old /\ c = n
      OBVIOUS
    <3>2. PICK text, buffer, rest : text = disk[l.path] /\ buffer = l.buffer /\ rest = more
      OBVIOUS
    <3>3. /\ x \in Seq(STRING) /\ a \in Seq(STRING) /\ c \in 0..Len(x) /\ w \in 0..Len(x)
          /\ text = SubSeq(x, 1, w)
          /\ rest = SubSeq(text, Len(buffer) + 1, Len(text)) /\ rest # << >>
      BY <1>4, <2>1, <3>1, <3>2
    <3>4. buffer = a \o SubSeq(x, Len(a) + 1, c)
      BY <1>2, <3>1, <3>2 DEF Spliced
    <3> HIDE DEF new, was
    <3>5. buffer \o rest = a \o SubSeq(x, Len(a) + 1, w)
      <4>1. \A i, j \in 0..Len(x) : \A y, t, z :
              /\ y = a \o SubSeq(x, Len(a) + 1, i) /\ t = SubSeq(x, 1, j)
              /\ z = SubSeq(t, Len(y) + 1, Len(t)) /\ z # << >>
              => y \o z = a \o SubSeq(x, Len(a) + 1, j)
        BY <3>3, JoinParts
      <4>2. \A y, t, z :
              /\ y = a \o SubSeq(x, Len(a) + 1, c) /\ t = SubSeq(x, 1, w)
              /\ z = SubSeq(t, Len(y) + 1, Len(t)) /\ z # << >>
              => y \o z = a \o SubSeq(x, Len(a) + 1, w)
        BY <3>3, <4>1
      <4> QED BY <3>3, <3>4, <4>2
    <3> QED BY <3>1, <3>2, <3>5 DEF Spliced, new
  <2> QED BY <1>1, <1>3, <1>5, <2>1, <2>2 DEF BufferInv, new
<1>6. CASE ~Edited(l.path)
  <2>1. disk[l.path] = was /\ l.path \in scenario.present /\ ~(n > Len(old))
    BY <1>2, <1>3, <1>6 DEF DiskInv
  <2>2. l.buffer = old
    BY <1>2, <1>4, <2>1, SplicedNone DEF new
  <2>3. old # was
    <3>1. SUFFICES ASSUME old = was PROVE FALSE
      OBVIOUS
    <3>2. more = SubSeq(old, Len(old) + 1, Len(old))
      BY <2>1, <2>2, <3>1
    <3> HIDE DEF was, new
    <3>3. Len(old) < Len(old) + 1 /\ Len(old) \in Int /\ Len(old) + 1 \in Int
      BY <1>4
    <3>4. more = << >>
      BY <3>2, <3>3, SubSeqEmpty
    <3> QED BY <3>4
  <2>4. old = << >>
    BY <1>1, <2>3
  <2>5. more = was
    <3>1. more = SubSeq(was, 1, Len(was))
      BY <2>1, <2>2, <2>4
    <3> HIDE DEF was, new
    <3> QED BY <1>4, <2>1, <3>1, SubSeqFull
  <2>6. m.buffer = was /\ was \in Seq(STRING)
    <3> HIDE DEF was
    <3> QED BY <1>4, <2>1, <2>2, <2>4, <2>5, ConcatEmptySeq
  <2>7. Spliced(scenario, was, 0) = was /\ ~(0 > Len(was)) /\ 0 \in 0..Len(new)
    <3> HIDE DEF was
    <3> QED BY <1>4, <2>6, SplicedNone, LenProperties DEF new
  <2> QED BY <1>3, <2>1, <2>6, <2>7 DEF BufferInv
<1> QED BY <1>5, <1>6

\* A part of the file is read, or its end.
LEMMA ChunkStep ==
  ASSUME IInv, ReadChunk
  PROVE  IInv' /\ ArenaStep
<1> DEFINE more == SubSeq(disk[r.path], Len(r.buffer) + 1, Len(disk[r.path]))
<1>1. r.stage = "read" /\ UNCHANGED Environment /\ LoaderInv(r) /\ DiskInv /\ Idle(r)
  BY IdleFacts DEF ReadChunk, IInv
<1>2. DOMAIN r = Fields /\ BufferInv(r) /\ ReaderInv(r) /\ HeapInv(r) /\ ArrayInv(r)
  BY <1>1 DEF LoaderInv, ReaderInv
<1> HIDE DEF more
<1>3. CASE more # << >> /\ r' = [r EXCEPT !.buffer = @ \o more] /\ UNCHANGED arenaVars
  <2>1. PICK m : m = [r EXCEPT !.buffer = @ \o more]
    OBVIOUS
  <2>2. SameBut(m, r, {"buffer"}) /\ m.buffer = r.buffer \o more
    BY <1>2, <2>1 DEF SameBut, Fields
  <2>3. /\ m.stage = r.stage /\ m.path = r.path
        /\ m.attempts = r.attempts /\ m.tree = r.tree /\ m.at = r.at /\ m.heap = r.heap
        /\ m.form = r.form /\ m.rules = r.rules /\ m.cap = r.cap /\ m.system = r.system
        /\ m.systemCap = r.systemCap
    BY <2>2 DEF SameBut, Fields
  <2>4. BufferInv(m)
    BY <1>1, <1>2, <1>3, <2>2, <2>3, ReadMore DEF more
  <2>5. ReaderInv(m)
    BY <1>1, <1>2, <2>3, <2>4 DEF ReaderInv
  <2>6. ArrayInv(m) /\ HeapInv(m)
    BY <1>1, <1>2, <2>3 DEF ArrayInv, HeapInv
  <2>7. LoaderInv(m) /\ m.stage \notin TreeGone
    BY <1>1, <2>2, <2>3, <2>5, <2>6 DEF LoaderInv, SameBut, Stages, TreeGone
  <2> QED BY <1>1, <1>3, <2>1, <2>7, StepInv DEF ArenaStep
<1>4. CASE ParseFailed(r)
  BY <1>1, <1>4, ParseFailedInv, ResetStep DEF ArenaStep
<1>5. CASE r' = [r EXCEPT !.stage = "parse"] /\ UNCHANGED arenaVars
  <2>1. PICK m : m = [r EXCEPT !.stage = "parse"]
    OBVIOUS
  <2>2. SameBut(m, r, {"stage"}) /\ m.stage = "parse"
    BY <1>2, <2>1 DEF SameBut, Fields
  <2>3. /\ m.buffer = r.buffer
        /\ m.attempts = r.attempts /\ m.tree = r.tree /\ m.at = r.at /\ m.heap = r.heap
        /\ m.form = r.form /\ m.rules = r.rules /\ m.cap = r.cap /\ m.system = r.system
        /\ m.systemCap = r.systemCap
    BY <2>2 DEF SameBut, Fields
  <2>4. m.buffer \in Texts(scenario)
    <3>1. PICK old \in {<< >>} \cup {Tokens(scenario.files[p]) : p \in {r.path} \cap scenario.present} :
            \E n \in 0..Len(Tokens(scenario.edit.forms)) : r.buffer = Spliced(scenario, old, n)
      BY <1>2 DEF BufferInv
    <3>2. old \in {<< >>} \cup {Tokens(scenario.files[p]) : p \in scenario.present}
      BY <3>1
    <3>3. PICK n \in 0..Len(Tokens(scenario.edit.forms)) : r.buffer = Spliced(scenario, old, n)
      BY <3>1
    <3>4. Spliced(scenario, old, n) \in Texts(scenario)
      BY <3>2 DEF Texts
    <3> QED BY <2>3, <3>3, <3>4
  <2>5. ReaderInv(m)
    BY <1>1, <1>2, <2>2, <2>3, <2>4 DEF ReaderInv
  <2>6. ArrayInv(m) /\ HeapInv(m)
    BY <1>1, <1>2, <2>2, <2>3 DEF ArrayInv, HeapInv
  <2>7. LoaderInv(m) /\ m.stage \notin TreeGone
    BY <2>2, <2>5, <2>6 DEF LoaderInv, SameBut, Stages, TreeGone
  <2> QED BY <1>1, <1>5, <2>1, <2>7, StepInv DEF ArenaStep
<1> QED BY <1>3, <1>4, <1>5 DEF ReadChunk, more

\* The program follows a null pointer.
LEMMA CrashStep ==
  ASSUME IInv, UNCHANGED Environment, r' = [r EXCEPT !.stage = "crashed"], UNCHANGED arenaVars
  PROVE  IInv' /\ ArenaStep
<1>1. LoaderInv(r) /\ DOMAIN r = Fields
  BY DEF IInv, LoaderInv
<1>2. PICK m : m = [r EXCEPT !.stage = "crashed"]
  OBVIOUS
<1>3. SameBut(m, r, {"stage"}) /\ m.stage = "crashed"
  BY <1>1, <1>2 DEF SameBut, Fields
<1>4. /\ m.attempts = r.attempts /\ m.tree = r.tree /\ m.heap = r.heap /\ m.at = r.at
      /\ m.form = r.form /\ m.rules = r.rules /\ m.cap = r.cap /\ m.system = r.system
      /\ m.systemCap = r.systemCap
  BY <1>3 DEF SameBut, Fields
<1>5. ReaderInv(m) /\ ArrayInv(m) /\ HeapInv(m)
  BY <1>1, <1>3, <1>4 DEF LoaderInv, ReaderInv, ArrayInv, HeapInv
<1>6. LoaderInv(m) /\ m.stage \notin TreeGone
  BY <1>3, <1>5 DEF LoaderInv, SameBut, Stages, TreeGone
<1> QED BY <1>2, <1>6, StepInv DEF ArenaStep

LEMMA ParseStep ==
  ASSUME IInv, wirble_sexp_parse_buffer
  PROVE  IInv' /\ ArenaStep
<1> DEFINE tree == ParseSexp(wirble_sexp_wrap_input(r.buffer))
<1>1. r.stage = "parse" /\ UNCHANGED Environment /\ LoaderInv(r) /\ DiskInv /\ Idle(r)
  BY IdleFacts DEF wirble_sexp_parse_buffer, IInv
<1>2. r.buffer \in Texts(scenario) /\ DOMAIN r = Fields
  BY <1>1 DEF LoaderInv, ReaderInv
<1>3. CASE /\ tree # NoTree /\ UNCHANGED arenaVars
           /\ r' = [r EXCEPT !.stage = "node", !.tree = tree, !.at = 1, !.heap = @ \cup {Storage}]
  <2>1. IsTreeOf(tree, wirble_sexp_wrap_input(r.buffer))
    BY <1>1, <1>2, <1>3, ParserAssumption DEF DiskInv
  <2>2. Parsed(tree)
    BY <1>2, <2>1 DEF Parsed
  <2> HIDE DEF tree
  <2>3. 1 \in 0..Len(tree.text)
    BY <2>1 DEF IsTreeOf
  <2>4. PICK m : m = [r EXCEPT !.stage = "node", !.tree = tree, !.at = 1, !.heap = @ \cup {Storage}]
    OBVIOUS
  <2>5. /\ SameBut(m, r, {"stage", "tree", "at", "heap"})
        /\ m.stage = "node" /\ m.tree = tree /\ m.at = 1 /\ m.heap = r.heap \cup {Storage}
    BY <1>2, <2>4 DEF SameBut, Fields
  <2>6. /\ m.attempts = r.attempts
        /\ m.form = r.form /\ m.rules = r.rules /\ m.cap = r.cap /\ m.system = r.system
        /\ m.systemCap = r.systemCap
    BY <2>5 DEF SameBut, Fields
  <2>7. ReaderInv(m)
    BY <1>1, <2>2, <2>3, <2>5, <2>6 DEF ReaderInv, Idle
  <2>8. ArrayInv(m) /\ HeapInv(m)
    BY <1>1, <2>5, <2>6 DEF Idle, ArrayInv, HeapInv
  <2>9. LoaderInv(m) /\ m.stage \notin TreeGone
    BY <2>5, <2>7, <2>8 DEF LoaderInv, SameBut, Stages, TreeGone
  <2> QED BY <1>1, <1>3, <2>4, <2>9, StepInv DEF ArenaStep
<1>4. ASSUME NEW heap \in {r.heap, r.heap \cup {Storage}}, ParseFailed([r EXCEPT !.heap = heap])
      PROVE  IInv' /\ ArenaStep
  <2>1. PICK l : l = [r EXCEPT !.heap = heap]
    OBVIOUS
  <2>2. SameBut(l, r, {"heap"}) /\ l.heap = heap
    BY <1>2, <2>1 DEF SameBut, Fields
  <2>3. Idle(l)
    BY <1>1, <2>2 DEF Idle, ArrayInv, SameBut, Fields
  <2> QED BY <1>1, <1>4, <2>1, <2>3, ParseFailedInv, ResetStep DEF ArenaStep
<1>5. CASE \E heap \in {r.heap, r.heap \cup {Storage}} : ParseFailed([r EXCEPT !.heap = heap])
  BY <1>4, <1>5
<1>6. CASE ParseFailed([r EXCEPT !.heap = @ \cup {Storage}])
  BY <1>4, <1>6
<1> QED BY <1>3, <1>5, <1>6 DEF wirble_sexp_parse_buffer

\* The next node is one of the tree.
LEMMA NextNodeInv ==
  ASSUME NEW l, LoaderInv(l), l.stage \in {"node", "text"}
  PROVE  LoaderInv(NextNode(l)) /\ NextNode(l).stage \notin TreeGone
<1> DEFINE rest == {i \in DOMAIN l.tree.text : i > l.at /\ l.tree.text[i] # ")"}
<1>1. DOMAIN l = Fields /\ ReaderInv(l) /\ Idle(l) /\ Parsed(l.tree)
  BY IdleFacts DEF LoaderInv, ReaderInv
<1>2. Len(l.tree.text) \in Nat /\ DOMAIN l.tree.text = 1..Len(l.tree.text)
  BY <1>1 DEF Parsed, IsTreeOf
<1>3. ASSUME NEW m, SameBut(m, l, {"stage", "at"}), m.at \in 0..Len(l.tree.text),
             \/ m.stage = "load"
             \/ m.stage = "node" /\ m.at # 0
      PROVE  LoaderInv(m) /\ m.stage \notin TreeGone
  <2>1. /\ m.attempts = l.attempts /\ m.tree = l.tree /\ m.heap = l.heap
        /\ m.form = l.form /\ m.rules = l.rules /\ m.cap = l.cap /\ m.system = l.system
        /\ m.systemCap = l.systemCap
    BY <1>3 DEF SameBut, Fields
  <2>2. ReaderInv(m)
    BY <1>1, <1>3, <2>1 DEF ReaderInv
  <2>3. ArrayInv(m) /\ HeapInv(m)
    BY <1>1, <1>3, <2>1 DEF Idle, ArrayInv, HeapInv
  <2> QED BY <1>3, <2>2, <2>3 DEF LoaderInv, SameBut, Stages, TreeGone
<1>4. CASE rest = {}
  <2>1. PICK m : m = [l EXCEPT !.stage = "load"]
    OBVIOUS
  <2>2. SameBut(m, l, {"stage", "at"}) /\ m.stage = "load" /\ m.at = l.at
    BY <1>1, <2>1 DEF SameBut, Fields
  <2>3. NextNode(l) = m
    BY <1>4, <2>1 DEF NextNode
  <2> QED BY <1>1, <1>3, <2>2, <2>3 DEF ReaderInv
<1>5. CASE rest # {}
  <2>1. rest \in SUBSET Nat
    BY <1>2
  <2>2. Min(rest) \in rest
    BY <1>5, <2>1, MinNat
  <2>3. Min(rest) \in 1..Len(l.tree.text)
    BY <1>2, <2>2
  <2>4. PICK m : m = [l EXCEPT !.stage = "node", !.at = Min(rest)]
    OBVIOUS
  <2>5. SameBut(m, l, {"stage", "at"}) /\ m.stage = "node" /\ m.at = Min(rest)
    BY <1>1, <2>4 DEF SameBut, Fields
  <2>6. NextNode(l) = m
    BY <1>5, <2>4 DEF NextNode
  <2> HIDE DEF rest
  <2>7. m.at \in 0..Len(l.tree.text) /\ m.at # 0
    BY <1>2, <2>3, <2>5
  <2> QED BY <1>3, <2>5, <2>6, <2>7
<1> QED BY <1>4, <1>5

LEMMA NodeStep ==
  ASSUME IInv, wirble_sexp_alloc_node
  PROVE  IInv' /\ ArenaStep
<1>1. r.stage = "node" /\ UNCHANGED Environment /\ LoaderInv(r) /\ Idle(r)
  BY IdleFacts DEF wirble_sexp_alloc_node, IInv
<1>2. CASE ParseFailed(r)
  BY <1>1, <1>2, ParseFailedInv, ResetStep DEF ArenaStep
<1>3. CASE /\ wirble_arena_alloc_from(NodeSize, NodeAlign)
           /\ r' = IF wirble_sexp_node_is_atom(r.tree, r.at) THEN [r EXCEPT !.stage = "text"]
                   ELSE NextNode(r)
  <2>1. ArenaStep
    BY <1>3, MemoryAssumption DEF ArenaStep, ArenaNext
  <2>2. CASE r' = NextNode(r)
    BY <1>1, <2>1, <2>2, NextNodeInv, StepInv
  <2>3. CASE r' = [r EXCEPT !.stage = "text"]
    <3>1. PICK m : m = [r EXCEPT !.stage = "text"]
      OBVIOUS
    <3>2. SameBut(m, r, {"stage"}) /\ m.stage = "text"
      BY <1>1, <3>1 DEF SameBut, Fields, LoaderInv
    <3>3. /\ m.attempts = r.attempts /\ m.tree = r.tree /\ m.heap = r.heap /\ m.at = r.at
          /\ m.form = r.form /\ m.rules = r.rules /\ m.cap = r.cap /\ m.system = r.system
          /\ m.systemCap = r.systemCap
      BY <3>2 DEF SameBut, Fields
    <3>4. ReaderInv(m)
      BY <1>1, <3>2, <3>3 DEF ReaderInv, LoaderInv
    <3>5. ArrayInv(m) /\ HeapInv(m)
      BY <1>1, <3>2, <3>3 DEF Idle, ArrayInv, HeapInv
    <3>6. LoaderInv(m) /\ m.stage \notin TreeGone
      BY <3>2, <3>4, <3>5 DEF LoaderInv, SameBut, Stages, TreeGone
    <3> QED BY <1>1, <2>1, <2>3, <3>1, <3>6, StepInv
  <2> QED BY <1>3, <2>2, <2>3
<1> QED BY <1>2, <1>3 DEF wirble_sexp_alloc_node

LEMMA TextStep ==
  ASSUME IInv, wirble_sexp_copy_bytes
  PROVE  IInv' /\ ArenaStep
<1> DEFINE size == TextSize(r.tree.text[r.at])
<1>1. r.stage = "text" /\ UNCHANGED Environment /\ LoaderInv(r) /\ Idle(r) /\ scenario \in Scenarios
  BY IdleFacts DEF wirble_sexp_copy_bytes, IInv, DiskInv
<1>2. size \in Sizes
  <2>1. PICK text \in Texts(scenario) : IsTreeOf(r.tree, wirble_sexp_wrap_input(text))
    BY <1>1 DEF LoaderInv, ReaderInv, Parsed
  <2>2. r.at \in DOMAIN r.tree.text
    BY <1>1, <2>1 DEF LoaderInv, ReaderInv, IsTreeOf
  <2>3. r.tree.text[r.at] = wirble_sexp_wrap_input(text)[r.at]
    BY <2>1, <2>2 DEF IsTreeOf
  <2>4. r.at \in DOMAIN wirble_sexp_wrap_input(text)
    BY <2>1, <2>2 DEF IsTreeOf
  <2> QED BY <1>1, <2>1, <2>3, <2>4, MemoryAssumption
<1>3. CASE ParseFailed(r)
  BY <1>1, <1>3, ParseFailedInv, ResetStep DEF ArenaStep
<1>4. CASE wirble_arena_alloc_from(size, 1) /\ r' = NextNode(r)
  <2>1. ArenaStep
    BY <1>2, <1>4, MemoryAssumption DEF ArenaStep, ArenaNext
  <2> QED BY <1>1, <1>4, <2>1, NextNodeInv, StepInv
<1> QED BY <1>3, <1>4 DEF wirble_sexp_copy_bytes

-----------------------------------------------------------------------------
(* The steps of the loaders.                                               *)

\* A state that goes on with the form after this one.
LEMMA SkipFacts ==
  ASSUME NEW l, DOMAIN l = Fields
  PROVE  SameBut(Skip(l), l, {"form"}) /\ Skip(l).form = l.form + 1
BY DEF Skip, SameBut, Fields

\* What the reader leaves is not touched while the rules are loaded.
LEMMA LoadingInv ==
  ASSUME NEW l, LoaderInv(l), l.stage \in {"load", "form"},
         NEW m, SameBut(m, l, {"stage", "form", "rules", "cap", "strategy", "heap"}), m.stage = "form",
         m.form \in Nat \ {0}, IsSeq(m.rules), m.cap \in Nat, ~OfMal => Len(m.rules) <= m.cap,
         IF OfMal THEN Within(m.heap, {Storage, System, RuleArray}, Len(m.rules))
         ELSE m.heap \subseteq {Storage, FileArray}
  PROVE  LoaderInv(m) /\ m.stage \notin TreeGone
<1>1. /\ m.attempts = l.attempts /\ m.tree = l.tree /\ m.at = l.at
      /\ m.system = l.system /\ m.systemCap = l.systemCap
  BY DEF SameBut, Fields
<1>2. ReaderInv(m)
  BY <1>1 DEF LoaderInv, ReaderInv
<1>3. ArrayInv(m)
  BY <1>1 DEF LoaderInv, ArrayInv
<1>4. HeapInv(m)
  BY DEF HeapInv
<1> QED BY <1>2, <1>3, <1>4 DEF LoaderInv, SameBut, Stages, TreeGone

LEMMA StartStep ==
  ASSUME IInv, StartLoad
  PROVE  IInv' /\ ArenaStep
<1>1. r.stage = "load" /\ UNCHANGED Environment /\ LoaderInv(r) /\ Idle(r)
  BY IdleFacts DEF StartLoad, IInv
<1>2. CASE r' = LoadFailed(r) /\ wirble_sexp_tree_reset
  BY <1>1, <1>2, LoadFailedInv, StepInv, ResetStep DEF wirble_sexp_tree_reset, wirble_arena_reset
<1>3. CASE /\ UNCHANGED arenaVars
           /\ r' = [r EXCEPT !.stage = "form", !.form = 1, !.rules = <<>>, !.cap = 0,
                             !.strategy = "INNERMOST",
                             !.heap = IF OfMal THEN @ \cup {System} ELSE @]
  <2>1. PICK m : m = [r EXCEPT !.stage = "form", !.form = 1, !.rules = <<>>, !.cap = 0,
                               !.strategy = "INNERMOST",
                               !.heap = IF OfMal THEN @ \cup {System} ELSE @]
    OBVIOUS
  <2>2. /\ SameBut(m, r, {"stage", "form", "rules", "cap", "strategy", "heap"})
        /\ m.stage = "form" /\ m.form = 1 /\ m.rules = <<>> /\ m.cap = 0
        /\ m.heap = IF OfMal THEN r.heap \cup {System} ELSE r.heap
    BY <1>1, <2>1 DEF SameBut, Fields, Idle
  <2>3. IF OfMal THEN Within(m.heap, {Storage, System, RuleArray}, Len(m.rules))
        ELSE m.heap \subseteq {Storage, FileArray}
    BY <1>1, <2>2 DEF Within, Idle
  <2>4. /\ m.form \in Nat \ {0} /\ IsSeq(m.rules) /\ m.cap \in Nat
        /\ ~OfMal => Len(m.rules) <= m.cap
    <3>1. IsSeq(m.rules) /\ Len(m.rules) = 0
      BY <2>2, NothingSeq
    <3> QED BY <2>2, <3>1
  <2>5. LoaderInv(m) /\ m.stage \notin TreeGone
    BY <1>1, <2>2, <2>3, <2>4, LoadingInv
  <2> QED BY <1>1, <1>3, <2>1, <2>5, StepInv DEF ArenaStep
<1> QED BY <1>2, <1>3 DEF StartLoad

\* The form that is loaded is a node of the tree.
LEMMA FormFacts ==
  ASSUME LoaderInv(r), r.stage = "form", Form # 0
  PROVE  \E s : IsTreeOf(r.tree, s) /\ Form \in 1..Len(r.tree.text)
<1>1. PICK s : IsTreeOf(r.tree, s)
  BY DEF LoaderInv, ReaderInv, Parsed
<1>2. r.form - 1 \in Nat
  BY DEF LoaderInv, ArrayInv
<1>3. 1 \in 0..Len(r.tree.text)
  BY <1>1 DEF IsTreeOf
<1>4. Form \in 0..Len(r.tree.text) /\ Len(r.tree.text) \in Nat
  BY <1>1, <1>2, <1>3, ChildFacts DEF Form
<1> QED BY <1>1, <1>4

LEMMA MalFormStep ==
  ASSUME IInv, UNCHANGED Environment, r.stage = "form", Form # 0, OfMal,
         mal_load_rule(wirble_sexp_extract_rule(r.tree, Form))
  PROVE  IInv' /\ ArenaStep
<1> DEFINE view == wirble_sexp_extract_rule(r.tree, Form)
           rule == Len(r.rules) + 1
<1>1. PICK steps : steps = LoadSteps(r.tree, view)
  OBVIOUS
<1>2. LoaderInv(r)
  BY DEF IInv
<1>3. steps \in Seq(Step)
  BY <1>1, <1>2, FormFacts, StepsFacts
<1>4. /\ DOMAIN r = Fields /\ IsSeq(r.rules) /\ Len(r.rules) \in Nat /\ r.cap \in Nat
      /\ r.form \in Nat \ {0} /\ r.attempts \in Seq(Paths) /\ ArrayInv(r)
      /\ Within(r.heap, {Storage, System, RuleArray}, Len(r.rules))
  BY <1>2, SeqFacts DEF LoaderInv, ReaderInv, ArrayInv, HeapInv
<1>5. ASSUME NEW n \in Nat, n <= Len(steps) + 1
      PROVE  Within(r.heap \cup Allocated(steps, n, rule), {Storage, System, RuleArray}, rule)
  <2> SUFFICES ASSUME NEW h \in r.heap \cup Allocated(steps, n, rule)
               PROVE  h \in {Storage, System, RuleArray} \/ h[1] \in 1..rule
    BY DEF Within
  <2>1. CASE h \in r.heap
    BY <1>4, <2>1 DEF Within
  <2>2. CASE h \in Allocated(steps, n, rule)
    <3>1. h = RuleArray \/ h[1] = rule
      BY <1>3, <1>5, <2>2, AllocatedFacts
    <3> QED BY <1>4, <3>1
  <2> QED BY <2>1, <2>2
<1>6. CASE /\ UNCHANGED arenaVars
           /\ r' = Skip([r EXCEPT !.rules = Append(@, MalRule(r.tree, view)),
                                  !.heap = r.heap \cup Allocated(steps, Len(steps) + 1, rule)])
  <2>1. PICK l : l = [r EXCEPT !.rules = Append(@, MalRule(r.tree, view)),
                               !.heap = r.heap \cup Allocated(steps, Len(steps) + 1, rule)]
    OBVIOUS
  <2>2. /\ SameBut(l, r, {"rules", "heap"}) /\ l.rules = Append(r.rules, MalRule(r.tree, view))
        /\ l.heap = r.heap \cup Allocated(steps, Len(steps) + 1, rule)
    BY <1>4, <2>1 DEF SameBut, Fields
  <2>3. IsSeq(l.rules) /\ Len(l.rules) = rule
    BY <1>4, <2>2, AppendSeq
  <2>4. Within(l.heap, {Storage, System, RuleArray}, Len(l.rules))
    <3>1. Len(steps) + 1 \in Nat /\ Len(steps) + 1 <= Len(steps) + 1
      BY <1>3
    <3> QED BY <1>5, <2>2, <2>3, <3>1
  <2>5. SameBut(Skip(l), l, {"form"}) /\ Skip(l).form = l.form + 1
    BY <2>2, SkipFacts DEF SameBut
  <2>6. PICK m : m = Skip(l)
    OBVIOUS
  <2>7. /\ SameBut(m, r, {"stage", "form", "rules", "cap", "strategy", "heap"})
        /\ m.stage = "form" /\ m.form = r.form + 1 /\ m.rules = l.rules /\ m.cap = r.cap /\ m.heap = l.heap
    BY <2>2, <2>5, <2>6 DEF SameBut, Fields
  <2>8. m.form \in Nat \ {0}
    BY <1>4, <2>7
  <2>9. LoaderInv(m) /\ m.stage \notin TreeGone
    BY <1>2, <1>4, <2>3, <2>4, <2>7, <2>8, LoadingInv
  <2> QED BY <1>6, <2>1, <2>6, <2>9, StepInv DEF ArenaStep
<1>7. CASE r' = [r EXCEPT !.stage = "crashed"] /\ UNCHANGED arenaVars
  BY <1>7, CrashStep
<1>8. ASSUME NEW n \in StopsAt(steps), wirble_sexp_tree_reset,
             r' = LoadFailed([r EXCEPT
                    !.heap = mal_mrs_destroy(mal_rule_free_members(r.heap \cup Allocated(steps, n, rule), rule), rule - 1),
                    !.rules = <<>>])
      PROVE  IInv' /\ ArenaStep
  <2>1. n \in Nat /\ n <= Len(steps) + 1
    BY <1>3 DEF StopsAt
  <2>2. PICK heap : heap = r.heap \cup Allocated(steps, n, rule)
    OBVIOUS
  <2>3. mal_mrs_destroy(mal_rule_free_members(heap, rule), rule - 1) \subseteq {Storage}
    <3>1. rule - 1 = Len(r.rules)
      BY <1>4
    <3> QED BY <1>4, <1>5, <2>1, <2>2, <3>1, DestroyFacts
  <2>4. PICK l : l = [r EXCEPT !.heap = mal_mrs_destroy(mal_rule_free_members(heap, rule), rule - 1),
                               !.rules = <<>>]
    OBVIOUS
  <2>5. /\ SameBut(l, r, {"heap", "rules"}) /\ l.rules = <<>>
        /\ l.heap = mal_mrs_destroy(mal_rule_free_members(heap, rule), rule - 1)
    BY <1>4, <2>4 DEF SameBut, Fields
  <2>6. /\ l.attempts = r.attempts /\ l.form = r.form /\ l.cap = r.cap /\ l.system = r.system
        /\ l.systemCap = r.systemCap /\ l.stage = r.stage
    BY <2>5 DEF SameBut, Fields
  <2>7. ArrayInv(l)
    BY <1>4, <2>5, <2>6, NothingSeq DEF ArrayInv
  <2>8. Idle(l)
    BY <1>4, <2>3, <2>5, <2>6, <2>7 DEF Idle, SameBut
  <2> QED BY <1>8, <2>2, <2>4, <2>8, LoadFailedInv, StepInv, ResetStep DEF wirble_sexp_tree_reset, wirble_arena_reset
<1>9. MalForm(view, steps)
  BY <1>1 DEF mal_load_rule
<1> HIDE DEF view, rule
<1> QED BY <1>6, <1>7, <1>8, <1>9 DEF MalForm, rule

LEMMA WilFormStep ==
  ASSUME IInv, UNCHANGED Environment, r.stage = "form", ~OfMal, WilForm, UNCHANGED arenaVars
  PROVE  IInv' /\ ArenaStep
<1>1. LoaderInv(r) /\ DiskInv
  BY DEF IInv
<1>2. /\ DOMAIN r = Fields /\ IsSeq(r.rules) /\ Len(r.rules) \in Nat /\ r.cap \in Nat
      /\ r.form \in Nat \ {0} /\ Len(r.rules) <= r.cap /\ r.heap \subseteq {Storage, FileArray}
  BY <1>1, SeqFacts DEF LoaderInv, ArrayInv, HeapInv
<1>3. ASSUME NEW l, SameBut(l, r, {"rules", "cap", "strategy", "heap"}), IsSeq(l.rules), l.cap \in Nat,
             Len(l.rules) <= l.cap, l.heap \subseteq {Storage, FileArray}, r' = Skip(l)
      PROVE  IInv' /\ ArenaStep
  <2>1. PICK m : m = Skip(l)
    OBVIOUS
  <2>2. SameBut(m, l, {"form"}) /\ m.form = l.form + 1
    BY <1>3, <2>1, SkipFacts DEF SameBut
  <2>3. /\ SameBut(m, r, {"stage", "form", "rules", "cap", "strategy", "heap"})
        /\ m.stage = "form" /\ m.form = r.form + 1 /\ m.rules = l.rules /\ m.cap = l.cap /\ m.heap = l.heap
    BY <1>3, <2>2 DEF SameBut, Fields
  <2>4. m.form \in Nat \ {0}
    BY <1>2, <2>3
  <2>5. LoaderInv(m) /\ m.stage \notin TreeGone
    BY <1>1, <1>3, <2>3, <2>4, LoadingInv
  <2> QED BY <1>3, <2>1, <2>5, StepInv DEF ArenaStep
<1>4. CASE r' = Skip(r)
  BY <1>2, <1>3, <1>4 DEF SameBut
<1>5. ASSUME NEW word, r' = Skip([r EXCEPT !.strategy = word])
      PROVE  IInv' /\ ArenaStep
  <2>1. PICK l : l = [r EXCEPT !.strategy = word]
    OBVIOUS
  <2>2. SameBut(l, r, {"strategy"})
    BY <1>2, <2>1 DEF SameBut, Fields
  <2>3. SameBut(l, r, {"rules", "cap", "strategy", "heap"}) /\ l.rules = r.rules /\ l.cap = r.cap /\ l.heap = r.heap
    BY <2>2 DEF SameBut, Fields
  <2> QED BY <1>2, <1>3, <1>5, <2>1, <2>3
<1>6. ASSUME NEW rule, NEW a \in wrs_append_rule(r.rules, r.cap, rule),
             r' = Skip([r EXCEPT !.rules = a.rules, !.cap = a.cap,
                                 !.heap = IF a.cap = 0 THEN @ ELSE @ \cup {FileArray}])
      PROVE  IInv' /\ ArenaStep
  <2>1. IsSeq(a.rules) /\ a.cap \in Nat /\ Len(a.rules) <= a.cap
    BY <1>1, <1>2, AppendRule
  <2>2. PICK l : l = [r EXCEPT !.rules = a.rules, !.cap = a.cap,
                               !.heap = IF a.cap = 0 THEN @ ELSE @ \cup {FileArray}]
    OBVIOUS
  <2>3. /\ SameBut(l, r, {"rules", "cap", "strategy", "heap"}) /\ l.rules = a.rules /\ l.cap = a.cap
        /\ l.heap = IF a.cap = 0 THEN r.heap ELSE r.heap \cup {FileArray}
    BY <1>2, <2>2 DEF SameBut, Fields
  <2>4. l.heap \subseteq {Storage, FileArray}
    BY <1>2, <2>3
  <2> QED BY <1>3, <1>6, <2>1, <2>2, <2>3, <2>4
<1> QED BY <1>4, <1>5, <1>6 DEF WilForm

LEMMA FormStep ==
  ASSUME IInv, LoadForm
  PROVE  IInv' /\ ArenaStep
<1>1. r.stage = "form" /\ Form # 0 /\ UNCHANGED Environment /\ LoaderInv(r)
  BY DEF LoadForm, IInv
<1>2. CASE ~OfMal
  BY <1>1, <1>2, WilFormStep DEF LoadForm
<1>3. CASE OfMal /\ IsForm(r.tree, Form, "rule")
  BY <1>1, <1>3, MalFormStep DEF LoadForm
<1>4. CASE OfMal /\ r' = Skip(r) /\ UNCHANGED arenaVars
  <2>1. /\ DOMAIN r = Fields /\ IsSeq(r.rules) /\ r.cap \in Nat /\ r.form \in Nat \ {0}
        /\ Within(r.heap, {Storage, System, RuleArray}, Len(r.rules))
    BY <1>1, <1>4 DEF LoaderInv, ArrayInv, HeapInv
  <2>2. PICK m : m = Skip(r)
    OBVIOUS
  <2>3. SameBut(m, r, {"form"}) /\ m.form = r.form + 1
    BY <2>1, <2>2, SkipFacts
  <2>4. /\ SameBut(m, r, {"stage", "form", "rules", "cap", "strategy", "heap"})
        /\ m.stage = "form" /\ m.rules = r.rules /\ m.cap = r.cap /\ m.heap = r.heap
    BY <1>1, <2>3 DEF SameBut, Fields
  <2>5. m.form \in Nat \ {0}
    BY <2>1, <2>3
  <2>6. LoaderInv(m) /\ m.stage \notin TreeGone
    BY <1>1, <1>4, <2>1, <2>4, <2>5, LoadingInv
  <2> QED BY <1>1, <1>4, <2>2, <2>6, StepInv DEF ArenaStep
<1> QED BY <1>2, <1>3, <1>4 DEF LoadForm

\* A state whose tree is gone: only its stage, its arrays and its heap count.
LEMMA LoadedInv ==
  ASSUME NEW m, DOMAIN m = Fields, m.stage \in TreeGone, m.attempts \in Seq(Paths),
         m.tree = NoTree \/ Parsed(m.tree), m.at \in 0..Len(m.tree.text), ArrayInv(m), HeapInv(m)
  PROVE  LoaderInv(m)
BY DEF LoaderInv, ReaderInv, TreeGone, Stages

LEMMA FinishStep ==
  ASSUME IInv, FinishLoad
  PROVE  IInv' /\ ArenaStep
<1> DEFINE stage == IF Loader = "validate" THEN "validate" ELSE IF OfMal THEN "use" ELSE "strategy"
<1>1. /\ r.stage = "form" /\ UNCHANGED Environment /\ LoaderInv(r) /\ wirble_arena_reset
      /\ scenario \in Scenarios
  BY DEF FinishLoad, IInv, wirble_sexp_tree_reset, DiskInv
<1>2. DOMAIN r = Fields /\ r.attempts \in Seq(Paths) /\ ArrayInv(r) /\ HeapInv(r)
  BY <1>1 DEF LoaderInv, ReaderInv
<1>3. PICK d : d = Destroyed(r)
  OBVIOUS
<1>4. /\ SameBut(d, r, {"heap", "tree", "buffer", "at"})
      /\ d.heap = r.heap \ {Storage} /\ d.tree = NoTree /\ d.at = 0
  BY <1>2, <1>3, DestroyedFacts
<1>5. PICK m : m = [d EXCEPT !.found = TRUE, !.form = 1, !.stage = stage]
  OBVIOUS
<1>6. /\ SameBut(m, d, {"found", "form", "stage"}) /\ m.form = 1 /\ m.stage = stage
  BY <1>4, <1>5 DEF SameBut, Fields
<1>7. /\ DOMAIN m = Fields /\ m.attempts = r.attempts /\ m.tree = NoTree /\ m.at = 0 /\ m.heap = r.heap \ {Storage}
      /\ m.rules = r.rules /\ m.cap = r.cap /\ m.system = r.system /\ m.systemCap = r.systemCap
  BY <1>4, <1>6 DEF SameBut, Fields
<1>8. ArrayInv(m)
  BY <1>2, <1>6, <1>7 DEF ArrayInv
<1>9. HeapInv(m)
  <2>1. CASE OfMal
    <3>1. stage = "use" /\ Within(r.heap, {Storage, System, RuleArray}, Len(r.rules))
      BY <1>1, <1>2, <2>1 DEF HeapInv, OfMal
    <3>2. Within(m.heap, {System, RuleArray}, Len(m.rules))
      BY <1>7, <3>1 DEF Within
    <3> QED BY <1>6, <2>1, <3>1, <3>2 DEF HeapInv
  <2>2. CASE ~OfMal
    <3>1. r.heap \subseteq {Storage, FileArray}
      BY <1>1, <1>2, <2>2 DEF HeapInv
    <3>2. m.heap \subseteq {FileArray}
      BY <1>7, <3>1
    <3>3. Loader \in {"wrs", "validate", "builtin"}
      BY <1>1, <2>2, ScenariosAssumption DEF OfMal, Loader
    <3> QED BY <1>6, <2>2, <3>2, <3>3 DEF HeapInv
  <2> QED BY <2>1, <2>2
<1>10. LoaderInv(m)
  <2>1. m.stage \in TreeGone
    BY <1>6 DEF TreeGone
  <2>2. m.at \in 0..Len(m.tree.text)
    BY <1>7, NoTreeFacts
  <2> QED BY <1>2, <1>7, <1>8, <1>9, <2>1, <2>2, LoadedInv
<1>11. r' = m
  BY <1>3, <1>5 DEF FinishLoad
<1> QED BY <1>1, <1>10, <1>11, StepInv, ResetStep DEF wirble_arena_reset

\* What happens to a file's rules once they are loaded: the arena is not used.
LEMMA AfterLoad ==
  ASSUME IInv, UNCHANGED Environment, UNCHANGED arenaVars, r.stage \in TreeGone,
         NEW m, SameBut(m, r, {"stage", "form", "valid", "system", "systemCap", "systemStrategy", "heap"}),
         m.stage \in TreeGone, ArrayInv(m), HeapInv(m), r' = m
  PROVE  IInv' /\ ArenaStep
<1>1. LoaderInv(r)
  BY DEF IInv
<1>2. m.attempts = r.attempts /\ m.tree = r.tree /\ m.at = r.at /\ DOMAIN m = Fields
  BY DEF SameBut, Fields
<1>3. LoaderInv(m)
  BY <1>1, <1>2, LoadedInv DEF LoaderInv, ReaderInv
<1> QED BY <1>3, StepInv DEF ArenaStep

LEMMA ValidateStep ==
  ASSUME IInv, wrsFileValidate
  PROVE  IInv' /\ ArenaStep
<1> DEFINE failing == {n \in DOMAIN r.rules : Validates(r.rules[n]) # "valid"}
           valid == (failing = {})
<1>1. r.stage = "validate" /\ UNCHANGED Environment /\ UNCHANGED arenaVars
  BY DEF wrsFileValidate, Environment
<1>2. DOMAIN r = Fields /\ ArrayInv(r) /\ r.heap \subseteq {FileArray}
  BY <1>1 DEF IInv, LoaderInv, HeapInv
<1>3. PICK d : d = wrsFileDestroy(r)
  OBVIOUS
<1>4. SameBut(d, r, {"heap"}) /\ d.heap = r.heap \ {FileArray}
  BY <1>2, <1>3 DEF wrsFileDestroy, SameBut, Fields
<1>5. PICK m : m = [d EXCEPT !.stage = "done", !.valid = valid]
  OBVIOUS
<1> HIDE DEF valid
<1>6. SameBut(m, d, {"stage", "valid"}) /\ m.stage = "done"
  BY <1>4, <1>5 DEF SameBut, Fields
<1>7. /\ SameBut(m, r, {"stage", "form", "valid", "system", "systemCap", "systemStrategy", "heap"})
      /\ m.form = r.form /\ m.rules = r.rules /\ m.cap = r.cap /\ m.system = r.system
      /\ m.systemCap = r.systemCap /\ m.heap = r.heap \ {FileArray}
  BY <1>4, <1>6 DEF SameBut, Fields
<1>8. ArrayInv(m)
  BY <1>2, <1>6, <1>7 DEF ArrayInv
<1>9. HeapInv(m)
  BY <1>2, <1>6, <1>7 DEF HeapInv
<1>10. r.stage \in TreeGone /\ m.stage \in TreeGone
  BY <1>1, <1>6 DEF TreeGone
<1>11. CASE r' = m
  BY <1>1, <1>7, <1>8, <1>9, <1>10, <1>11, AfterLoad
<1>12. CASE r' = [r EXCEPT !.stage = "crashed"]
  BY <1>1, <1>12, CrashStep
<1>13. r' = [r EXCEPT !.stage = "crashed"] \/ r' = m
  BY <1>3, <1>5 DEF wrsFileValidate, valid
<1> QED BY <1>11, <1>12, <1>13

LEMMA StrategyStep ==
  ASSUME IInv, wilRewriteSystemSetStrategy
  PROVE  IInv' /\ ArenaStep
<1>1. r.stage = "strategy" /\ UNCHANGED Environment /\ UNCHANGED arenaVars
  BY DEF wilRewriteSystemSetStrategy, Environment
<1>2. DOMAIN r = Fields /\ ArrayInv(r) /\ Loader \in {"wrs", "builtin"} /\ r.heap \subseteq {FileArray}
  BY <1>1 DEF IInv, LoaderInv, HeapInv
<1>3. PICK m : m = [r EXCEPT !.stage = "apply", !.systemStrategy = r.strategy]
  OBVIOUS
<1>4. SameBut(m, r, {"stage", "systemStrategy"}) /\ m.stage = "apply"
  BY <1>2, <1>3 DEF SameBut, Fields
<1>5. /\ SameBut(m, r, {"stage", "form", "valid", "system", "systemCap", "systemStrategy", "heap"})
      /\ m.form = r.form /\ m.rules = r.rules /\ m.cap = r.cap /\ m.system = r.system
      /\ m.systemCap = r.systemCap /\ m.heap = r.heap
  BY <1>4 DEF SameBut, Fields
<1>6. ArrayInv(m)
  BY <1>2, <1>4, <1>5 DEF ArrayInv
<1>7. HeapInv(m)
  BY <1>2, <1>4, <1>5 DEF HeapInv
<1>8. r' = m
  BY <1>3 DEF wilRewriteSystemSetStrategy
<1>9. r.stage \in TreeGone /\ m.stage \in TreeGone
  BY <1>1, <1>4 DEF TreeGone
<1> QED BY <1>1, <1>5, <1>6, <1>7, <1>8, <1>9, AfterLoad

LEMMA ApplyStep ==
  ASSUME IInv, wrsFileApplyToSystem
  PROVE  IInv' /\ ArenaStep
<1>1. r.stage = "apply" /\ UNCHANGED Environment /\ UNCHANGED arenaVars
  BY DEF wrsFileApplyToSystem, Environment
<1>2. /\ DOMAIN r = Fields /\ ArrayInv(r) /\ Loader \in {"wrs", "builtin"} /\ DiskInv
      /\ r.heap \subseteq {FileArray, RuleArray}
  BY <1>1 DEF IInv, LoaderInv, HeapInv
<1>3. PICK a \in wrs_append_rule(r.system, r.systemCap, r.rules[r.form]) :
        r' = Skip([r EXCEPT !.system = a.rules, !.systemCap = a.cap,
                            !.heap = IF a.cap = 0 THEN @ ELSE @ \cup {RuleArray}])
  BY DEF wrsFileApplyToSystem
<1>4. ~OfMal
  BY <1>2 DEF OfMal
<1>5. IsSeq(a.rules) /\ a.cap \in Nat /\ Len(a.rules) <= a.cap
  BY <1>2, <1>4, AppendRule DEF ArrayInv
<1>6. PICK l : l = [r EXCEPT !.system = a.rules, !.systemCap = a.cap,
                             !.heap = IF a.cap = 0 THEN @ ELSE @ \cup {RuleArray}]
  OBVIOUS
<1>7. /\ SameBut(l, r, {"system", "systemCap", "heap"}) /\ l.system = a.rules /\ l.systemCap = a.cap
      /\ l.heap = IF a.cap = 0 THEN r.heap ELSE r.heap \cup {RuleArray}
  BY <1>2, <1>6 DEF SameBut, Fields
<1>8. PICK m : m = Skip(l)
  OBVIOUS
<1>9. SameBut(m, l, {"form"}) /\ m.form = l.form + 1
  BY <1>7, <1>8, SkipFacts DEF SameBut
<1>10. /\ SameBut(m, r, {"stage", "form", "valid", "system", "systemCap", "systemStrategy", "heap"})
       /\ m.form = r.form + 1 /\ m.rules = r.rules /\ m.cap = r.cap /\ m.system = a.rules
       /\ m.systemCap = a.cap /\ m.heap = l.heap /\ m.stage = "apply"
  BY <1>1, <1>7, <1>9 DEF SameBut, Fields
<1>11. ArrayInv(m)
  BY <1>2, <1>4, <1>5, <1>10 DEF ArrayInv
<1>12. HeapInv(m)
  BY <1>2, <1>7, <1>10 DEF HeapInv
<1>13. r.stage \in TreeGone /\ m.stage \in TreeGone
  BY <1>1, <1>10 DEF TreeGone
<1> QED BY <1>1, <1>3, <1>6, <1>8, <1>10, <1>11, <1>12, <1>13, AfterLoad

LEMMA AppliedStep ==
  ASSUME IInv, Applied
  PROVE  IInv' /\ ArenaStep
<1>1. r.stage = "apply" /\ UNCHANGED Environment /\ UNCHANGED arenaVars
  BY DEF Applied, Environment
<1>2. /\ DOMAIN r = Fields /\ ArrayInv(r) /\ Loader \in {"wrs", "builtin"}
      /\ r.heap \subseteq {FileArray, RuleArray}
  BY <1>1 DEF IInv, LoaderInv, HeapInv
<1>3. PICK d : d = IF Loader = "builtin" THEN r ELSE wrsFileDestroy(r)
  OBVIOUS
<1>4. /\ SameBut(d, r, {"heap"})
      /\ d.heap = IF Loader = "builtin" THEN r.heap ELSE r.heap \ {FileArray}
  BY <1>2, <1>3 DEF wrsFileDestroy, SameBut, Fields
<1>5. PICK m : m = [d EXCEPT !.stage = "use"]
  OBVIOUS
<1>6. SameBut(m, d, {"stage"}) /\ m.stage = "use"
  BY <1>4, <1>5 DEF SameBut, Fields
<1>7. /\ SameBut(m, r, {"stage", "form", "valid", "system", "systemCap", "systemStrategy", "heap"})
      /\ m.form = r.form /\ m.rules = r.rules /\ m.cap = r.cap /\ m.system = r.system
      /\ m.systemCap = r.systemCap /\ m.heap = d.heap
  BY <1>4, <1>6 DEF SameBut, Fields
<1>8. ArrayInv(m)
  BY <1>2, <1>6, <1>7 DEF ArrayInv
<1>9. HeapInv(m)
  <2>1. ~OfMal
    BY <1>2 DEF OfMal
  <2>2. m.heap \subseteq {RuleArray} \cup (IF Loader = "builtin" THEN {FileArray} ELSE {})
    BY <1>2, <1>4, <1>7
  <2> QED BY <1>6, <2>1, <2>2 DEF HeapInv
<1>10. r' = m
  BY <1>3, <1>5 DEF Applied
<1>11. r.stage \in TreeGone /\ m.stage \in TreeGone
  BY <1>1, <1>6 DEF TreeGone
<1> QED BY <1>1, <1>7, <1>8, <1>9, <1>10, <1>11, AfterLoad

LEMMA ReleaseStep ==
  ASSUME IInv, Release
  PROVE  IInv' /\ ArenaStep
<1> DEFINE heap == IF OfMal THEN mal_mrs_destroy(r.heap, Len(r.rules)) ELSE r.heap \ {RuleArray}
<1>1. r.stage = "use" /\ UNCHANGED Environment /\ UNCHANGED arenaVars
  BY DEF Release, Environment
<1>2. DOMAIN r = Fields /\ ArrayInv(r) /\ HeapInv(r)
  BY <1>1 DEF IInv, LoaderInv
<1>3. heap \subseteq IF Loader = "builtin" THEN {FileArray} ELSE {}
  <2>1. CASE OfMal
    <3>1. Len(r.rules) \in Nat /\ Within(r.heap, {System, RuleArray}, Len(r.rules))
      BY <1>1, <1>2, <2>1, SeqFacts DEF HeapInv, ArrayInv
    <3> QED BY <2>1, <3>1, DestroyAll
  <2>2. CASE ~OfMal
    <3>1. r.heap \subseteq {RuleArray} \cup (IF Loader = "builtin" THEN {FileArray} ELSE {})
      BY <1>1, <1>2, <2>2 DEF HeapInv
    <3> QED BY <2>2, <3>1
  <2> QED BY <2>1, <2>2
<1> HIDE DEF heap
<1>4. PICK m : m = [r EXCEPT !.stage = "done", !.heap = heap]
  OBVIOUS
<1>5. SameBut(m, r, {"stage", "heap"}) /\ m.stage = "done" /\ m.heap = heap
  BY <1>2, <1>4 DEF SameBut, Fields
<1>6. /\ SameBut(m, r, {"stage", "form", "valid", "system", "systemCap", "systemStrategy", "heap"})
      /\ m.form = r.form /\ m.rules = r.rules /\ m.cap = r.cap /\ m.system = r.system
      /\ m.systemCap = r.systemCap
  BY <1>5 DEF SameBut, Fields
<1>7. ArrayInv(m)
  BY <1>2, <1>5, <1>6 DEF ArrayInv
<1>8. HeapInv(m)
  BY <1>3, <1>5 DEF HeapInv
<1>9. r' = m
  BY <1>4 DEF Release, heap
<1>10. r.stage \in TreeGone /\ m.stage \in TreeGone
  BY <1>1, <1>5 DEF TreeGone
<1> QED BY <1>1, <1>6, <1>7, <1>8, <1>9, <1>10, AfterLoad

-----------------------------------------------------------------------------
(* Another process, and all of it.                                         *)

LEMMA WriteStep ==
  ASSUME IInv, Write
  PROVE  IInv' /\ ArenaStep
<1>1. PICK n \in 0..Len(Tokens(scenario.edit.forms)) :
        /\ written' = n
        /\ disk' = [disk EXCEPT ![scenario.edit.path] = SubSeq(Tokens(scenario.edit.forms), 1, n)]
        /\ UNCHANGED <<scenario, r, arenaVars>>
  BY DEF Write
<1>2. scenario \in Scenarios /\ n \in Nat /\ written' \in 0..Len(Tokens(scenario.edit.forms))
  BY <1>1, ScenarioTexts DEF IInv, DiskInv
<1>3. DiskInv'
  <2>1. ASSUME NEW p \in DOMAIN disk'
        PROVE  disk'[p] = IF Edited(p)' THEN SubSeq(Tokens(scenario.edit.forms), 1, written')
                          ELSE IF p \in scenario.present THEN Tokens(scenario.files[p]) ELSE Missing
    <3>1. p \in DOMAIN disk
      BY <1>1
    <3>2. CASE p = scenario.edit.path
      BY <1>1, <1>2, <3>1, <3>2 DEF Edited
    <3>3. CASE p # scenario.edit.path
      BY <1>1, <3>1, <3>3 DEF IInv, DiskInv, Edited
    <3> QED BY <3>2, <3>3
  <2>2. written' \in -1..Len(Tokens(scenario.edit.forms))
    BY <1>2
  <2>3. DOMAIN disk' = DOMAIN scenario.files /\ scenario' = scenario
    BY <1>1 DEF IInv, DiskInv
  <2> QED BY <1>2, <2>1, <2>2, <2>3 DEF DiskInv
<1>4. LoaderInv(r)'
  <2>1. BufferInv(r) => BufferInv(r)'
    <3>1. /\ scenario' = scenario /\ r' = r /\ DOMAIN disk' = DOMAIN disk
          /\ Edited(r.path) => Edited(r.path)'
      BY <1>1, <1>2 DEF Edited
    <3>2. ASSUME BufferInv(r)
          PROVE  \E old \in {<< >>} \cup {Tokens(scenario.files[p]) : p \in {r.path} \cap scenario.present} :
                   \E k \in 0..Len(Tokens(scenario.edit.forms)) :
                     r.buffer = Spliced(scenario, old, k) /\ (k > Len(old) => Edited(r.path)')
      BY <3>1, <3>2 DEF BufferInv
    <3>3. BufferInv(r) => r.path \in DOMAIN disk /\ (r.path \in scenario.present \/ Edited(r.path)')
      BY <3>1 DEF BufferInv
    <3> QED BY <3>1, <3>2, <3>3 DEF BufferInv
  <2> QED BY <1>1, <2>1 DEF IInv, LoaderInv, ReaderInv, ArrayInv, HeapInv, Parsed, Within, OfMal, Loader
<1>5. BlocksInv'
  BY <1>1 DEF IInv, BlocksInv, arenaVars
<1> QED BY <1>1, <1>3, <1>4, <1>5 DEF IInv, ArenaStep

LEMMA InitInv == ASSUME Init PROVE IInv
<1>1. scenario \in Scenarios /\ Loader \in {"mrs", "wrs", "validate", "builtin"}
  BY ScenariosAssumption DEF Init, Loader
<1>2. DiskInv
  <2>1. /\ DOMAIN disk = DOMAIN scenario.files /\ written = -1
        /\ \A p \in DOMAIN disk : disk[p] = IF p \in scenario.present THEN Tokens(scenario.files[p]) ELSE Missing
    BY DEF Init
  <2>2. -1 \in -1..Len(Tokens(scenario.edit.forms)) /\ \A p : ~Edited(p)
    BY <1>1, <2>1, ScenarioTexts DEF Edited
  <2> QED BY <1>1, <2>1, <2>2 DEF DiskInv
<1>3. /\ DOMAIN r = Fields /\ r.stage = "try" /\ r.attempts = Attempts(Loader) /\ r.tree = NoTree /\ r.at = 0
      /\ r.form = 0 /\ r.rules = <<>> /\ r.cap = 0 /\ r.system = <<>> /\ r.systemCap = 0 /\ r.heap = {}
  BY DEF Init, Loader, Fields
<1>4. Attempts(Loader) \in Seq(Paths) /\ Attempts(Loader) # <<>>
  <2>1. Attempts(Loader) \in {<<"path", "std/path">>, <<"path">>, <<"std", "cwd">>}
    BY <1>1 DEF Attempts
  <2>2. {<<"path", "std/path">>, <<"path">>, <<"std", "cwd">>} \subseteq Seq(Paths) \ {<<>>}
    BY DEF Paths
  <2> QED BY <2>1, <2>2
<1>5. ReaderInv(r)
  BY <1>3, <1>4, NoTreeFacts DEF ReaderInv
<1>6. ArrayInv(r)
  BY <1>3, NothingSeq DEF ArrayInv
<1>7. HeapInv(r)
  BY <1>3 DEF HeapInv
<1> QED BY <1>2, <1>3, <1>5, <1>6, <1>7 DEF IInv, LoaderInv, Stages, BlocksInv, TreeGone

\* Every step keeps the invariant, and uses the arena as its specification says.
LEMMA NextInv ==
  ASSUME IInv, [Next]_vars
  PROVE  IInv' /\ ArenaStep
<1>1. CASE UNCHANGED vars
  <2>1. /\ scenario' = scenario /\ disk' = disk /\ written' = written /\ r' = r
        /\ UNCHANGED arenaVars /\ UNCHANGED Environment
    BY <1>1 DEF vars, arenaVars, Environment
  <2>2. LoaderInv(r) /\ BlocksInv
    BY DEF IInv
  <2> QED BY <2>1, <2>2, StepInv DEF ArenaStep, BlocksInv
<1>2. CASE Load
  BY <1>2, OpenStep, ChunkStep, ParseStep, NodeStep, TextStep, StartStep, FormStep, FinishStep,
     ValidateStep, StrategyStep, ApplyStep, AppliedStep, ReleaseStep DEF Load
<1>3. CASE Write
  BY <1>3, WriteStep
<1> QED BY <1>1, <1>2, <1>3 DEF Next, Ended

LEMMA SpecInv == Spec => []IInv
<1>1. Init => IInv
  BY InitInv
<1>2. IInv /\ [Next]_vars => IInv'
  BY NextInv
<1> QED BY <1>1, <1>2, PTL DEF Spec

\* Types, and in particular: no node of a tree is followed to one outside it,
\* and no array of rules holds more than it has room for, whichever growth
\* of it fails (wrs_append_rule).
THEOREM TypeCorrect == Spec => []TypeOK
<1>1. IInv => TypeOK
  <2> SUFFICES ASSUME IInv PROVE TypeOK
    OBVIOUS
  <2>1. LoaderInv(r) /\ DiskInv
    BY DEF IInv
  <2>2. \A i \in DOMAIN r.tree.kids : \A n \in DOMAIN r.tree.kids[i] :
          r.tree.kids[i][n] \in (i + 1)..Len(r.tree.text)
    <3>1. CASE r.tree = NoTree
      BY <3>1, NoTreeFacts
    <3>2. CASE Parsed(r.tree)
      <4>1. PICK s : IsTreeOf(r.tree, s)
        BY <3>2 DEF Parsed
      <4> QED BY <4>1 DEF IsTreeOf
    <3> QED BY <2>1, <3>1, <3>2 DEF LoaderInv, ReaderInv
  <2>3. /\ scenario \in Scenarios
        /\ r.stage \in Stages /\ r.at \in 0..Len(r.tree.text)
        /\ ~OfMal => Len(r.rules) <= r.cap /\ Len(r.system) <= r.systemCap
    BY <2>1 DEF DiskInv, LoaderInv, ReaderInv, ArrayInv
  <2>4. written >= -1
    BY <2>1, ScenarioTexts DEF DiskInv
  <2> QED BY <2>2, <2>3, <2>4 DEF TypeOK, Stages
<1> QED BY <1>1, SpecInv, PTL

\* However a load ends, at whatever allocation it fails and whatever another
\* process does to the files, the tree and everything else that mrs_loader.c
\* and wrs_loader.c have allocated is freed, but for the array of the built-in
\* rules.
THEOREM NothingIsLeft == Spec => []NothingLeft
<1>1. IInv => NothingLeft
  BY DEF IInv, BlocksInv, TreeGone, LoaderInv, HeapInv, NothingLeft
<1> QED BY <1>1, SpecInv, PTL

\* The reader uses the arena as its specification allows: every step of a
\* load is an allocation, a reset or nothing to it.
THEOREM ArenaRefined == Spec => ArenaSpec
<1>1. Init => ArenaInit
  BY DEF Init
<1>2. IInv /\ [Next]_vars => [ArenaNext]_arenaVars
  BY NextInv DEF ArenaStep
<1> QED BY <1>1, <1>2, SpecInv, PTL DEF Spec, ArenaSpec

\* So the nodes and texts of a tree never overlap.
THEOREM TreesAreSound == Spec => []ArenaSound
BY ArenaRefined, ArenaIsSound, PTL
=============================================================================
