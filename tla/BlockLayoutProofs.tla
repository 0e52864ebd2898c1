------------------------- MODULE BlockLayoutProofs -------------------------
(***************************************************************************)
(* Proofs about BlockLayout, for every program and every caller.           *)
(***************************************************************************)
EXTENDS BlockLayout, NumberFacts, SequenceTheorems

-----------------------------------------------------------------------------
(* The inductive invariant.                                                *)

Ids == {blocks[b].id : b \in Blocks}
Fns == {blocks[b].fn : b \in Blocks}
BlockRecord == [fn : Nat, id : Nat, term : Terms, n : Nat]
Frame == [block : Blocks, next : Nat \ {0}]

\* The blocks of a function are numbered and follow each other.
ProgramInv ==
  /\ blocks \in Seq(BlockRecord)
  /\ \A b, c \in Blocks : blocks[b].fn = blocks[c].fn =>
       /\ b # c => blocks[b].id # blocks[c].id
       /\ \A d \in b..c : blocks[d].fn = blocks[b].fn

\* Edges are ids of blocks; they are computed before the layout.
CfgType ==
  /\ phase \in {"mal", "layout", "done"} /\ edits \in 0..MaxEdits
  /\ succs \in [Blocks -> Seq(Ids)] /\ preds \in [Blocks -> Seq(Ids)]
  /\ fresh \in SUBSET Fns
  /\ cursor \in {0} \cup Blocks /\ (cursor # 0 => phase = "mal")

\* mal_compute_cfg has come past b since b's function was changed.
Computed(b) ==
  IF cursor # 0 /\ blocks[cursor].fn = blocks[b].fn THEN b < cursor ELSE blocks[b].fn \in fresh

\* The lists in the middle of mal_compute_cfg: a block's predecessors are the
\* edges from itself and from later blocks.
CfgInv ==
  \A b \in Blocks : Computed(b) =>
    /\ succs[b] = SuccsAfter(b)
    /\ \A p \in FunctionOf(b) : p >= b /\ Computed(p) =>
         Count(preds[b], blocks[p].id) = Count(EdgesOf(p), b)
    /\ \A j \in DOMAIN preds[b] :
         \E p \in FunctionOf(b) : p >= b /\ Computed(p) /\ blocks[p].id = preds[b][j]

\* A block is entered once: it is on the stack, then it is finished.
SearchInv ==
  /\ postorder \in Seq(Blocks) /\ dfs \in Seq(Frame)
  /\ \A i \in DOMAIN dfs : dfs[i].next <= Len(succs[dfs[i].block]) + 1
  /\ seen = {postorder[i] : i \in DOMAIN postorder} \cup {dfs[i].block : i \in DOMAIN dfs}
  /\ \A i, j \in DOMAIN postorder : postorder[i] = postorder[j] => i = j
  /\ \A i, j \in DOMAIN dfs : dfs[i].block = dfs[j].block => i = j
  /\ \A i \in DOMAIN postorder, j \in DOMAIN dfs : postorder[i] # dfs[j].block
  /\ IsFiniteSet(seen) /\ Cardinality(seen) = Len(postorder) + Len(dfs)
  /\ phase = "mal" => dfs = <<>> /\ postorder = <<>>
  /\ phase = "done" => dfs = <<>> /\ seen = Blocks

\* What the search has established of the edges it has followed.
\* Chain: a block on the stack can be reached from the ones below it.
Chain == \A i, j \in DOMAIN dfs : i <= j => dfs[i].block \in Reach(dfs[j].block)

\* Followed: the successors a block on the stack has come past are seen.
Followed ==
  \A i \in DOMAIN dfs : \A j \in DOMAIN succs[dfs[i].block] :
    j < dfs[i].next /\ tos_find_block_index(succs[dfs[i].block][j]) \in Blocks =>
      tos_find_block_index(succs[dfs[i].block][j]) \in seen

\* Finished: so are those of a finished block; each was finished before it or
\* leads back to it.
Finished ==
  \A i \in DOMAIN postorder : \A c \in Blocks : Leads(postorder[i], c) =>
    /\ c \in seen
    /\ (\E k \in DOMAIN postorder : k < i /\ postorder[k] = c) \/ postorder[i] \in Reach(c)

\* Entry: block 1 is entered first; the blocks finished up to it lead nowhere
\* else.
Entry ==
  \/ seen = {}
  \/ dfs # <<>> /\ dfs[Len(dfs)].block = 1
  \/ \E i \in DOMAIN postorder :
       /\ postorder[i] = 1
       /\ \A j \in 1..i, c \in Blocks : Leads(postorder[j], c) => \E k \in 1..i : postorder[k] = c

\* The stream and its descriptors are those of the blocks in the given order.
Laid(order) ==
  /\ layout = Descriptors(order)
  /\ stream = Concatenated(order, [b \in Blocks |-> Instrs(b)])

StreamInv ==
  /\ phase = "layout" => Laid([b \in Blocks |-> b])
  /\ phase = "done" => Laid(LayoutOrder)

IInv ==
  /\ ProgramInv /\ CfgType /\ CfgInv
  /\ SearchInv /\ Chain /\ Followed /\ Finished /\ Entry
  /\ StreamInv

-----------------------------------------------------------------------------
(* Counting and adding up.                                                 *)

\* An element occurs a number of times.
LEMMA CountType ==
  ASSUME NEW S, NEW s \in Seq(S), NEW x
  PROVE  Count(s, x) \in Nat /\ IsFiniteSet({j \in DOMAIN s : s[j] = x})
<1>1. IsFiniteSet(DOMAIN s)
  <2>1. DOMAIN s = 1..Len(s) /\ Len(s) \in Nat
    OBVIOUS
  <2> QED BY <2>1, FS_Interval
<1>2. {j \in DOMAIN s : s[j] = x} \in SUBSET DOMAIN s
  OBVIOUS
<1>3. IsFiniteSet({j \in DOMAIN s : s[j] = x})
  BY <1>1, <1>2, FS_Subset
<1> QED BY <1>3, FS_CardinalityType DEF Count

\* It occurs zero times if it is nowhere.
LEMMA CountZero ==
  ASSUME NEW s, NEW x, \A j \in DOMAIN s : s[j] # x
  PROVE  Count(s, x) = 0
<1>1. {j \in DOMAIN s : s[j] = x} = {}
  OBVIOUS
<1> QED BY <1>1, FS_EmptySet DEF Count

\* n copies of y behind a sequence add n to the count of y alone.
LEMMA CountCopies ==
  ASSUME NEW S, NEW s \in Seq(S), NEW y \in S,
         NEW c \in Seq(S), \A j \in DOMAIN c : c[j] = y
  PROVE  Count(s \o c, y) = Count(s, y) + Len(c)
<1> DEFINE t == s \o c
           n == Len(c)
           old == {j \in DOMAIN s : s[j] = y}
           new == (Len(s) + 1)..(Len(s) + n)
<1>1. Len(s) \in Nat /\ n \in Nat /\ DOMAIN s = 1..Len(s) /\ DOMAIN c = 1..n
  OBVIOUS
<1>2. /\ DOMAIN t = 1..(Len(s) + n)
      /\ \A j \in 1..(Len(s) + n) : t[j] = IF j <= Len(s) THEN s[j] ELSE c[j - Len(s)]
  BY <1>1, ConcatProperties, LenProperties
<1>3. IsFiniteSet(old) /\ Count(s, y) = Cardinality(old) /\ Cardinality(old) \in Nat
  BY CountType DEF Count
<1> HIDE DEF t, n
<1>4. {j \in DOMAIN t : t[j] = y} = old \cup new
  BY <1>1, <1>2
<1>5. old \cap new = {}
  BY <1>1
<1>6. IsFiniteSet(new) /\ Cardinality(new) = n
  <2>1. Len(s) + 1 \in Int /\ Len(s) + n \in Int
    BY <1>1
  <2>2. IsFiniteSet(new)
    BY <2>1, FS_Interval
  <2>3. Cardinality(new) = IF Len(s) + 1 > Len(s) + n THEN 0 ELSE (Len(s) + n) - (Len(s) + 1) + 1
    BY <2>1, FS_Interval
  <2> QED BY <2>2, <2>3, <1>1
<1>7. Cardinality(old \cup new) = Cardinality(old) + n
  <2>1. Cardinality(old \cup new) = Cardinality(old) + Cardinality(new) - Cardinality(old \cap new)
    BY <1>3, <1>6, FS_Union
  <2>2. Cardinality(old \cap new) = 0
    BY <1>5, FS_EmptySet
  <2> QED BY <1>1, <1>3, <1>6, <2>1, <2>2
<1> QED BY <1>3, <1>4, <1>7 DEF Count, t, n

LEMMA CountOthers ==
  ASSUME NEW S, NEW s \in Seq(S), NEW y \in S,
         NEW c \in Seq(S), \A j \in DOMAIN c : c[j] = y
  PROVE  \A x : x # y => Count(s \o c, x) = Count(s, x)
<1> SUFFICES ASSUME NEW x, x # y PROVE Count(s \o c, x) = Count(s, x)
  OBVIOUS
<1>1. Len(s) \in Nat /\ Len(c) \in Nat /\ DOMAIN s = 1..Len(s) /\ DOMAIN c = 1..Len(c)
  OBVIOUS
<1>2. /\ DOMAIN (s \o c) = 1..(Len(s) + Len(c))
      /\ \A j \in 1..(Len(s) + Len(c)) : (s \o c)[j] = IF j <= Len(s) THEN s[j] ELSE c[j - Len(s)]
  BY <1>1, ConcatProperties, LenProperties
<1>3. {j \in DOMAIN (s \o c) : (s \o c)[j] = x} = {j \in DOMAIN s : s[j] = x}
  BY <1>1, <1>2
<1> QED BY <1>3 DEF Count

\* Before adds up sizes.
LEMMA BeforeStep ==
  ASSUME NEW sizes \in Seq(Nat)
  PROVE  /\ Before(sizes, 1) = 0
         /\ \A i \in 1..(Len(sizes) + 1) : Before(sizes, i) \in Nat
         /\ \A i \in 1..Len(sizes) : Before(sizes, i + 1) = Before(sizes, i) + sizes[i]
<1> DEFINE U(i) == UNION {{k} \X (1..sizes[k]) : k \in 1..(i - 1)}
           N == Len(sizes)
<1>1. N \in Nat /\ \A i \in 1..N : sizes[i] \in Nat
  OBVIOUS
<1>2. U(1) = {}
  OBVIOUS
<1>3. ASSUME NEW i \in 1..N
      PROVE  /\ U(i + 1) = U(i) \cup ({i} \X (1..sizes[i]))
             /\ U(i) \cap ({i} \X (1..sizes[i])) = {}
  <2>1. i \in Nat /\ i <= N
    BY <1>1
  <2>2. 1..((i + 1) - 1) = (1..(i - 1)) \cup {i}
    BY <2>1
  <2>3. \A e \in U(i) : e[1] \in 1..(i - 1)
    OBVIOUS
  <2>4. \A e \in {i} \X (1..sizes[i]) : e[1] = i
    OBVIOUS
  <2>5. i \notin 1..(i - 1)
    BY <2>1
  <2> QED BY <2>2, <2>3, <2>4, <2>5
<1>4. ASSUME NEW i \in 1..N
      PROVE  /\ IsFiniteSet({i} \X (1..sizes[i]))
             /\ Cardinality({i} \X (1..sizes[i])) = sizes[i]
  <2>1. sizes[i] \in Nat
    BY <1>1
  <2>2. IsFiniteSet(1..sizes[i]) /\ Cardinality(1..sizes[i]) = sizes[i]
    <3>1. 1 \in Int /\ sizes[i] \in Int
      BY <2>1
    <3>2. IsFiniteSet(1..sizes[i])
      BY <3>1, FS_Interval
    <3>3. Cardinality(1..sizes[i]) = IF 1 > sizes[i] THEN 0 ELSE sizes[i] - 1 + 1
      BY <3>1, FS_Interval
    <3> QED BY <3>2, <3>3, <2>1
  <2>3. IsFiniteSet({i}) /\ Cardinality({i}) = 1
    BY FS_Singleton
  <2>4. IsFiniteSet({i} \X (1..sizes[i])) /\ Cardinality({i} \X (1..sizes[i])) = 1 * sizes[i]
    BY <2>2, <2>3, FS_Product
  <2> QED BY <2>1, <2>4
<1>5. \A i \in 1..(N + 1) : IsFiniteSet(U(i))
  <2> HIDE DEF U
  <2> DEFINE bad == {i \in 1..(N + 1) : ~ IsFiniteSet(U(i))}
  <2>1. SUFFICES ASSUME bad # {} PROVE FALSE
    OBVIOUS
  <2>2. bad \in SUBSET Nat
    BY <1>1
  <2>3. PICK m \in bad : \A k \in bad : m <= k
    BY <2>1, <2>2, SmallestNat
  <2>4. m # 1
    BY <1>2, <2>3, FS_EmptySet
  <2>5. m - 1 \in 1..N /\ m - 1 \notin bad
    BY <2>3, <2>4, <1>1
  <2>6. IsFiniteSet(U(m - 1))
    BY <2>5, <1>1
  <2>7. U((m - 1) + 1) = U(m - 1) \cup ({m - 1} \X (1..sizes[m - 1]))
    BY <2>5, <1>3
  <2>8. IsFiniteSet(U((m - 1) + 1))
    <3>1. IsFiniteSet({m - 1} \X (1..sizes[m - 1]))
      BY <2>5, <1>4
    <3>2. IsFiniteSet(U(m - 1) \cup ({m - 1} \X (1..sizes[m - 1])))
      BY <2>6, <3>1, FS_Union
    <3> QED BY <2>7, <3>2
  <2>9. (m - 1) + 1 = m
    BY <2>3, <1>1
  <2> QED BY <2>3, <2>8, <2>9
<1>6. \A i : Before(sizes, i) = Cardinality(U(i))
  BY DEF Before
<1>7. ASSUME NEW i \in 1..N
      PROVE  Cardinality(U(i + 1)) = Cardinality(U(i)) + sizes[i]
  <2> HIDE DEF U
  <2>1. IsFiniteSet(U(i)) /\ Cardinality(U(i)) \in Nat
    <3>1. i \in 1..(N + 1)
      BY <1>1
    <3> QED BY <3>1, <1>5, FS_CardinalityType
  <2>2. Cardinality(U(i) \cup ({i} \X (1..sizes[i]))) =
          Cardinality(U(i)) + Cardinality({i} \X (1..sizes[i])) - Cardinality(U(i) \cap ({i} \X (1..sizes[i])))
    BY <2>1, <1>4, FS_Union
  <2>3. Cardinality(U(i) \cap ({i} \X (1..sizes[i]))) = 0
    BY <1>3, FS_EmptySet
  <2>4. Cardinality({i} \X (1..sizes[i])) = sizes[i] /\ sizes[i] \in Nat
    BY <1>1, <1>4
  <2>5. Cardinality(U(i + 1)) = Cardinality(U(i) \cup ({i} \X (1..sizes[i])))
    BY <1>3
  <2> QED BY <2>1, <2>2, <2>3, <2>4, <2>5
<1> HIDE DEF U
<1>8. \A i \in 1..(N + 1) : Cardinality(U(i)) \in Nat
  BY <1>5, FS_CardinalityType
<1> QED BY <1>2, <1>6, <1>7, <1>8, FS_EmptySet

\* The instructions of a block come before those of a later one.
LEMMA BeforeOrdered ==
  ASSUME NEW sizes \in Seq(Nat), NEW i \in 1..Len(sizes), NEW j \in 1..(Len(sizes) + 1), i < j
  PROVE  Before(sizes, i) + sizes[i] <= Before(sizes, j)
<1> DEFINE N == Len(sizes)
           B(k) == Before(sizes, k)
           bad == {k \in (i + 1)..(N + 1) : ~ (B(i) + sizes[i] <= B(k))}
<1>1. N \in Nat /\ \A k \in 1..N : sizes[k] \in Nat
  OBVIOUS
<1>2. /\ \A k \in 1..(N + 1) : B(k) \in Nat
      /\ \A k \in 1..N : B(k + 1) = B(k) + sizes[k]
  BY BeforeStep
<1> HIDE DEF B
<1>3. SUFFICES ASSUME bad # {} PROVE FALSE
  <2>1. j \in (i + 1)..(N + 1)
    BY <1>1
  <2> QED BY <2>1 DEF B
<1>4. bad \in SUBSET Nat
  BY <1>1
<1>5. PICK m \in bad : \A k \in bad : m <= k
  BY <1>3, <1>4, SmallestNat
<1>6. m # i + 1
  <2>1. B(i + 1) = B(i) + sizes[i] /\ B(i) \in Nat /\ sizes[i] \in Nat
    BY <1>1, <1>2
  <2> QED BY <2>1, <1>5
<1>7. m - 1 \in (i + 1)..(N + 1) /\ m - 1 \in 1..N /\ m - 1 \notin bad /\ (m - 1) + 1 = m
  BY <1>1, <1>5, <1>6
<1>8. B(i) + sizes[i] <= B(m - 1)
  BY <1>7
<1>9. B((m - 1) + 1) = B(m - 1) + sizes[m - 1]
  BY <1>2, <1>7
<1>10. sizes[m - 1] \in Nat /\ sizes[i] \in Nat
  BY <1>1, <1>7
<1>11. m - 1 \in 1..(N + 1) /\ i \in 1..(N + 1)
  BY <1>1, <1>7
<1>12. B(m - 1) \in Nat /\ B(i) \in Nat
  BY <1>2, <1>11
<1>13. B(i) + sizes[i] <= B((m - 1) + 1)
  <2>1. \A x, y, z \in Nat : x <= y => x <= y + z
    OBVIOUS
  <2>2. B(i) + sizes[i] \in Nat
    BY <1>10, <1>12
  <2>3. B(i) + sizes[i] <= B(m - 1) + sizes[m - 1]
    BY <1>8, <1>10, <1>12, <2>1, <2>2
  <2> QED BY <1>9, <2>3
<1>14. B(i) + sizes[i] <= B(m)
  BY <1>13, <1>7
<1> QED BY <1>5, <1>14

\* Every position belongs to one block.
LEMMA BeforeCovers ==
  ASSUME NEW sizes \in Seq(Nat), NEW k \in 1..Before(sizes, Len(sizes) + 1)
  PROVE  \E i \in 1..Len(sizes) : k \in (Before(sizes, i) + 1)..(Before(sizes, i) + sizes[i])
<1> DEFINE N == Len(sizes)
           B(i) == Before(sizes, i)
           S == {i \in 1..(N + 1) : B(i) < k}
<1>1. N \in Nat /\ \A i \in 1..N : sizes[i] \in Nat
  OBVIOUS
<1>2. /\ B(1) = 0
      /\ \A i \in 1..(N + 1) : B(i) \in Nat
      /\ \A i \in 1..N : B(i + 1) = B(i) + sizes[i]
  BY BeforeStep
<1>3. k \in 1..B(N + 1)
  OBVIOUS
<1> HIDE DEF B
<1>4. S \in SUBSET Nat /\ S # {} /\ \A i \in S : i <= N + 1
  <2>1. 1 \in S
    BY <1>1, <1>2, <1>3
  <2> QED BY <1>1, <2>1
<1>5. PICK m \in S : \A i \in S : i <= m
  <2>1. N + 1 \in Nat
    BY <1>1
  <2> QED BY <1>4, <2>1, LargestNat
<1>6. N + 1 \in 1..(N + 1) /\ B(N + 1) \in Nat
  BY <1>1, <1>2
<1>7. m # N + 1
  BY <1>3, <1>5, <1>6
<1>8. m \in 1..N /\ m + 1 \in 1..(N + 1) /\ m + 1 \notin S
  BY <1>1, <1>5, <1>7
<1>9. B(m) \in Nat /\ B(m + 1) = B(m) + sizes[m] /\ sizes[m] \in Nat /\ B(m) < k /\ ~ (B(m + 1) < k)
  BY <1>1, <1>2, <1>5, <1>8
<1>10. k \in (B(m) + 1)..(B(m) + sizes[m])
  BY <1>3, <1>6, <1>9
<1> QED BY <1>8, <1>10 DEF B

-----------------------------------------------------------------------------
(* Blocks and edges.                                                       *)

\* Blocks are positions.
LEMMA BlockFacts ==
  ASSUME ProgramInv
  PROVE  /\ Blocks = 1..Len(blocks) /\ Len(blocks) \in Nat /\ Blocks \subseteq Nat \ {0}
         /\ \A b \in Blocks : /\ blocks[b].fn \in Nat /\ blocks[b].id \in Nat /\ blocks[b].n \in Nat
                              /\ blocks[b].id \in Ids /\ blocks[b].fn \in Fns
                              /\ b \in FunctionOf(b) /\ FunctionOf(b) \subseteq Blocks
<1>1. Blocks = 1..Len(blocks) /\ Len(blocks) \in Nat /\ Blocks \subseteq Nat \ {0}
  BY DEF ProgramInv, Blocks
<1>2. \A b \in Blocks : blocks[b] \in BlockRecord
  BY <1>1 DEF ProgramInv, Blocks
<1> QED BY <1>1, <1>2 DEF BlockRecord, Ids, Fns, FunctionOf

\* An edge leads to a block of the same function.
LEMMA EdgeToType ==
  ASSUME ProgramInv, NEW b \in Blocks, NEW id
  PROVE  EdgeTo(b, id) \in Seq(FunctionOf(b))
<1> DEFINE named == {c \in FunctionOf(b) : blocks[c].id = id}
<1>1. named \in SUBSET Nat
  BY BlockFacts
<1>2. CASE named = {}
  BY <1>2 DEF EdgeTo
<1>3. CASE named # {}
  <2>1. Min(named) \in FunctionOf(b)
    BY <1>1, <1>3, MinNat
  <2> QED BY <1>3, <2>1 DEF EdgeTo
<1> QED BY <1>2, <1>3

LEMMA EdgesType ==
  ASSUME ProgramInv, NEW b \in Blocks
  PROVE  EdgesOf(b) \in Seq(FunctionOf(b))
<1> DEFINE F == FunctionOf(b)
           x == EdgeTo(b, blocks[b].term.targets[1])
           y == EdgeTo(b, blocks[b].term.targets[2])
<1>1. x \in Seq(F) /\ y \in Seq(F)
  BY EdgeToType
<1>2. x \o y \in Seq(F)
  BY <1>1, ConcatProperties
<1>3. b + 1 \in F => <<b + 1>> \in Seq(F)
  OBVIOUS
<1>4. <<>> \in Seq(F)
  OBVIOUS
<1> HIDE DEF F
<1>5. CASE blocks[b].term.op = "BR"
  BY <1>1, <1>5 DEF EdgesOf, F
<1>6. CASE blocks[b].term.op = "CBR"
  BY <1>2, <1>6 DEF EdgesOf, F
<1>7. CASE blocks[b].term.op = "NONE" /\ b + 1 \in FunctionOf(b)
  BY <1>3, <1>7 DEF EdgesOf, F
<1>8. CASE /\ blocks[b].term.op \notin {"BR", "CBR"}
           /\ ~ (blocks[b].term.op = "NONE" /\ b + 1 \in FunctionOf(b))
  BY <1>4, <1>8 DEF EdgesOf
<1> QED BY <1>5, <1>6, <1>7, <1>8 DEF F

LEMMA SuccsType ==
  ASSUME ProgramInv, NEW b \in Blocks
  PROVE  /\ SuccsAfter(b) \in Seq(Ids)
         /\ \A c \in FunctionOf(b) : Count(SuccsAfter(b), blocks[c].id) = Count(EdgesOf(b), c)
<1> DEFINE e == EdgesOf(b)
<1>1. e \in Seq(FunctionOf(b)) /\ Len(e) \in Nat /\ DOMAIN e = 1..Len(e)
  BY EdgesType
<1>2. \A j \in DOMAIN e : e[j] \in FunctionOf(b)
  BY <1>1
<1> HIDE DEF e
<1>3. \A j \in DOMAIN e : blocks[e[j]].id \in Ids
  BY <1>2, BlockFacts
<1>4. SuccsAfter(b) = [j \in 1..Len(e) |-> blocks[e[j]].id]
  BY <1>1 DEF SuccsAfter, e
<1>5. SuccsAfter(b) \in Seq(Ids)
  <2>1. SuccsAfter(b) \in [1..Len(e) -> Ids]
    BY <1>1, <1>3, <1>4
  <2> QED BY <1>1, <2>1, SeqDef
<1>6. ASSUME NEW c \in FunctionOf(b)
      PROVE  Count(SuccsAfter(b), blocks[c].id) = Count(EdgesOf(b), c)
  <2>1. \A j \in DOMAIN e : blocks[e[j]].id = blocks[c].id <=> e[j] = c
    BY <1>2 DEF ProgramInv, FunctionOf
  <2>2. {j \in DOMAIN SuccsAfter(b) : SuccsAfter(b)[j] = blocks[c].id} = {j \in DOMAIN e : e[j] = c}
    BY <2>1, <1>1, <1>4
  <2> QED BY <2>2 DEF Count, e
<1> QED BY <1>5, <1>6

-----------------------------------------------------------------------------
(* The control-flow graph.                                                 *)

\* Outside the search nothing is claimed of it.
LEMMA Idle ==
  ASSUME phase' = "mal", dfs' = <<>>, postorder' = <<>>, seen' = {}
  PROVE  (SearchInv /\ Chain /\ Followed /\ Finished /\ Entry /\ StreamInv)'
<1>1. SearchInv'
  <2>1. IsFiniteSet(seen') /\ Cardinality(seen') = 0
    BY FS_EmptySet
  <2> QED BY <2>1 DEF SearchInv
<1>2. (Chain /\ Followed)'
  BY DEF Chain, Followed
<1>3. Finished'
  BY DEF Finished
<1>4. Entry' /\ StreamInv'
  BY DEF Entry, StreamInv
<1> QED BY <1>1, <1>2, <1>3, <1>4

LEMMA IdleNow ==
  ASSUME phase = "mal", dfs = <<>>, postorder = <<>>, seen = {}
  PROVE  SearchInv /\ Chain /\ Followed /\ Finished /\ Entry /\ StreamInv
<1>1. SearchInv
  <2>1. IsFiniteSet(seen) /\ Cardinality(seen) = 0
    BY FS_EmptySet
  <2> QED BY <2>1 DEF SearchInv
<1>2. Chain /\ Followed
  BY DEF Chain, Followed
<1>3. Finished
  BY DEF Finished
<1>4. Entry /\ StreamInv
  BY DEF Entry, StreamInv
<1> QED BY <1>1, <1>2, <1>3, <1>4

LEMMA InitIInv == Init => IInv
<1> SUFFICES ASSUME Init PROVE IInv
  OBVIOUS
<1>1. PICK p \in Programs : blocks = [b \in DOMAIN p |->
        [fn |-> p[b].fn, id |-> p[b].id, term |-> p[b].term, n |-> Size(p[b].term)]]
  BY DEF Init
<1>2. /\ p \in Seq([fn : Nat, id : Nat, term : Terms])
      /\ \A b, c \in DOMAIN p : p[b].fn = p[c].fn =>
           /\ b # c => p[b].id # p[c].id
           /\ \A d \in b..c : p[d].fn = p[b].fn
  BY ProgramsAssumption
<1>3. ProgramInv
  <2>1. DOMAIN p = 1..Len(p) /\ Len(p) \in Nat
    BY <1>2
  <2>2. \A b \in DOMAIN p : p[b] \in [fn : Nat, id : Nat, term : Terms]
    BY <1>2, <2>1, ElementOfSeq
  <2>3. \A b \in DOMAIN p : Size(p[b].term) \in Nat
    BY DEF Size
  <2>4. \A b \in DOMAIN p : [fn |-> p[b].fn, id |-> p[b].id, term |-> p[b].term, n |-> Size(p[b].term)]
                              \in BlockRecord
    BY <2>2, <2>3 DEF BlockRecord
  <2>5. blocks \in [1..Len(p) -> BlockRecord]
    BY <1>1, <2>1, <2>4
  <2>6. blocks \in Seq(BlockRecord)
    BY <2>1, <2>5, SeqDef
  <2>7. \A b, c \in Blocks : blocks[b].fn = blocks[c].fn =>
          /\ b # c => blocks[b].id # blocks[c].id
          /\ \A d \in b..c : blocks[d].fn = blocks[b].fn
    <3> SUFFICES ASSUME NEW b \in Blocks, NEW c \in Blocks, blocks[b].fn = blocks[c].fn
                 PROVE  /\ b # c => blocks[b].id # blocks[c].id
                        /\ \A d \in b..c : blocks[d].fn = blocks[b].fn
      OBVIOUS
    <3>1. b \in DOMAIN p /\ c \in DOMAIN p
      BY <1>1 DEF Blocks
    <3>2. \A d \in DOMAIN p : blocks[d].fn = p[d].fn /\ blocks[d].id = p[d].id
      BY <1>1
    <3>3. \A d \in b..c : d \in DOMAIN p
      BY <2>1, <3>1
    <3> QED BY <1>2, <3>1, <3>2, <3>3
  <2> QED BY <2>6, <2>7 DEF ProgramInv
<1>4. CfgType
  BY EditsAssumption DEF Init, CfgType
<1>5. CfgInv
  BY DEF Init, CfgInv, Computed
<1>6. SearchInv /\ Chain /\ Followed /\ Finished /\ Entry /\ StreamInv
  BY IdleNow DEF Init
<1> QED BY <1>3, <1>4, <1>5, <1>6 DEF IInv

\* A new instruction leaves the edges of the other blocks as they are.
LEMMA InsertStep ==
  ASSUME IInv, NEW b \in Blocks, NEW term \in Endings, mal_block_insert_end(b, term)
  PROVE  IInv'
<1> USE DEF mal_block_insert_end
<1>1. ProgramInv /\ CfgType /\ CfgInv /\ SearchInv
  BY DEF IInv
<1>2. /\ Blocks' = Blocks
      /\ \A c \in Blocks : blocks'[c].fn = blocks[c].fn /\ blocks'[c].id = blocks[c].id
      /\ \A c \in Blocks : c # b => blocks'[c] = blocks[c]
  <2>1. blocks \in [Blocks -> BlockRecord]
    BY <1>1, BlockFacts DEF ProgramInv
  <2> QED BY <2>1 DEF Blocks, BlockRecord
<1>3. ProgramInv'
  <2>1. blocks' \in Seq(BlockRecord)
    <3>1. blocks \in Seq(BlockRecord) /\ b \in 1..Len(blocks) /\ blocks[b] \in BlockRecord
      BY <1>1, BlockFacts DEF ProgramInv
    <3>2. term \in Terms
      BY EditsAssumption
    <3>3. [blocks[b] EXCEPT !.term = term, !.n = @ + 1] \in BlockRecord
      <4> HIDE DEF mal_block_insert_end
      <4>1. blocks[b].n + 1 \in Nat
        BY <3>1 DEF BlockRecord
      <4>2. \A m \in Nat : [blocks[b] EXCEPT !.term = term, !.n = m] \in BlockRecord
        BY <3>1, <3>2 DEF BlockRecord
      <4> QED BY <4>1, <4>2
    <3>4. blocks' = [blocks EXCEPT ![b] = [blocks[b] EXCEPT !.term = term, !.n = @ + 1]]
      BY <3>1
    <3> QED BY <3>1, <3>3, <3>4, ExceptSeq
  <2>2. \A c, d \in Blocks : \A e \in c..d : e \in Blocks
    BY <1>1, BlockFacts
  <2>3. \A c, d \in Blocks' : blocks'[c].fn = blocks'[d].fn =>
          /\ c # d => blocks'[c].id # blocks'[d].id
          /\ \A e \in c..d : blocks'[e].fn = blocks'[c].fn
    <3> HIDE DEF mal_block_insert_end
    <3> QED BY <1>1, <1>2, <2>2 DEF ProgramInv
  <2> QED BY <2>1, <2>3 DEF ProgramInv
<1>4. CfgType'
  <2>1. Ids' = Ids /\ Fns' = Fns
    BY <1>2 DEF Ids, Fns
  <2>2. edits' \in 0..MaxEdits
    BY <1>1, EditsAssumption DEF CfgType
  <2> QED BY <1>1, <1>2, <2>1, <2>2 DEF CfgType
<1>5. CfgInv'
  <2>1. \A c \in Blocks : FunctionOf(c)' = FunctionOf(c)
    BY <1>2 DEF FunctionOf
  <2>2. \A c \in Blocks : Computed(c)' => Computed(c) /\ blocks[c].fn # blocks[b].fn
    BY <1>1, <1>2 DEF Computed
  <2>3. \A c \in Blocks : \A id : EdgeTo(c, id)' = EdgeTo(c, id)
    <3>1. \A c \in Blocks : \A id : {d \in FunctionOf(c)' : blocks'[d].id = id} = {d \in FunctionOf(c) : blocks[d].id = id}
      BY <1>2, <2>1 DEF FunctionOf
    <3> QED BY <3>1 DEF EdgeTo
  <2>4. \A c \in Blocks : c # b => EdgesOf(c)' = EdgesOf(c)
    <3> HIDE DEF mal_block_insert_end
    <3> SUFFICES ASSUME NEW c \in Blocks, c # b PROVE EdgesOf(c)' = EdgesOf(c)
      OBVIOUS
    <3>1. blocks'[c] = blocks[c] /\ FunctionOf(c)' = FunctionOf(c)
      BY <1>2, <2>1
    <3>2. \A id : EdgeTo(c, id)' = EdgeTo(c, id)
      BY <2>3
    <3> QED BY <3>1, <3>2 DEF EdgesOf
  <2>5. \A c \in Blocks : c # b => SuccsAfter(c)' = SuccsAfter(c)
    <3> SUFFICES ASSUME NEW c \in Blocks, c # b PROVE SuccsAfter(c)' = SuccsAfter(c)
      OBVIOUS
    <3>1. \A j \in DOMAIN EdgesOf(c) : EdgesOf(c)[j] \in Blocks
      BY <1>1, EdgesType, BlockFacts
    <3> QED BY <1>2, <2>4, <3>1 DEF SuccsAfter
  <2> SUFFICES ASSUME NEW c \in Blocks, Computed(c)'
               PROVE  (/\ succs[c] = SuccsAfter(c)
                       /\ \A p \in FunctionOf(c) : p >= c /\ Computed(p) =>
                            Count(preds[c], blocks[p].id) = Count(EdgesOf(p), c)
                       /\ \A j \in DOMAIN preds[c] :
                            \E p \in FunctionOf(c) : p >= c /\ Computed(p) /\ blocks[p].id = preds[c][j])'
    BY <1>2 DEF CfgInv
  <2>6. Computed(c) /\ blocks[c].fn # blocks[b].fn
    BY <2>2
  <2>7. \A p \in FunctionOf(c) : p \in Blocks /\ p # b /\ (Computed(p)' <=> Computed(p))
    BY <1>1, <1>2, <2>6 DEF FunctionOf, Computed
  <2>8. \A p \in FunctionOf(c) : EdgesOf(p)' = EdgesOf(p) /\ blocks'[p].id = blocks[p].id
    BY <1>2, <2>4, <2>7
  <2>9. succs'[c] = SuccsAfter(c)'
    BY <1>1, <2>5, <2>6 DEF CfgInv
  <2>10. \A p \in FunctionOf(c)' : p >= c /\ Computed(p)' =>
            Count(preds[c], blocks[p].id)' = Count(EdgesOf(p), c)'
    <3> SUFFICES ASSUME NEW p \in FunctionOf(c), p >= c, Computed(p)'
                 PROVE  Count(preds[c], blocks[p].id)' = Count(EdgesOf(p), c)'
      BY <2>1
    <3>1. Computed(p)
      BY <2>7
    <3>2. Count(preds[c], blocks[p].id) = Count(EdgesOf(p), c)
      BY <1>1, <2>6, <3>1 DEF CfgInv
    <3> QED BY <2>8, <3>2 DEF Count
  <2>11. \A j \in DOMAIN preds'[c] :
            \E p \in FunctionOf(c)' : p >= c /\ Computed(p)' /\ blocks'[p].id = preds'[c][j]
    <3> SUFFICES ASSUME NEW j \in DOMAIN preds[c]
                 PROVE  \E p \in FunctionOf(c)' : p >= c /\ Computed(p)' /\ blocks'[p].id = preds'[c][j]
      OBVIOUS
    <3>1. PICK p \in FunctionOf(c) : p >= c /\ Computed(p) /\ blocks[p].id = preds[c][j]
      BY <1>1, <2>6 DEF CfgInv
    <3>2. Computed(p)' /\ blocks'[p].id = blocks[p].id
      BY <2>7, <2>8, <3>1
    <3> QED BY <2>1, <3>1, <3>2
  <2> QED BY <2>9, <2>10, <2>11
<1>6. (SearchInv /\ Chain /\ Followed /\ Finished /\ Entry /\ StreamInv)'
  <2>1. dfs' = <<>> /\ postorder' = <<>> /\ seen' = {}
    BY <1>1 DEF SearchInv
  <2> QED BY <2>1, Idle
<1> QED BY <1>3, <1>4, <1>5, <1>6 DEF IInv

\* What depends on the blocks alone stays when they do.
LEMMA SameBlocks ==
  ASSUME blocks' = blocks
  PROVE  /\ Blocks' = Blocks /\ Ids' = Ids /\ Fns' = Fns
         /\ ProgramInv' = ProgramInv
         /\ \A b : FunctionOf(b)' = FunctionOf(b) /\ EdgesOf(b)' = EdgesOf(b)
         /\ \A b : SuccsAfter(b)' = SuccsAfter(b) /\ Instrs(b)' = Instrs(b)
         /\ \A id : tos_find_block_index(id)' = tos_find_block_index(id)
<1>1. Blocks' = Blocks
  BY DEF Blocks
<1>2. Ids' = Ids /\ Fns' = Fns /\ ProgramInv' = ProgramInv
  BY <1>1 DEF Ids, Fns, ProgramInv
<1>3. \A b : FunctionOf(b)' = FunctionOf(b)
  BY <1>1 DEF FunctionOf
<1>4. \A b, id : EdgeTo(b, id)' = EdgeTo(b, id)
  BY <1>3 DEF EdgeTo
<1>5. \A b : EdgesOf(b)' = EdgesOf(b)
  BY <1>3, <1>4 DEF EdgesOf
<1>6. \A b : SuccsAfter(b)' = SuccsAfter(b) /\ Instrs(b)' = Instrs(b)
  BY <1>5 DEF SuccsAfter, Instrs
<1>7. \A id : tos_find_block_index(id)' = tos_find_block_index(id)
  BY <1>1 DEF tos_find_block_index
<1> QED BY <1>1, <1>2, <1>3, <1>5, <1>6, <1>7

\* CfgInv of one block.
CfgExact(b) ==
  /\ succs[b] = SuccsAfter(b)
  /\ \A p \in FunctionOf(b) : p >= b /\ Computed(p) =>
       Count(preds[b], blocks[p].id) = Count(EdgesOf(p), b)
  /\ \A j \in DOMAIN preds[b] :
       \E p \in FunctionOf(b) : p >= b /\ Computed(p) /\ blocks[p].id = preds[b][j]

\* It is kept while nothing happens to the block's function.
LEMMA CfgElsewhere ==
  ASSUME blocks' = blocks, NEW b \in Blocks, CfgExact(b),
         succs'[b] = succs[b], preds'[b] = preds[b],
         \A p \in FunctionOf(b) : Computed(p)' <=> Computed(p)
  PROVE  CfgExact(b)'
<1>1. FunctionOf(b)' = FunctionOf(b) /\ SuccsAfter(b)' = SuccsAfter(b) /\ \A p : EdgesOf(p)' = EdgesOf(p)
  BY SameBlocks
<1>2. succs'[b] = SuccsAfter(b)'
  BY <1>1 DEF CfgExact
<1>3. ASSUME NEW p \in FunctionOf(b)', p >= b, Computed(p)'
      PROVE  Count(preds[b], blocks[p].id)' = Count(EdgesOf(p), b)'
  <2>1. p \in FunctionOf(b) /\ Computed(p)
    BY <1>1, <1>3
  <2>2. Count(preds[b], blocks[p].id) = Count(EdgesOf(p), b)
    BY <1>3, <2>1 DEF CfgExact
  <2> QED BY <1>1, <2>2 DEF Count
<1>4. ASSUME NEW j \in DOMAIN preds'[b]
      PROVE  \E p \in FunctionOf(b)' : p >= b /\ Computed(p)' /\ blocks'[p].id = preds'[b][j]
  <2>1. PICK p \in FunctionOf(b) : p >= b /\ Computed(p) /\ blocks[p].id = preds[b][j]
    BY <1>4 DEF CfgExact
  <2> QED BY <1>1, <2>1
<1> QED BY <1>2, <1>3, <1>4 DEF CfgExact

LEMMA ComputeStep ==
  ASSUME IInv, NEW b \in Blocks, mal_compute_cfg(b)
  PROVE  IInv'
<1>1. ProgramInv /\ CfgType /\ CfgInv /\ SearchInv
  BY DEF IInv
<1>2. /\ blocks' = blocks /\ succs' = succs /\ preds' = preds /\ fresh' = fresh /\ edits' = edits
      /\ cursor = 0 /\ cursor' = b /\ phase = "mal" /\ phase' = "mal"
      /\ dfs' = dfs /\ postorder' = postorder /\ seen' = seen
      /\ b = Min(FunctionOf(b))
  BY DEF mal_compute_cfg
<1>3. ProgramInv' /\ CfgType'
  BY <1>1, <1>2, SameBlocks DEF CfgType
<1>4. CfgInv'
  <2>1. \A c \in FunctionOf(b) : b <= c
    <3>1. FunctionOf(b) \in SUBSET Nat /\ FunctionOf(b) # {}
      BY <1>1, BlockFacts
    <3> QED BY <1>2, <3>1, MinNat
  <2>2. b # 0 /\ b \in Nat
    BY <1>1, BlockFacts
  <2>3. ASSUME NEW c \in Blocks, Computed(c)'
        PROVE  CfgExact(c)'
    <3>1. blocks[c].fn # blocks[b].fn
      <4>1. SUFFICES ASSUME blocks[c].fn = blocks[b].fn PROVE FALSE
        OBVIOUS
      <4>2. c < b
        BY <1>2, <2>2, <2>3, <4>1 DEF Computed
      <4>3. b <= c /\ c \in Nat
        BY <1>1, <2>1, <4>1, BlockFacts DEF FunctionOf
      <4> QED BY <2>2, <4>2, <4>3
    <3>2. \A p \in FunctionOf(c) : Computed(p)' <=> Computed(p)
      BY <1>2, <3>1 DEF FunctionOf, Computed
    <3>3. c \in FunctionOf(c)
      BY <1>1, BlockFacts
    <3>4. Computed(c)
      BY <2>3, <3>2, <3>3
    <3>5. CfgExact(c)
      BY <1>1, <3>4 DEF CfgInv, CfgExact
    <3> QED BY <1>2, <3>2, <3>5, CfgElsewhere
  <2>4. Blocks' = Blocks
    BY <1>2, SameBlocks
  <2> QED BY <2>3, <2>4 DEF CfgInv, CfgExact
<1>5. (SearchInv /\ Chain /\ Followed /\ Finished /\ Entry /\ StreamInv)'
  <2>1. dfs' = <<>> /\ postorder' = <<>> /\ seen' = {}
    BY <1>1, <1>2 DEF SearchInv
  <2> QED BY <1>2, <2>1, Idle
<1> QED BY <1>3, <1>4, <1>5 DEF IInv

\* One iteration makes the lists of its block, and adds to those before it.
LEMMA CfgBlockStep ==
  ASSUME IInv, CfgBlock
  PROVE  IInv'
<1> DEFINE k == cursor
           F == FunctionOf(cursor)
<1>1. ProgramInv /\ CfgType /\ CfgInv /\ SearchInv
  BY DEF IInv
<1>2. /\ blocks' = blocks /\ edits' = edits /\ phase' = phase
      /\ dfs' = dfs /\ postorder' = postorder /\ seen' = seen
      /\ k # 0 /\ k \in Blocks /\ phase = "mal"
      /\ succs' = [succs EXCEPT ![k] = SuccsAfter(k)]
      /\ preds' = [c \in Blocks |-> PredsAfter(k, c)]
  BY <1>1 DEF CfgBlock, CfgType
<1>3. \/ k + 1 \in F /\ cursor' = k + 1 /\ fresh' = fresh
      \/ k + 1 \notin F /\ cursor' = 0 /\ fresh' = fresh \cup {blocks[k].fn}
  BY DEF CfgBlock
<1>4. /\ Blocks \subseteq Nat \ {0} /\ F \subseteq Blocks /\ k \in F
      /\ k \in Nat /\ blocks[k].id \in Ids /\ blocks[k].fn \in Fns
  BY <1>1, <1>2, BlockFacts
<1>44. \A c \in F : c \in Nat /\ c \in Blocks
  BY <1>4
<1>5. \A c \in F : Computed(c) <=> c < k
  BY <1>2 DEF Computed, FunctionOf
<1>6. ASSUME NEW c \in F PROVE Computed(c)' <=> c <= k
  <2>1. CASE k + 1 \in F
    <3>1. cursor' = k + 1 /\ k + 1 # 0 /\ blocks'[k + 1].fn = blocks'[c].fn
      BY <1>2, <1>3, <1>4, <2>1 DEF FunctionOf
    <3>2. Computed(c)' <=> c < k + 1
      BY <3>1 DEF Computed
    <3> QED BY <1>4, <1>44, <3>2
  <2>2. CASE k + 1 \notin F
    <3>1. cursor' = 0 /\ blocks'[c].fn \in fresh'
      BY <1>2, <1>3, <2>2 DEF FunctionOf
    <3>2. Computed(c)'
      BY <3>1 DEF Computed
    <3>3. c <= k
      <4>1. SUFFICES ASSUME c > k PROVE FALSE
        BY <1>4, <1>44
      <4>2. k + 1 \in k..c /\ k + 1 \in Blocks
        <5>1. c \in 1..Len(blocks) /\ Len(blocks) \in Nat
          BY <1>1, <1>4, BlockFacts
        <5>2. k + 1 \in 1..Len(blocks)
          BY <1>4, <4>1, <5>1
        <5> QED BY <1>1, <1>4, <4>1, <5>1, <5>2, BlockFacts
      <4>3. blocks[k].fn = blocks[c].fn
        BY DEF FunctionOf
      <4>4. blocks[k + 1].fn = blocks[k].fn
        BY <1>1, <1>2, <1>4, <4>2, <4>3 DEF ProgramInv
      <4> QED BY <2>2, <4>2, <4>4 DEF FunctionOf
    <3> QED BY <3>2, <3>3
  <2> QED BY <2>1, <2>2
<1>7. ASSUME NEW c \in Blocks, c \notin F PROVE Computed(c)' <=> Computed(c)
  <2>1. blocks[c].fn # blocks[k].fn
    BY <1>7 DEF FunctionOf
  <2>2. Computed(c) <=> blocks[c].fn \in fresh
    BY <2>1 DEF Computed
  <2>3. blocks'[c].fn \in fresh' <=> blocks[c].fn \in fresh
    BY <1>2, <1>3, <2>1
  <2>4. cursor' # 0 => blocks'[cursor'].fn = blocks[k].fn
    BY <1>2, <1>3 DEF FunctionOf
  <2>5. Computed(c)' <=> blocks'[c].fn \in fresh'
    BY <1>2, <2>1, <2>4 DEF Computed
  <2> QED BY <2>2, <2>3, <2>5
<1>8. ASSUME NEW c \in Blocks
      PROVE  /\ preds'[c] \in Seq(Ids)
             /\ c = k => /\ Count(preds'[c], blocks[k].id) = Count(EdgesOf(k), c)
                         /\ \A j \in DOMAIN preds'[c] : preds'[c][j] = blocks[k].id
             /\ c # k => /\ Count(preds'[c], blocks[k].id) = Count(preds[c], blocks[k].id) + Count(EdgesOf(k), c)
                         /\ \A x : x # blocks[k].id => Count(preds'[c], x) = Count(preds[c], x)
                         /\ \A j \in DOMAIN preds'[c] : preds'[c][j] = blocks[k].id \/ \E i \in DOMAIN preds[c] : preds'[c][j] = preds[c][i]
             /\ c \notin F => preds'[c] = preds[c]
  <2> DEFINE n == Count(EdgesOf(k), c)
             copies == [j \in 1..n |-> blocks[k].id]
  <2>1. n \in Nat
    BY <1>1, <1>2, EdgesType, CountType
  <2>2. preds[c] \in Seq(Ids) /\ <<>> \in Seq(Ids)
    BY <1>1 DEF CfgType
  <2>3. preds'[c] = (IF c = k THEN <<>> ELSE preds[c]) \o copies
    BY <1>2 DEF PredsAfter
  <2> HIDE DEF n
  <2>4. /\ copies \in Seq(Ids) /\ Len(copies) = n /\ DOMAIN copies = 1..n
        /\ \A j \in DOMAIN copies : copies[j] = blocks[k].id
    <3>1. copies \in [1..n -> Ids] /\ \A j \in 1..n : copies[j] = blocks[k].id
      BY <1>4
    <3>2. copies \in Seq(Ids)
      BY <2>1, <3>1, SeqDef
    <3> QED BY <2>1, <3>1, <3>2
  <2> HIDE DEF copies
  <2>5. CASE c = k
    <3>1. preds'[c] = copies
      BY <2>2, <2>3, <2>4, <2>5, ConcatEmptySeq
    <3>2. {j \in DOMAIN copies : copies[j] = blocks[k].id} = 1..n
      BY <2>4
    <3>3. Cardinality(1..n) = IF 1 > n THEN 0 ELSE n - 1 + 1
      <4>1. 1 \in Int /\ n \in Int
        BY <2>1
      <4> QED BY <4>1, FS_Interval
    <3>4. Cardinality(1..n) = n
      BY <2>1, <3>3
    <3>5. Count(preds'[c], blocks[k].id) = n
      BY <3>1, <3>2, <3>4 DEF Count
    <3> QED BY <1>4, <2>4, <2>5, <3>1, <3>5 DEF n
  <2>6. CASE c # k
    <3>1. preds'[c] = preds[c] \o copies
      BY <2>3, <2>6
    <3>2. preds'[c] \in Seq(Ids)
      BY <2>2, <2>4, <3>1, ConcatProperties
    <3>3. Count(preds[c] \o copies, blocks[k].id) = Count(preds[c], blocks[k].id) + Len(copies)
      BY <1>4, <2>2, <2>4, CountCopies
    <3>4. \A x : x # blocks[k].id => Count(preds[c] \o copies, x) = Count(preds[c], x)
      BY <1>4, <2>2, <2>4, CountOthers
    <3>5. \A j \in DOMAIN preds'[c] : preds'[c][j] = blocks[k].id \/ \E i \in DOMAIN preds[c] : preds'[c][j] = preds[c][i]
      <4>1. Len(preds[c]) \in Nat /\ DOMAIN preds[c] = 1..Len(preds[c])
        BY <2>2
      <4>2. /\ DOMAIN preds'[c] = 1..(Len(preds[c]) + n)
            /\ \A j \in 1..(Len(preds[c]) + n) : preds'[c][j] = IF j <= Len(preds[c]) THEN preds[c][j] ELSE copies[j - Len(preds[c])]
        BY <2>2, <2>4, <3>1, <3>2, ConcatProperties, LenProperties
      <4> SUFFICES ASSUME NEW j \in DOMAIN preds'[c]
                   PROVE  preds'[c][j] = blocks[k].id \/ \E i \in DOMAIN preds[c] : preds'[c][j] = preds[c][i]
        OBVIOUS
      <4>3. CASE j <= Len(preds[c])
        <5>1. j \in DOMAIN preds[c] /\ preds'[c][j] = preds[c][j]
          BY <2>1, <4>1, <4>2, <4>3
        <5> QED BY <5>1
      <4>4. CASE j > Len(preds[c])
        <5>1. j - Len(preds[c]) \in DOMAIN copies /\ preds'[c][j] = copies[j - Len(preds[c])]
          BY <2>1, <2>4, <4>1, <4>2, <4>4
        <5> QED BY <2>4, <5>1
      <4> QED BY <2>1, <4>1, <4>2, <4>3, <4>4
    <3>6. ASSUME c \notin F PROVE preds'[c] = preds[c]
      <4>1. n = 0
        <5>1. \A j \in DOMAIN EdgesOf(k) : EdgesOf(k)[j] # c
          BY <1>1, <1>2, <3>6, EdgesType
        <5> QED BY <5>1, CountZero DEF n
      <4>2. copies = <<>>
        BY <2>4, <4>1
      <4> QED BY <2>2, <3>1, <4>2, ConcatEmptySeq
    <3> QED BY <2>4, <2>6, <3>1, <3>2, <3>3, <3>4, <3>5, <3>6 DEF n
  <2> QED BY <2>5, <2>6
<1>9. ProgramInv' /\ CfgType'
  <2>1. succs' \in [Blocks -> Seq(Ids)]
    BY <1>1, <1>2, SuccsType DEF CfgType
  <2>2. preds' \in [Blocks -> Seq(Ids)]
    BY <1>2, <1>8
  <2>3. fresh' \in SUBSET Fns /\ cursor' \in {0} \cup Blocks
    BY <1>1, <1>3, <1>4 DEF CfgType
  <2> QED BY <1>1, <1>2, <2>1, <2>2, <2>3, SameBlocks DEF CfgType
<1>10. CfgInv'
  <2>1. ASSUME NEW c \in Blocks, Computed(c)', c \notin F PROVE CfgExact(c)'
    <3>1. \A p \in FunctionOf(c) : p \in Blocks /\ p \notin F
      BY <2>1, <1>2 DEF FunctionOf
    <3>2. \A p \in FunctionOf(c) : Computed(p)' <=> Computed(p)
      BY <1>7, <3>1
    <3>3. CfgExact(c)
      BY <1>1, <1>7, <2>1 DEF CfgInv, CfgExact
    <3>4. succs'[c] = succs[c]
      BY <1>1, <1>2, <1>4, <2>1 DEF CfgType
    <3> QED BY <1>2, <1>8, <2>1, <3>2, <3>3, <3>4, CfgElsewhere
  <2>2. ASSUME NEW c \in F, c <= k PROVE CfgExact(c)'
    <3>1. /\ FunctionOf(c)' = F /\ SuccsAfter(c)' = SuccsAfter(c) /\ \A p : EdgesOf(p)' = EdgesOf(p)
      BY <1>2, SameBlocks DEF FunctionOf
    <3>2. c \in Blocks /\ c \in Nat
      BY <1>4
    <3>3. \A p \in F : p # k => blocks[p].id # blocks[k].id
      BY <1>1, <1>2 DEF ProgramInv, FunctionOf
    <3>4. c < k => CfgExact(c)
      BY <1>1, <1>5, <3>2 DEF CfgInv, CfgExact
    <3>5. succs'[c] = SuccsAfter(c)'
      <4>1. c < k => succs[c] = SuccsAfter(c)
        BY <3>4 DEF CfgExact
      <4> QED BY <1>1, <1>2, <1>4, <2>2, <3>1, <3>2, <4>1 DEF CfgType
    <3>6. FunctionOf(c) = F
      BY <1>2, <3>1, SameBlocks
    <3>7. ASSUME NEW p \in F, p >= c, Computed(p)'
          PROVE  Count(preds'[c], blocks[p].id) = Count(EdgesOf(p), c)
      <4>1. p <= k /\ p \in Nat
        BY <1>4, <1>6, <3>7
      <4>2. CASE c = k
        BY <1>4, <1>8, <3>2, <3>7, <4>1, <4>2
      <4>3. CASE c # k /\ p # k
        <5>1. p < k /\ c < k
          BY <1>4, <2>2, <3>2, <4>1, <4>3
        <5>2. Computed(p)
          BY <1>5, <5>1
        <5>3. Count(preds[c], blocks[p].id) = Count(EdgesOf(p), c)
          BY <3>4, <3>6, <3>7, <5>1, <5>2 DEF CfgExact
        <5>4. Count(preds[c], blocks[p].id) \in Nat
          BY <1>1, <3>2, CountType DEF CfgType
        <5>5. Count(preds'[c], blocks[p].id) = Count(preds[c], blocks[p].id)
          BY <1>8, <3>2, <3>3, <4>3
        <5> QED BY <5>3, <5>4, <5>5
      <4>4. CASE c # k /\ p = k
        <5>1. c < k
          BY <1>4, <2>2, <3>2, <4>4
        <5>2. \A j \in DOMAIN preds[c] : preds[c][j] # blocks[k].id
          <6> SUFFICES ASSUME NEW j \in DOMAIN preds[c] PROVE preds[c][j] # blocks[k].id
            OBVIOUS
          <6>1. PICK q \in F : Computed(q) /\ blocks[q].id = preds[c][j]
            BY <3>4, <3>6, <5>1 DEF CfgExact
          <6>2. q # k
            BY <1>4, <1>5, <6>1
          <6> QED BY <3>3, <6>1, <6>2
        <5>3. Count(preds[c], blocks[k].id) = 0
          BY <5>2, CountZero
        <5>4. Count(preds'[c], blocks[k].id) = Count(preds[c], blocks[k].id) + Count(EdgesOf(k), c)
          BY <1>8, <3>2, <4>4
        <5>5. Count(EdgesOf(k), c) \in Nat
          BY <1>1, <1>2, EdgesType, CountType
        <5> QED BY <4>4, <5>3, <5>4, <5>5
      <4> QED BY <4>2, <4>3, <4>4
    <3>8. ASSUME NEW j \in DOMAIN preds'[c]
          PROVE  \E p \in F : p >= c /\ Computed(p)' /\ blocks[p].id = preds'[c][j]
      <4>1. CASE preds'[c][j] = blocks[k].id
        <5>1. PICK p \in F : p = k
          BY <1>4
        <5>2. p >= c /\ p <= k
          BY <1>4, <2>2, <3>2, <5>1
        <5> QED BY <1>6, <4>1, <5>1, <5>2
      <4>2. CASE c # k /\ \E i \in DOMAIN preds[c] : preds'[c][j] = preds[c][i]
        <5>1. c < k
          BY <1>4, <2>2, <3>2, <4>2
        <5>2. PICK i \in DOMAIN preds[c] : preds'[c][j] = preds[c][i]
          BY <4>2
        <5>3. PICK p \in F : p >= c /\ Computed(p) /\ blocks[p].id = preds[c][i]
          BY <3>4, <3>6, <5>1 DEF CfgExact
        <5>4. Computed(p)'
          <6>1. p < k /\ p \in Nat
            BY <1>44, <1>5, <5>3
          <6>2. p <= k
            BY <1>4, <6>1
          <6> QED BY <1>6, <5>3, <6>2
        <5> QED BY <5>2, <5>3, <5>4
      <4> QED BY <1>8, <3>2, <4>1, <4>2
    <3>9. \A p \in FunctionOf(c)' : p >= c /\ Computed(p)' =>
            Count(preds[c], blocks[p].id)' = Count(EdgesOf(p), c)'
      BY <1>2, <3>1, <3>7 DEF Count
    <3>10. \A j \in DOMAIN preds'[c] :
             \E p \in FunctionOf(c)' : p >= c /\ Computed(p)' /\ blocks'[p].id = preds'[c][j]
      BY <1>2, <3>1, <3>8
    <3> QED BY <3>5, <3>9, <3>10 DEF CfgExact
  <2>3. \A c \in Blocks : Computed(c)' => CfgExact(c)'
    BY <1>6, <2>1, <2>2
  <2>4. Blocks' = Blocks
    BY <1>2, SameBlocks
  <2> QED BY <2>3, <2>4 DEF CfgInv, CfgExact
<1>11. (SearchInv /\ Chain /\ Followed /\ Finished /\ Entry /\ StreamInv)'
  <2>1. dfs' = <<>> /\ postorder' = <<>> /\ seen' = {}
    BY <1>1, <1>2 DEF SearchInv
  <2> QED BY <1>2, <2>1, Idle
<1> QED BY <1>9, <1>10, <1>11 DEF IInv

-----------------------------------------------------------------------------
(* The stream.                                                             *)

LEMMA SizesType ==
  ASSUME ProgramInv, NEW order \in Seq(Blocks)
  PROVE  /\ Sizes(order) \in Seq(Nat) /\ Len(Sizes(order)) = Len(order)
         /\ DOMAIN order = 1..Len(order) /\ Len(order) \in Nat
         /\ \A i \in DOMAIN order : order[i] \in Blocks /\ Sizes(order)[i] = blocks[order[i]].n
         /\ \A i \in DOMAIN order : Sizes(order)[i] \in Nat
<1>1. DOMAIN order = 1..Len(order) /\ Len(order) \in Nat /\ \A i \in DOMAIN order : order[i] \in Blocks
  OBVIOUS
<1>2. \A i \in DOMAIN order : blocks[order[i]].n \in Nat
  BY <1>1, BlockFacts
<1>3. Sizes(order) \in [1..Len(order) -> Nat] /\ \A i \in DOMAIN order : Sizes(order)[i] = blocks[order[i]].n
  BY <1>1, <1>2 DEF Sizes
<1>4. Sizes(order) \in Seq(Nat)
  BY <1>1, <1>3, SeqDef
<1>5. Len(Sizes(order)) = Len(order)
  BY <1>1, <1>3, <1>4
<1> QED BY <1>1, <1>2, <1>3, <1>4, <1>5

\* Two blocks have no position in common.
LEMMA Disjoint ==
  ASSUME ProgramInv, NEW order \in Seq(Blocks), NEW i \in DOMAIN order, NEW h \in DOMAIN order, NEW k,
         k \in (Before(Sizes(order), i) + 1)..(Before(Sizes(order), i) + Sizes(order)[i]),
         k \in (Before(Sizes(order), h) + 1)..(Before(Sizes(order), h) + Sizes(order)[h])
  PROVE  h = i
<1> DEFINE sizes == Sizes(order)
           N == Len(order)
<1>1. sizes \in Seq(Nat) /\ Len(sizes) = N /\ DOMAIN order = 1..N /\ N \in Nat /\ sizes[i] \in Nat /\ sizes[h] \in Nat
  BY SizesType
<1> HIDE DEF sizes
<1>2. i \in 1..(N + 1) /\ h \in 1..(N + 1)
  BY <1>1
<1>3. Before(sizes, i) \in Nat /\ Before(sizes, h) \in Nat
  BY <1>1, <1>2, BeforeStep
<1>4. k \in (Before(sizes, i) + 1)..(Before(sizes, i) + sizes[i]) /\ k \in (Before(sizes, h) + 1)..(Before(sizes, h) + sizes[h])
  BY DEF sizes
<1>5. CASE i < h
  <2>1. Before(sizes, i) + sizes[i] <= Before(sizes, h)
    BY <1>1, <1>2, <1>5, BeforeOrdered
  <2> QED BY <1>1, <1>3, <1>4, <2>1
<1>6. CASE h < i
  <2>1. Before(sizes, h) + sizes[h] <= Before(sizes, i)
    BY <1>1, <1>2, <1>6, BeforeOrdered
  <2> QED BY <1>1, <1>3, <1>4, <2>1
<1> QED BY <1>1, <1>5, <1>6

\* The j-th instruction of the i-th block is where the blocks before it end.
LEMMA Placed ==
  ASSUME ProgramInv, NEW order \in Seq(Blocks), NEW code
  PROVE  /\ DOMAIN Concatenated(order, code) = 1..Before(Sizes(order), Len(order) + 1)
         /\ \A i \in DOMAIN order : \A j \in 1..Sizes(order)[i] :
              /\ Before(Sizes(order), i) + j \in DOMAIN Concatenated(order, code)
              /\ Concatenated(order, code)[Before(Sizes(order), i) + j] =
                   [code[order[i]][j] EXCEPT !.id = (Before(Sizes(order), i) + j) - 1]
<1> DEFINE sizes == Sizes(order)
           N == Len(order)
           Start(i) == Before(Sizes(order), i)
           Owner(k) == CHOOSE i \in DOMAIN order : k \in (Start(i) + 1)..(Start(i) + sizes[i])
           total == Before(Sizes(order), Len(order) + 1)
<1>1. /\ sizes \in Seq(Nat) /\ Len(sizes) = N /\ DOMAIN order = 1..N /\ N \in Nat
      /\ \A i \in DOMAIN order : sizes[i] \in Nat
  BY SizesType
<1>2. Concatenated(order, code) = [k \in 1..total |-> [code[order[Owner(k)]][k - Start(Owner(k))] EXCEPT !.id = k - 1]]
  BY DEF Concatenated
<1>3. ASSUME NEW i \in DOMAIN order, NEW j \in 1..sizes[i]
      PROVE  /\ Start(i) + j \in 1..total
             /\ Owner(Start(i) + j) = i /\ (Start(i) + j) - Start(i) = j
  <2>1. i \in 1..(N + 1) /\ N + 1 \in 1..(N + 1) /\ i < N + 1 /\ sizes[i] \in Nat /\ j \in Nat
    BY <1>1
  <2>2. Start(i) \in Nat /\ total \in Nat
    BY <1>1, <2>1, BeforeStep
  <2>3. Start(i) + sizes[i] <= total
    BY <1>1, <2>1, BeforeOrdered
  <2>4. Start(i) + j \in (Start(i) + 1)..(Start(i) + sizes[i])
    BY <2>1, <2>2
  <2>5. \A h \in DOMAIN order : Start(i) + j \in (Start(h) + 1)..(Start(h) + sizes[h]) => h = i
    BY <2>4, Disjoint
  <2>6. Owner(Start(i) + j) = i
    <3> HIDE DEF Start, sizes
    <3> QED BY <2>4, <2>5
  <2> QED BY <2>1, <2>2, <2>3, <2>4, <2>6
<1> HIDE DEF Start, sizes, Owner, total
<1>4. ASSUME NEW i \in DOMAIN order, NEW j \in 1..sizes[i]
      PROVE  /\ Start(i) + j \in DOMAIN Concatenated(order, code)
             /\ Concatenated(order, code)[Start(i) + j] = [code[order[i]][j] EXCEPT !.id = (Start(i) + j) - 1]
  <2>1. Start(i) + j \in 1..total
    BY <1>3
  <2> DEFINE e(k) == [code[order[Owner(k)]][k - Start(Owner(k))] EXCEPT !.id = k - 1]
  <2>2. Concatenated(order, code)[Start(i) + j] = e(Start(i) + j)
    <3>1. Concatenated(order, code) = [k \in 1..total |-> e(k)]
      BY <1>2
    <3> HIDE DEF e
    <3> QED BY <2>1, <3>1
  <2>3. Concatenated(order, code)[Start(i) + j] =
          [code[order[Owner(Start(i) + j)]][(Start(i) + j) - Start(Owner(Start(i) + j))] EXCEPT !.id = (Start(i) + j) - 1]
    BY <2>2
  <2>4. Owner(Start(i) + j) = i /\ (Start(i) + j) - Start(i) = j
    BY <1>3
  <2> QED BY <1>2, <2>1, <2>3, <2>4
<1>5. DOMAIN Concatenated(order, code) = 1..total
  BY <1>2
<1> QED BY <1>4, <1>5 DEF Start, sizes, total

\* Every position is one of those.
LEMMA Covered ==
  ASSUME ProgramInv, NEW order \in Seq(Blocks), NEW k \in 1..Before(Sizes(order), Len(order) + 1)
  PROVE  \E i \in DOMAIN order : \E j \in 1..Sizes(order)[i] : k = Before(Sizes(order), i) + j
<1> DEFINE sizes == Sizes(order)
<1>1. sizes \in Seq(Nat) /\ Len(sizes) = Len(order) /\ DOMAIN order = 1..Len(order) /\ Len(order) \in Nat
      /\ \A i \in DOMAIN order : sizes[i] \in Nat
  BY SizesType
<1> HIDE DEF sizes
<1>2. k \in 1..Before(sizes, Len(sizes) + 1)
  BY <1>1 DEF sizes
<1>3. PICK i \in 1..Len(sizes) : k \in (Before(sizes, i) + 1)..(Before(sizes, i) + sizes[i])
  BY <1>1, <1>2, BeforeCovers
<1>4. i \in DOMAIN order /\ i \in 1..(Len(sizes) + 1) /\ sizes[i] \in Nat
  BY <1>1
<1>5. Before(sizes, i) \in Nat
  BY <1>1, <1>4, BeforeStep
<1>6. k - Before(sizes, i) \in 1..sizes[i] /\ k = Before(sizes, i) + (k - Before(sizes, i))
  BY <1>3, <1>4, <1>5
<1> QED BY <1>4, <1>6 DEF sizes

\* What is in the stream.
LEMMA LaidFacts ==
  ASSUME ProgramInv, NEW order \in Seq(Blocks), Laid(order)
  PROVE  /\ DOMAIN stream = 1..Before(Sizes(order), Len(order) + 1)
         /\ Before(Sizes(order), Len(order) + 1) \in Nat
         /\ Len(stream) = Before(Sizes(order), Len(order) + 1)
         /\ \A i \in DOMAIN order : \A j \in 1..Sizes(order)[i] :
              /\ Before(Sizes(order), i) + j \in DOMAIN stream
              /\ stream[Before(Sizes(order), i) + j] =
                   [block |-> order[i], blockId |-> blocks[order[i]].id, order |-> j - 1,
                    id |-> (Before(Sizes(order), i) + j) - 1]
<1> DEFINE code == [b \in Blocks |-> Instrs(b)]
           total == Before(Sizes(order), Len(order) + 1)
<1>1. stream = Concatenated(order, code)
  BY DEF Laid
<1>2. /\ DOMAIN stream = 1..total
      /\ \A i \in DOMAIN order : \A j \in 1..Sizes(order)[i] :
           /\ Before(Sizes(order), i) + j \in DOMAIN stream
           /\ stream[Before(Sizes(order), i) + j] = [code[order[i]][j] EXCEPT !.id = (Before(Sizes(order), i) + j) - 1]
  <2> HIDE DEF code
  <2> QED BY <1>1, Placed
<1>3. /\ Sizes(order) \in Seq(Nat) /\ Len(Sizes(order)) = Len(order) /\ Len(order) \in Nat
      /\ \A i \in DOMAIN order : order[i] \in Blocks /\ Sizes(order)[i] = blocks[order[i]].n
  BY SizesType
<1>4. total \in Nat
  <2>1. Len(order) + 1 \in 1..(Len(Sizes(order)) + 1)
    BY <1>3
  <2> QED BY <1>3, <2>1, BeforeStep
<1>5. Len(stream) = total
  <2> HIDE DEF total
  <2> DEFINE S == {stream[k] : k \in 1..total}
  <2>1. stream \in [1..total -> S]
    <3> DEFINE Start(i) == Before(Sizes(order), i)
               Owner(k) == CHOOSE i \in DOMAIN order : k \in (Start(i) + 1)..(Start(i) + Sizes(order)[i])
               e(k) == [code[order[Owner(k)]][k - Start(Owner(k))] EXCEPT !.id = k - 1]
    <3>1. stream = [k \in 1..total |-> e(k)]
      BY <1>1 DEF Concatenated, total
    <3> HIDE DEF e
    <3> QED BY <3>1
  <2>2. stream \in Seq(S)
    BY <1>4, <2>1, SeqDef
  <2> QED BY <1>2, <1>4, <2>2
<1>6. ASSUME NEW i \in DOMAIN order, NEW j \in 1..Sizes(order)[i], NEW x
      PROVE  [code[order[i]][j] EXCEPT !.id = x] =
               [block |-> order[i], blockId |-> blocks[order[i]].id, order |-> j - 1, id |-> x]
  <2>1. code[order[i]] = [q \in 1..blocks[order[i]].n |-> [block |-> order[i], blockId |-> blocks[order[i]].id, order |-> q - 1, id |-> 0]]
    BY <1>3 DEF Instrs
  <2>2. code[order[i]][j] = [block |-> order[i], blockId |-> blocks[order[i]].id, order |-> j - 1, id |-> 0]
    BY <1>3, <2>1
  <2> HIDE DEF code
  <2> QED BY <2>2
<1> HIDE DEF code
<1>7. \A i \in DOMAIN order : \A j \in 1..Sizes(order)[i] :
           stream[Before(Sizes(order), i) + j] =
                   [block |-> order[i], blockId |-> blocks[order[i]].id, order |-> j - 1,
                    id |-> (Before(Sizes(order), i) + j) - 1]
  <2> SUFFICES ASSUME NEW i \in DOMAIN order, NEW j \in 1..Sizes(order)[i]
               PROVE  stream[Before(Sizes(order), i) + j] =
                        [block |-> order[i], blockId |-> blocks[order[i]].id, order |-> j - 1,
                         id |-> (Before(Sizes(order), i) + j) - 1]
    OBVIOUS
  <2>1. PICK x : x = (Before(Sizes(order), i) + j) - 1
    OBVIOUS
  <2>2. stream[Before(Sizes(order), i) + j] = [code[order[i]][j] EXCEPT !.id = x]
    BY <1>2, <2>1, Zenon
  <2>3. stream[Before(Sizes(order), i) + j] =
          [block |-> order[i], blockId |-> blocks[order[i]].id, order |-> j - 1, id |-> x]
    BY <1>6, <2>2, Zenon
  <2> QED BY <2>1, <2>3
<1> QED BY <1>2, <1>4, <1>5, <1>7

LEMMA LayoutFacts ==
  ASSUME ProgramInv, NEW order \in Seq(Blocks), Laid(order)
  PROVE  /\ DOMAIN layout = DOMAIN order /\ Len(layout) = Len(order)
         /\ [k \in DOMAIN layout |-> layout[k].n] = Sizes(order)
         /\ \A i \in DOMAIN order :
              /\ layout[i].block = order[i] /\ layout[i].id = blocks[order[i]].id
              /\ layout[i].layoutIndex = i - 1 /\ layout[i].n = Sizes(order)[i]
              /\ layout[i].first = IF Sizes(order)[i] = 0 THEN TOS_INVALID_INSTR ELSE Before(Sizes(order), i)
<1> DEFINE d(i) == [block |-> order[i], id |-> blocks[order[i]].id, layoutIndex |-> i - 1, n |-> Sizes(order)[i],
                    first |-> IF Sizes(order)[i] = 0 THEN TOS_INVALID_INSTR ELSE Before(Sizes(order), i)]
<1>1. layout = [i \in DOMAIN order |-> d(i)]
  BY DEF Laid, Descriptors
<1>2. DOMAIN order = 1..Len(order) /\ Len(order) \in Nat /\ DOMAIN Sizes(order) = DOMAIN order
  BY DEF Sizes
<1>3. DOMAIN layout = DOMAIN order /\ Len(layout) = Len(order)
  <2> HIDE DEF d
  <2> DEFINE S == {d(i) : i \in 1..Len(order)}
  <2>1. layout \in [1..Len(order) -> S]
    BY <1>1, <1>2
  <2>2. layout \in Seq(S)
    BY <1>2, <2>1, SeqDef
  <2> QED BY <1>2, <2>1, <2>2
<1>4. \A i \in DOMAIN order :
         /\ layout[i].block = order[i] /\ layout[i].id = blocks[order[i]].id
         /\ layout[i].layoutIndex = i - 1 /\ layout[i].n = Sizes(order)[i]
         /\ layout[i].first = IF Sizes(order)[i] = 0 THEN TOS_INVALID_INSTR ELSE Before(Sizes(order), i)
  BY <1>1
<1>5. [k \in DOMAIN layout |-> layout[k].n] = Sizes(order)
  <2>1. Sizes(order) = [i \in DOMAIN order |-> blocks[order[i]].n]
    BY DEF Sizes
  <2>2. \A i \in DOMAIN order : layout[i].n = blocks[order[i]].n
    BY <1>4, <2>1
  <2> QED BY <1>3, <2>1, <2>2
<1> QED BY <1>3, <1>4, <1>5

\* Whatever the order, the result is valid.
LEMMA LaidValid ==
  ASSUME ProgramInv, NEW order \in Seq(Blocks), Laid(order)
  PROVE  tosValidateProgram
<1>1. /\ DOMAIN layout = DOMAIN order /\ Len(layout) = Len(order)
      /\ [k \in DOMAIN layout |-> layout[k].n] = Sizes(order)
      /\ \A i \in DOMAIN order :
           /\ layout[i].block = order[i] /\ layout[i].id = blocks[order[i]].id
           /\ layout[i].layoutIndex = i - 1 /\ layout[i].n = Sizes(order)[i]
           /\ layout[i].first = IF Sizes(order)[i] = 0 THEN TOS_INVALID_INSTR ELSE Before(Sizes(order), i)
  BY LayoutFacts
<1> DEFINE sizes == [k \in DOMAIN layout |-> layout[k].n]
<1>2. sizes = Sizes(order)
  BY <1>1
<1>3. Before(sizes, Len(layout) + 1) = Len(stream)
  <2>1. Len(stream) = Before(Sizes(order), Len(order) + 1)
    BY LaidFacts
  <2> HIDE DEF sizes
  <2> QED BY <1>1, <1>2, <2>1
<1>4. ASSUME NEW i \in DOMAIN layout, NEW j \in 1..layout[i].n
      PROVE  /\ stream[Before(sizes, i) + j].id = Before(sizes, i) + j - 1
             /\ stream[Before(sizes, i) + j].order = j - 1
             /\ stream[Before(sizes, i) + j].blockId = layout[i].id
  <2> HIDE DEF sizes
  <2>1. i \in DOMAIN order /\ j \in 1..Sizes(order)[i] /\ layout[i].id = blocks[order[i]].id
    BY <1>1
  <2>2. stream[Before(Sizes(order), i) + j] =
           [block |-> order[i], blockId |-> blocks[order[i]].id, order |-> j - 1,
            id |-> (Before(Sizes(order), i) + j) - 1]
    BY <2>1, LaidFacts
  <2>3. Before(Sizes(order), i) \in Nat /\ j \in Nat
    <3>1. /\ Sizes(order) \in Seq(Nat) /\ i \in 1..(Len(Sizes(order)) + 1)
          /\ Sizes(order)[i] \in Nat
      BY <2>1, SizesType
    <3> QED BY <2>1, <3>1, BeforeStep
  <2>4. (Before(Sizes(order), i) + j) - 1 = Before(Sizes(order), i) + j - 1
    BY <2>3
  <2> QED BY <1>2, <2>1, <2>2, <2>4
<1>5. \A i \in DOMAIN layout :
        layout[i].layoutIndex = i - 1 /\ layout[i].first = IF layout[i].n = 0 THEN TOS_INVALID_INSTR ELSE Before(sizes, i)
  <2> HIDE DEF sizes
  <2> QED BY <1>1, <1>2
<1> QED BY <1>3, <1>4, <1>5 DEF tosValidateProgram

\* The stream depends on what the instructions are, apart from their ids.
LEMMA SameStream ==
  ASSUME ProgramInv, NEW order \in Seq(Blocks), NEW code, NEW copy,
         \A b \in Blocks : \A j \in 1..blocks[b].n : \A x :
           [code[b][j] EXCEPT !.id = x] = [copy[b][j] EXCEPT !.id = x]
  PROVE  Concatenated(order, code) = Concatenated(order, copy)
<1> DEFINE total == Before(Sizes(order), Len(order) + 1)
           Start(i) == Before(Sizes(order), i)
           Owner(k) == CHOOSE i \in DOMAIN order : k \in (Start(i) + 1)..(Start(i) + Sizes(order)[i])
           e(c, k) == [c[order[Owner(k)]][k - Start(Owner(k))] EXCEPT !.id = k - 1]
<1>1. \A c : Concatenated(order, c) = [k \in 1..total |-> e(c, k)]
  BY DEF Concatenated
<1>2. ASSUME NEW k \in 1..total PROVE e(code, k) = e(copy, k)
  <2>1. PICK i \in DOMAIN order : \E j \in 1..Sizes(order)[i] : k = Start(i) + j
    BY Covered
  <2>2. PICK j \in 1..Sizes(order)[i] : k = Start(i) + j
    BY <2>1
  <2>3. /\ Sizes(order) \in Seq(Nat) /\ i \in 1..(Len(Sizes(order)) + 1)
        /\ Sizes(order)[i] \in Nat /\ order[i] \in Blocks /\ Sizes(order)[i] = blocks[order[i]].n
    BY SizesType
  <2>4. Start(i) \in Nat
    BY <2>3, BeforeStep
  <2>5. k \in (Start(i) + 1)..(Start(i) + Sizes(order)[i]) /\ k - Start(i) = j
    BY <2>2, <2>3, <2>4
  <2>6. \A h \in DOMAIN order : k \in (Start(h) + 1)..(Start(h) + Sizes(order)[h]) => h = i
    BY <2>5, Disjoint
  <2> HIDE DEF Start
  <2>7. Owner(k) = i
    BY <2>5, <2>6
  <2>8. [code[order[i]][j] EXCEPT !.id = k - 1] = [copy[order[i]][j] EXCEPT !.id = k - 1]
    BY <2>3
  <2> HIDE DEF Owner
  <2> QED BY <2>5, <2>7, <2>8
<1> HIDE DEF e
<1> QED BY <1>1, <1>2

\* The order of the blocks as they are.
LEMMA Identity ==
  ASSUME ProgramInv
  PROVE  /\ [b \in Blocks |-> b] \in Seq(Blocks) /\ DOMAIN [b \in Blocks |-> b] = Blocks
         /\ \A b \in Blocks : [c \in Blocks |-> c][b] = b
<1>1. Blocks = 1..Len(blocks) /\ Len(blocks) \in Nat
  BY BlockFacts
<1>2. [b \in Blocks |-> b] \in [1..Len(blocks) -> Blocks]
  BY <1>1
<1> QED BY <1>1, <1>2, SeqDef

-----------------------------------------------------------------------------
(* The search.                                                             *)

LEMMA SameGraph ==
  ASSUME blocks' = blocks, succs' = succs
  PROVE  /\ \A b, c : Leads(b, c)' <=> Leads(b, c)
         /\ \A b : Reach(b)' = Reach(b)
<1>1. \A b, c : Leads(b, c)' <=> Leads(b, c)
  BY SameBlocks DEF Leads
<1>2. Blocks' = Blocks
  BY SameBlocks
<1>3. \A b : Reach(b)' = Reach(b)
  BY <1>1, <1>2 DEF Reach
<1> QED BY <1>1, <1>3

LEMMA ReachItself == \A b \in Blocks : b \in Reach(b)
BY DEF Reach

LEMMA ReachOn ==
  ASSUME NEW a, NEW b \in Blocks, NEW c \in Blocks, b \in Reach(a), Leads(b, c)
  PROVE  c \in Reach(a)
BY DEF Reach

\* Where the stream does not change.
LEMMA SameLaid ==
  ASSUME blocks' = blocks, stream' = stream, layout' = layout, NEW order
  PROVE  Laid(order)' <=> Laid(order)
<1>1. Sizes(order)' = Sizes(order)
  BY DEF Sizes
<1>2. Descriptors(order)' = Descriptors(order)
  BY <1>1 DEF Descriptors
<1>3. [b \in Blocks |-> Instrs(b)]' = [b \in Blocks |-> Instrs(b)]
  BY SameBlocks
<1>4. \A code : Concatenated(order, code)' = Concatenated(order, code)
  BY <1>1 DEF Concatenated
<1>5. Concatenated(order, [b \in Blocks |-> Instrs(b)])' = Concatenated(order, [b \in Blocks |-> Instrs(b)])
  BY <1>3, <1>4
<1> QED BY <1>2, <1>5 DEF Laid

LEMMA ReverseFacts ==
  ASSUME SearchInv
  PROVE  /\ LayoutOrder \in Seq(Blocks) /\ Len(LayoutOrder) = Len(postorder) /\ Len(postorder) \in Nat
         /\ DOMAIN LayoutOrder = 1..Len(postorder) /\ DOMAIN postorder = 1..Len(postorder)
         /\ \A i \in 1..Len(postorder) : LayoutOrder[i] = postorder[(Len(postorder) - i) + 1]
<1>1. postorder \in Seq(Blocks)
  BY DEF SearchInv
<1>2. Len(postorder) \in Nat /\ DOMAIN postorder = 1..Len(postorder) /\ \A i \in DOMAIN postorder : postorder[i] \in Blocks
  BY <1>1
<1>3. LayoutOrder = [i \in 1..Len(postorder) |-> postorder[(Len(postorder) - i) + 1]]
  BY DEF LayoutOrder, Reverse
<1>4. \A i \in 1..Len(postorder) : (Len(postorder) - i) + 1 \in DOMAIN postorder
  BY <1>2
<1>5. LayoutOrder \in [1..Len(postorder) -> Blocks]
  BY <1>2, <1>3, <1>4
<1>6. LayoutOrder \in Seq(Blocks)
  BY <1>2, <1>5, SeqDef
<1> QED BY <1>2, <1>3, <1>5, <1>6

\* The blocks and edges are fixed once the layout begins.
LEMMA CfgKept ==
  ASSUME IInv, phase' \in {"mal", "layout", "done"}, cursor = 0,
         UNCHANGED <<blocks, edits, succs, preds, fresh, cursor>>
  PROVE  ProgramInv' /\ CfgType' /\ CfgInv'
<1>1. ProgramInv /\ CfgType /\ CfgInv
  BY DEF IInv
<1>2. ProgramInv' /\ CfgType'
  BY <1>1, SameBlocks DEF CfgType
<1>3. \A b : Computed(b)' <=> Computed(b)
  BY DEF Computed
<1>4. CfgInv'
  <2>1. Blocks' = Blocks
    BY SameBlocks
  <2>2. ASSUME NEW b \in Blocks, Computed(b)' PROVE CfgExact(b)'
    <3>1. CfgExact(b)
      BY <1>1, <1>3, <2>2 DEF CfgInv, CfgExact
    <3> QED BY <1>3, <3>1, CfgElsewhere
  <2> QED BY <2>1, <2>2 DEF CfgInv, CfgExact
<1> QED BY <1>2, <1>4

LEMMA LowerStep ==
  ASSUME IInv, Lower
  PROVE  IInv'
<1>1. ProgramInv /\ CfgType /\ SearchInv
  BY DEF IInv
<1>2. /\ UNCHANGED <<blocks, edits, succs, preds, fresh, cursor, dfs, seen, postorder>>
      /\ cursor = 0 /\ phase = "mal" /\ phase' = "layout"
      /\ stream' = Concatenated([b \in Blocks |-> b], [b \in Blocks |-> Instrs(b)])
      /\ layout' = Descriptors([b \in Blocks |-> b])
  BY DEF Lower
<1>3. ProgramInv' /\ CfgType' /\ CfgInv'
  BY <1>2, CfgKept
<1>4. dfs' = <<>> /\ postorder' = <<>> /\ seen' = {}
  BY <1>1, <1>2 DEF SearchInv
<1>5. SearchInv'
  <2>1. IsFiniteSet(seen') /\ Cardinality(seen') = 0
    BY <1>4, FS_EmptySet
  <2> QED BY <1>2, <1>4, <2>1 DEF SearchInv
<1>6. (Chain /\ Followed)'
  BY <1>4 DEF Chain, Followed
<1>7. Finished'
  BY <1>4 DEF Finished
<1>8. Entry'
  BY <1>4 DEF Entry
<1>9. StreamInv'
  <2> DEFINE order == [b \in Blocks |-> b]
             code == [b \in Blocks |-> Instrs(b)]
  <2>1. order' = order /\ code' = code
    BY <1>2, SameBlocks
  <2>2. \A o : Sizes(o)' = Sizes(o)
    BY <1>2 DEF Sizes
  <2>3. \A o : Descriptors(o)' = Descriptors(o)
    BY <1>2, <2>2 DEF Descriptors
  <2>4. \A o, c : Concatenated(o, c)' = Concatenated(o, c)
    <3> SUFFICES ASSUME NEW o, NEW c PROVE Concatenated(o, c)' = Concatenated(o, c)
      OBVIOUS
    <3>1. Sizes(o)' = Sizes(o)
      BY <2>2
    <3> QED BY <3>1 DEF Concatenated
  <2>5. Laid(order)'
    BY <1>2, <2>1, <2>3, <2>4 DEF Laid
  <2> QED BY <1>2, <2>5 DEF StreamInv
<1> QED BY <1>3, <1>5, <1>6, <1>7, <1>8, <1>9 DEF IInv

\* Rebuilding copies the instructions of every block.
LEMMA RebuildStep ==
  ASSUME IInv, Rebuild
  PROVE  IInv'
<1>1. ProgramInv /\ CfgType /\ SearchInv /\ StreamInv /\ Chain /\ Followed /\ Finished /\ Entry
  BY DEF IInv
<1>2. /\ UNCHANGED <<blocks, edits, succs, preds, fresh, cursor, dfs, seen, postorder>>
      /\ phase = "layout" /\ phase' = "done" /\ dfs = <<>> /\ seen = Blocks
      /\ stream' = Concatenated(LayoutOrder, [b \in Blocks |-> Source(b)])
      /\ layout' = Descriptors(LayoutOrder)
  BY DEF Rebuild
<1>3. ProgramInv' /\ CfgType' /\ CfgInv'
  BY <1>1, <1>2, CfgKept DEF CfgType
<1>4. Blocks' = Blocks /\ Frame' = Frame
  BY <1>2, SameBlocks DEF Frame
<1>5. SearchInv'
  BY <1>1, <1>2, <1>4 DEF SearchInv
<1>6. (Chain /\ Followed)'
  BY <1>2 DEF Chain, Followed
<1>7. (Finished /\ Entry)'
  BY <1>1, <1>2, <1>4, SameGraph DEF Finished, Entry
<1>8. StreamInv'
  <2> DEFINE id == [b \in Blocks |-> b]
             code == [b \in Blocks |-> Source(b)]
             copy == [b \in Blocks |-> Instrs(b)]
  <2>1. Laid(id)
    BY <1>1, <1>2 DEF StreamInv
  <2>2. id \in Seq(Blocks) /\ DOMAIN id = Blocks /\ \A b \in Blocks : id[b] = b
    BY <1>1, Identity
  <2> HIDE DEF id
  <2>3. ASSUME NEW b \in Blocks, NEW j \in 1..blocks[b].n, NEW x
        PROVE  [code[b][j] EXCEPT !.id = x] = [copy[b][j] EXCEPT !.id = x]
    <3>1. Sizes(id)[b] = blocks[b].n /\ blocks[b].n # 0 /\ blocks[b].n \in Nat
      BY <1>1, <2>2, SizesType
    <3>2. layout[b].n = blocks[b].n /\ layout[b].first = Before(Sizes(id), b)
      BY <1>1, <2>1, <2>2, <3>1, LayoutFacts
    <3>3. stream[layout[b].first + j] =
            [block |-> b, blockId |-> blocks[b].id, order |-> j - 1, id |-> (Before(Sizes(id), b) + j) - 1]
      BY <1>1, <2>1, <2>2, <3>1, <3>2, LaidFacts
    <3>4. code[b][j] = [stream[layout[b].first + j] EXCEPT !.order = j - 1]
      BY <3>2 DEF Source
    <3>5. copy[b][j] = [block |-> b, blockId |-> blocks[b].id, order |-> j - 1, id |-> 0]
      BY DEF Instrs
    <3> HIDE DEF code, copy
    <3>6. code[b][j] =
            [block |-> b, blockId |-> blocks[b].id, order |-> j - 1, id |-> (Before(Sizes(id), b) + j) - 1]
      BY <3>3, <3>4
    <3>7. [code[b][j] EXCEPT !.id = x] = [block |-> b, blockId |-> blocks[b].id, order |-> j - 1, id |-> x]
      BY <3>6
    <3>8. [copy[b][j] EXCEPT !.id = x] = [block |-> b, blockId |-> blocks[b].id, order |-> j - 1, id |-> x]
      BY <3>5
    <3> QED BY <3>7, <3>8
  <2>4. LayoutOrder \in Seq(Blocks)
    BY <1>1, ReverseFacts
  <2>5. stream' = Concatenated(LayoutOrder, copy)
    <3> HIDE DEF copy
    <3>1. Concatenated(LayoutOrder, code) = Concatenated(LayoutOrder, copy)
      <4> HIDE DEF code
      <4> QED BY <1>1, <2>3, <2>4, SameStream
    <3> QED BY <1>2, <3>1
  <2>6. LayoutOrder' = LayoutOrder /\ copy' = copy
    BY <1>2, SameBlocks DEF LayoutOrder
  <2>7. \A o : Sizes(o)' = Sizes(o)
    BY <1>2 DEF Sizes
  <2>8. \A o : Descriptors(o)' = Descriptors(o)
    BY <1>2, <2>7 DEF Descriptors
  <2>9. \A o, c : Concatenated(o, c)' = Concatenated(o, c)
    <3> SUFFICES ASSUME NEW o, NEW c PROVE Concatenated(o, c)' = Concatenated(o, c)
      OBVIOUS
    <3>1. Sizes(o)' = Sizes(o)
      BY <2>7
    <3> QED BY <3>1 DEF Concatenated
  <2>10. Laid(LayoutOrder)'
    BY <1>2, <2>5, <2>6, <2>8, <2>9 DEF Laid
  <2> QED BY <1>2, <2>10 DEF StreamInv
<1> QED BY <1>3, <1>5, <1>6, <1>7, <1>8 DEF IInv

\* A stack with the same blocks as dfs.
Restacked(rest) ==
  /\ rest \in Seq(Frame) /\ Len(rest) = Len(dfs)
  /\ \A i \in DOMAIN dfs : rest[i].block = dfs[i].block /\ rest[i].next <= Len(succs[dfs[i].block]) + 1

\* The successors its frames have come past are in S.
PastIn(rest, S) ==
  \A i \in DOMAIN rest : \A j \in DOMAIN succs[rest[i].block] :
    j < rest[i].next /\ tos_find_block_index(succs[rest[i].block][j]) \in Blocks =>
      tos_find_block_index(succs[rest[i].block][j]) \in S

SearchFrame == UNCHANGED <<blocks, edits, succs, preds, fresh, cursor, phase, stream, layout>>

LEMMA SearchKept ==
  ASSUME IInv, phase = "layout", SearchFrame
  PROVE  /\ ProgramInv' /\ CfgType' /\ CfgInv' /\ StreamInv'
         /\ Blocks' = Blocks /\ Frame' = Frame
<1>1. ProgramInv /\ CfgType /\ StreamInv
  BY DEF IInv
<1>2. ProgramInv' /\ CfgType' /\ CfgInv'
  BY <1>1, CfgKept DEF CfgType, SearchFrame
<1>3. Blocks' = Blocks /\ Frame' = Frame
  BY SameBlocks DEF SearchFrame, Frame
<1>4. StreamInv'
  <2> DEFINE order == [b \in Blocks |-> b]
  <2>1. order' = order
    BY <1>3
  <2>2. Laid(order)
    BY <1>1 DEF StreamInv
  <2>3. \A o : Laid(o)' <=> Laid(o)
    BY SameLaid DEF SearchFrame
  <2>4. Laid(order)'
    <3> HIDE DEF order
    <3>1. PICK o : o = order
      OBVIOUS
    <3>2. Laid(o)'
      BY <2>2, <2>3, <3>1
    <3> QED BY <2>1, <3>1, <3>2 DEF Laid
  <2> QED BY <2>4 DEF StreamInv, SearchFrame
<1> QED BY <1>2, <1>3, <1>4

\* Entering a block that was not seen.
LEMMA PushStep ==
  ASSUME IInv, phase = "layout", SearchFrame, postorder' = postorder,
         NEW s \in Blocks \ seen, NEW rest, Restacked(rest), Enter(s, rest),
         \A i \in DOMAIN dfs : s \in Reach(dfs[i].block),
         PastIn(rest, seen \cup {s}), seen = {} => s = 1
  PROVE  IInv'
<1> DEFINE top == [block |-> s, next |-> 1]
<1>1. SearchInv /\ Chain /\ Finished /\ Entry /\ CfgType /\ ProgramInv
  BY DEF IInv
<1>2. ProgramInv' /\ CfgType' /\ CfgInv' /\ StreamInv' /\ Blocks' = Blocks /\ Frame' = Frame
  BY SearchKept
<1>3. blocks' = blocks /\ succs' = succs /\ phase' = phase /\ seen' = seen \cup {s} /\ dfs' = <<top>> \o rest
  BY DEF SearchFrame, Enter
<1>4. rest \in Seq(Frame) /\ Len(rest) = Len(dfs) /\ dfs \in Seq(Frame)
      /\ DOMAIN dfs = 1..Len(dfs) /\ DOMAIN rest = 1..Len(dfs) /\ Len(dfs) \in Nat
  BY <1>1 DEF Restacked, SearchInv
<1>5. top \in Frame
  BY DEF Frame
<1>6. /\ dfs' \in Seq(Frame) /\ Len(dfs') = Len(dfs) + 1 /\ DOMAIN dfs' = 1..(Len(dfs) + 1)
      /\ dfs'[1] = top /\ \A i \in 2..(Len(dfs) + 1) : dfs'[i] = rest[i - 1]
  <2> HIDE DEF top
  <2>1. <<top>> \in Seq(Frame) /\ Len(<<top>>) = 1 /\ <<top>>[1] = top
    BY <1>5
  <2>2. dfs' \in Seq(Frame) /\ Len(dfs') = 1 + Len(rest)
    BY <1>3, <1>4, <2>1, ConcatProperties
  <2>3. \A i \in 1..(1 + Len(rest)) : dfs'[i] = IF i <= 1 THEN <<top>>[i] ELSE rest[i - 1]
    BY <1>3, <1>4, <2>1, ConcatProperties
  <2> QED BY <1>4, <2>1, <2>2, <2>3
<1>7. /\ dfs'[1].block = s /\ dfs'[1].next = 1
      /\ \A i \in 2..(Len(dfs) + 1) : /\ i - 1 \in DOMAIN dfs /\ dfs'[i].block = dfs[i - 1].block
                                      /\ dfs'[i].next = rest[i - 1].next
                                      /\ dfs'[i].next <= Len(succs[dfs[i - 1].block]) + 1
  <2>1. dfs'[1].block = s /\ dfs'[1].next = 1
    BY <1>6
  <2>2. ASSUME NEW i \in 2..(Len(dfs) + 1)
        PROVE  i - 1 \in DOMAIN dfs /\ dfs'[i] = rest[i - 1]
    BY <1>4, <1>6
  <2> QED BY <2>1, <2>2 DEF Restacked
<1> HIDE DEF top
<1>8. \A i \in DOMAIN dfs : dfs[i].block \in seen /\ dfs[i].block \in Blocks
  <2>1. \A i \in DOMAIN dfs : dfs[i] \in Frame
    BY <1>4
  <2>2. \A i \in DOMAIN dfs : dfs[i].block \in seen
    BY <1>1 DEF SearchInv
  <2> QED BY <2>1, <2>2 DEF Frame
<1>9. s \notin seen /\ s \in Blocks /\ Len(succs[s]) \in Nat
  BY <1>1 DEF CfgType
<1>10. SearchInv'
  <2>1. postorder' \in Seq(Blocks') /\ dfs' \in Seq(Frame')
    BY <1>1, <1>2, <1>6 DEF SearchInv
  <2>2. \A i \in DOMAIN dfs' : dfs'[i].next <= Len(succs'[dfs'[i].block]) + 1
    <3> SUFFICES ASSUME NEW i \in DOMAIN dfs' PROVE dfs'[i].next <= Len(succs'[dfs'[i].block]) + 1
      OBVIOUS
    <3>1. CASE i = 1
      BY <1>3, <1>7, <1>9, <3>1
    <3>2. CASE i # 1
      <4>1. i \in 2..(Len(dfs) + 1)
        BY <1>4, <1>6, <3>2
      <4> QED BY <1>3, <1>7, <4>1
    <3> QED BY <3>1, <3>2
  <2>3. seen' = {postorder'[i] : i \in DOMAIN postorder'} \cup {dfs'[i].block : i \in DOMAIN dfs'}
    <3>1. seen = {postorder[i] : i \in DOMAIN postorder} \cup {dfs[i].block : i \in DOMAIN dfs}
      BY <1>1 DEF SearchInv
    <3>2. {dfs'[i].block : i \in DOMAIN dfs'} = {s} \cup {dfs[i].block : i \in DOMAIN dfs}
      <4>1. ASSUME NEW i \in DOMAIN dfs' PROVE dfs'[i].block \in {s} \cup {dfs[h].block : h \in DOMAIN dfs}
        <5>1. i = 1 \/ i \in 2..(Len(dfs) + 1)
          BY <1>4, <1>6
        <5> QED BY <1>7, <5>1
      <4>2. ASSUME NEW i \in DOMAIN dfs PROVE \E h \in DOMAIN dfs' : dfs'[h].block = dfs[i].block
        <5>1. i + 1 \in 2..(Len(dfs) + 1) /\ i + 1 \in DOMAIN dfs' /\ (i + 1) - 1 = i
          BY <1>4, <1>6
        <5> QED BY <1>7, <5>1
      <4>3. 1 \in DOMAIN dfs' /\ dfs'[1].block = s
        BY <1>4, <1>6, <1>7
      <4> QED BY <4>1, <4>2, <4>3
    <3> QED BY <1>3, <3>1, <3>2
  <2>4. \A i, j \in DOMAIN postorder' : postorder'[i] = postorder'[j] => i = j
    BY <1>1 DEF SearchInv
  <2>5. \A i, j \in DOMAIN dfs' : dfs'[i].block = dfs'[j].block => i = j
    <3> SUFFICES ASSUME NEW i \in DOMAIN dfs', NEW j \in DOMAIN dfs', dfs'[i].block = dfs'[j].block
                 PROVE  i = j
      OBVIOUS
    <3>1. (i = 1 \/ i \in 2..(Len(dfs) + 1)) /\ (j = 1 \/ j \in 2..(Len(dfs) + 1))
      BY <1>4, <1>6
    <3>2. CASE i = 1 \/ j = 1
      BY <1>7, <1>8, <1>9, <3>1, <3>2
    <3>3. CASE i \in 2..(Len(dfs) + 1) /\ j \in 2..(Len(dfs) + 1)
      <4>1. i - 1 = j - 1
        BY <1>1, <1>7, <3>3 DEF SearchInv
      <4> QED BY <1>4, <3>3, <4>1
    <3> QED BY <3>1, <3>2, <3>3
  <2>6. \A i \in DOMAIN postorder', j \in DOMAIN dfs' : postorder'[i] # dfs'[j].block
    <3> SUFFICES ASSUME NEW i \in DOMAIN postorder, NEW j \in DOMAIN dfs'
                 PROVE  postorder[i] # dfs'[j].block
      OBVIOUS
    <3>1. j = 1 \/ j \in 2..(Len(dfs) + 1)
      BY <1>4, <1>6
    <3>2. postorder[i] \in seen
      BY <1>1 DEF SearchInv
    <3> QED BY <1>1, <1>7, <1>9, <3>1, <3>2 DEF SearchInv
  <2>7. IsFiniteSet(seen') /\ Cardinality(seen') = Len(postorder') + Len(dfs')
    <3>1. IsFiniteSet(seen) /\ Cardinality(seen) = Len(postorder) + Len(dfs) /\ Len(postorder) \in Nat
      BY <1>1 DEF SearchInv
    <3>2. IsFiniteSet(seen \cup {s}) /\ Cardinality(seen \cup {s}) = Cardinality(seen) + 1
      BY <1>9, <3>1, FS_AddElement
    <3>3. Cardinality(seen') = (Len(postorder) + Len(dfs)) + 1
      BY <1>3, <3>1, <3>2
    <3>4. Len(postorder') = Len(postorder) /\ Len(dfs') = Len(dfs) + 1
      BY <1>6
    <3>5. IsFiniteSet(seen')
      BY <1>3, <3>2
    <3> QED BY <1>4, <3>1, <3>3, <3>4, <3>5
  <2> QED BY <1>3, <2>1, <2>2, <2>3, <2>4, <2>5, <2>6, <2>7 DEF SearchInv
<1>11. Chain'
  <2> SUFFICES ASSUME NEW i \in DOMAIN dfs', NEW j \in DOMAIN dfs', i <= j
               PROVE  dfs'[i].block \in Reach(dfs[j].block)'
    BY DEF Chain
  <2>1. \A b : Reach(b)' = Reach(b)
    BY <1>3, SameGraph
  <2>2. (i = 1 \/ i \in 2..(Len(dfs) + 1)) /\ (j = 1 \/ j \in 2..(Len(dfs) + 1))
    BY <1>4, <1>6
  <2>3. dfs'[i].block \in Reach(dfs'[j].block)
    <3>1. CASE j = 1
      <4>1. i = 1
        BY <1>4, <2>2, <3>1
      <4> QED BY <1>7, <1>9, <3>1, <4>1, ReachItself
    <3>2. CASE j # 1 /\ i = 1
      BY <1>7, <2>2, <3>2
    <3>3. CASE j # 1 /\ i # 1
      <4>1. i - 1 \in DOMAIN dfs /\ j - 1 \in DOMAIN dfs /\ i - 1 <= j - 1
        BY <1>4, <2>2, <3>3
      <4>2. dfs[i - 1].block \in Reach(dfs[j - 1].block)
        BY <1>1, <4>1 DEF Chain
      <4> QED BY <1>7, <2>2, <3>3, <4>2
    <3> QED BY <3>1, <3>2, <3>3
  <2>4. Reach(dfs[j].block)' = Reach(dfs'[j].block)
    BY <1>2, <1>3, SameGraph DEF Reach
  <2> QED BY <2>3, <2>4
<1>12. Followed'
  <2> SUFFICES ASSUME NEW i \in DOMAIN dfs', NEW j \in DOMAIN succs'[dfs'[i].block],
                      j < dfs'[i].next, tos_find_block_index(succs[dfs[i].block][j])' \in Blocks'
               PROVE  tos_find_block_index(succs[dfs[i].block][j])' \in seen'
    BY DEF Followed
  <2>1. i = 1 \/ i \in 2..(Len(dfs) + 1)
    BY <1>4, <1>6
  <2>2. CASE i = 1
    <3>1. j \in Nat \ {0} /\ j < 1
      BY <1>1, <1>3, <1>7, <1>9, <2>2 DEF CfgType
    <3> QED BY <3>1
  <2>3. CASE i \in 2..(Len(dfs) + 1)
    <3>1. i - 1 \in DOMAIN rest /\ dfs'[i] = rest[i - 1]
      BY <1>4, <1>6, <1>7, <2>3
    <3>2. tos_find_block_index(succs[rest[i - 1].block][j]) \in Blocks => tos_find_block_index(succs[rest[i - 1].block][j]) \in seen \cup {s}
      BY <1>3, <3>1 DEF PastIn
    <3>3. tos_find_block_index(succs[dfs[i].block][j])' = tos_find_block_index(succs[rest[i - 1].block][j])
      BY <1>2, <1>3, <3>1 DEF tos_find_block_index
    <3> QED BY <1>2, <1>3, <3>2, <3>3
  <2> QED BY <2>1, <2>2, <2>3
<1>13. Finished'
  BY <1>1, <1>2, <1>3, SameGraph DEF Finished
<1>14. Entry'
  <2>1. CASE seen = {}
    <3>1. Len(dfs) = 0
      BY <1>4, <1>8, <2>1
    <3>2. dfs'[Len(dfs')].block = 1 /\ dfs' # <<>>
      <4>1. Len(dfs') = 1 /\ s = 1
        BY <1>6, <2>1, <3>1
      <4>2. dfs' # <<>>
        BY <1>6, <4>1
      <4> QED BY <1>7, <4>1, <4>2
    <3> QED BY <3>2 DEF Entry
  <2>2. CASE dfs # <<>> /\ dfs[Len(dfs)].block = 1
    <3>1. Len(dfs) # 0
      BY <1>4, <2>2
    <3>2. Len(dfs') \in 2..(Len(dfs) + 1) /\ Len(dfs') - 1 = Len(dfs)
      BY <1>4, <1>6, <3>1
    <3>3. dfs'[Len(dfs')].block = 1 /\ dfs' # <<>>
      BY <1>6, <1>7, <2>2, <3>2
    <3> QED BY <3>3 DEF Entry
  <2>3. CASE \E i \in DOMAIN postorder :
               /\ postorder[i] = 1
               /\ \A j \in 1..i, c \in Blocks : Leads(postorder[j], c) => \E k \in 1..i : postorder[k] = c
    BY <1>2, <1>3, <2>3, SameGraph DEF Entry
  <2> QED BY <1>1, <2>1, <2>2, <2>3 DEF Entry
<1> QED BY <1>2, <1>10, <1>11, <1>12, <1>13, <1>14 DEF IInv

\* Coming past a successor that was seen, or does not exist.
LEMMA PassStep ==
  ASSUME IInv, phase = "layout", SearchFrame, postorder' = postorder, seen' = seen,
         NEW rest, Restacked(rest), dfs' = rest, PastIn(rest, seen)
  PROVE  IInv'
<1>1. SearchInv /\ Chain /\ Finished /\ Entry /\ CfgType /\ ProgramInv
  BY DEF IInv
<1>2. ProgramInv' /\ CfgType' /\ CfgInv' /\ StreamInv' /\ Blocks' = Blocks /\ Frame' = Frame
  BY SearchKept
<1>3. blocks' = blocks /\ succs' = succs /\ phase' = phase
  BY DEF SearchFrame
<1>4. /\ dfs' \in Seq(Frame) /\ Len(dfs') = Len(dfs) /\ dfs \in Seq(Frame)
      /\ DOMAIN dfs = 1..Len(dfs) /\ DOMAIN dfs' = 1..Len(dfs) /\ Len(dfs) \in Nat
  BY <1>1 DEF Restacked, SearchInv
<1>5. \A i \in DOMAIN dfs : dfs'[i].block = dfs[i].block /\ dfs'[i].next <= Len(succs[dfs[i].block]) + 1
  BY DEF Restacked
<1>6. SearchInv'
  <2>1. {dfs'[i].block : i \in DOMAIN dfs'} = {dfs[i].block : i \in DOMAIN dfs}
    BY <1>4, <1>5
  <2>2. seen' = {postorder'[i] : i \in DOMAIN postorder'} \cup {dfs'[i].block : i \in DOMAIN dfs'}
    BY <1>1, <2>1 DEF SearchInv
  <2>3. \A i \in DOMAIN dfs' : dfs'[i].next <= Len(succs'[dfs'[i].block]) + 1
    BY <1>3, <1>4, <1>5
  <2>4. \A i, j \in DOMAIN dfs' : dfs'[i].block = dfs'[j].block => i = j
    BY <1>1, <1>4, <1>5 DEF SearchInv
  <2>5. \A i \in DOMAIN postorder', j \in DOMAIN dfs' : postorder'[i] # dfs'[j].block
    BY <1>1, <1>4, <1>5 DEF SearchInv
  <2>6. IsFiniteSet(seen') /\ Cardinality(seen') = Len(postorder') + Len(dfs')
    BY <1>1, <1>4 DEF SearchInv
  <2>7. postorder' \in Seq(Blocks') /\ \A i, j \in DOMAIN postorder' : postorder'[i] = postorder'[j] => i = j
    BY <1>1, <1>2 DEF SearchInv
  <2> QED BY <1>2, <1>3, <1>4, <2>2, <2>3, <2>4, <2>5, <2>6, <2>7 DEF SearchInv
<1>7. Chain'
  <2> SUFFICES ASSUME NEW i \in DOMAIN dfs', NEW j \in DOMAIN dfs', i <= j
               PROVE  dfs'[i].block \in Reach(dfs[j].block)'
    BY DEF Chain
  <2>1. Reach(dfs[j].block)' = Reach(dfs'[j].block)
    BY <1>2, <1>3, SameGraph DEF Reach
  <2>2. dfs[i].block \in Reach(dfs[j].block)
    BY <1>1, <1>4 DEF Chain
  <2> QED BY <1>4, <1>5, <2>1, <2>2
<1>8. Followed'
  <2> SUFFICES ASSUME NEW i \in DOMAIN dfs', NEW j \in DOMAIN succs'[dfs'[i].block],
                      j < dfs'[i].next, tos_find_block_index(succs[dfs[i].block][j])' \in Blocks'
               PROVE  tos_find_block_index(succs[dfs[i].block][j])' \in seen'
    BY DEF Followed
  <2>1. tos_find_block_index(succs[dfs[i].block][j])' = tos_find_block_index(succs[rest[i].block][j])
    BY <1>2, <1>3 DEF tos_find_block_index
  <2> QED BY <1>2, <1>3, <2>1 DEF PastIn
<1>9. Finished'
  BY <1>1, <1>2, <1>3, SameGraph DEF Finished
<1>10. Entry'
  <2>1. CASE dfs # <<>> /\ dfs[Len(dfs)].block = 1
    <3>1. Len(dfs) # 0
      BY <1>4, <2>1
    <3>2. dfs' # <<>> /\ Len(dfs') \in DOMAIN dfs
      BY <1>4, <3>1
    <3>3. dfs'[Len(dfs')].block = 1
      BY <1>4, <1>5, <2>1, <3>2
    <3> QED BY <3>2, <3>3 DEF Entry
  <2>2. CASE \E i \in DOMAIN postorder :
               /\ postorder[i] = 1
               /\ \A j \in 1..i, c \in Blocks : Leads(postorder[j], c) => \E k \in 1..i : postorder[k] = c
    BY <1>2, <1>3, <2>2, SameGraph DEF Entry
  <2> QED BY <1>1, <2>1, <2>2 DEF Entry
<1> QED BY <1>2, <1>6, <1>7, <1>8, <1>9, <1>10 DEF IInv

LEMMA RootStep ==
  ASSUME IInv, VisitRoot
  PROVE  IInv'
<1>1. SearchInv /\ ProgramInv
  BY DEF IInv
<1>2. /\ SearchFrame /\ phase = "layout" /\ postorder' = postorder
      /\ dfs = <<>> /\ seen # Blocks /\ Enter(FirstUnseen, <<>>)
  BY DEF VisitRoot, SearchFrame
<1>3. Blocks \ seen \in SUBSET Nat /\ Blocks \ seen # {} /\ seen \subseteq Blocks
  <2>1. seen \subseteq Blocks
    BY <1>1, <1>2 DEF SearchInv
  <2> QED BY <1>1, <1>2, <2>1, BlockFacts
<1>4. FirstUnseen \in Blocks \ seen /\ \A b \in Blocks \ seen : FirstUnseen <= b
  BY <1>3, MinNat DEF FirstUnseen
<1>5. seen = {} => FirstUnseen = 1
  <2>1. Blocks = 1..Len(blocks) /\ Len(blocks) \in Nat
    BY <1>1, BlockFacts
  <2>2. seen = {} => 1 \in Blocks \ seen
    BY <1>4, <2>1
  <2> QED BY <1>4, <2>1, <2>2
<1>6. Restacked(<<>>) /\ PastIn(<<>>, seen \cup {FirstUnseen})
  BY <1>2 DEF Restacked, PastIn
<1>7. PICK s \in Blocks \ seen : s = FirstUnseen
  BY <1>4
<1>8. Enter(s, <<>>)
  BY <1>2, <1>7 DEF Enter
<1>9. \A i \in DOMAIN dfs : s \in Reach(dfs[i].block)
  BY <1>2
<1> QED BY <1>2, <1>5, <1>6, <1>7, <1>8, <1>9, PushStep

LEMMA SuccessorStep ==
  ASSUME IInv, VisitSuccessor
  PROVE  IInv'
<1>1. SearchInv /\ ProgramInv /\ CfgType /\ Chain /\ Followed
  BY DEF IInv
<1> DEFINE top == Head(dfs)
           b == top.block
           s == tos_find_block_index(succs[b][top.next])
           rest == <<Advance(top)>> \o Tail(dfs)
<1>2. /\ SearchFrame /\ phase = "layout" /\ postorder' = postorder
      /\ dfs # <<>> /\ top.next <= Len(succs[b])
      /\ \/ s \in Blocks \ seen /\ Enter(s, rest)
         \/ s \notin Blocks \ seen /\ dfs' = rest /\ seen' = seen
  BY DEF VisitSuccessor, SearchFrame
<1>3. /\ dfs \in Seq(Frame) /\ Len(dfs) \in Nat \ {0} /\ DOMAIN dfs = 1..Len(dfs) /\ top = dfs[1]
      /\ 1 \in DOMAIN dfs /\ top \in Frame
      /\ Tail(dfs) \in Seq(Frame) /\ Len(Tail(dfs)) = Len(dfs) - 1
      /\ \A i \in 1..(Len(dfs) - 1) : Tail(dfs)[i] = dfs[i + 1]
  BY <1>1, <1>2 DEF SearchInv
<1>4. b \in Blocks /\ top.next \in Nat \ {0} /\ succs[b] \in Seq(Ids) /\ Len(succs[b]) \in Nat
      /\ DOMAIN succs[b] = 1..Len(succs[b])
  BY <1>1, <1>3 DEF Frame, CfgType
<1>5. Advance(top) = [block |-> b, next |-> top.next + 1] /\ Advance(top) \in Frame
  <2>1. top = [block |-> b, next |-> top.next]
    BY <1>3 DEF Frame
  <2>2. Advance(top) = [block |-> b, next |-> top.next + 1]
    BY <2>1 DEF Advance
  <2> QED BY <1>4, <2>2 DEF Frame
<1> HIDE DEF top
<1>6. /\ rest \in Seq(Frame) /\ Len(rest) = Len(dfs) /\ DOMAIN rest = 1..Len(dfs)
      /\ rest[1] = Advance(top) /\ \A i \in 2..Len(dfs) : rest[i] = dfs[i]
  <2>1. PICK a \in Frame : a = Advance(top)
    BY <1>5
  <2>2. PICK t \in Seq(Frame) : t = Tail(dfs)
    BY <1>3
  <2>3. <<a>> \in Seq(Frame) /\ Len(<<a>>) = 1 /\ <<a>>[1] = a
    OBVIOUS
  <2>4. /\ <<a>> \o t \in Seq(Frame) /\ Len(<<a>> \o t) = 1 + Len(t)
        /\ \A i \in 1..(1 + Len(t)) : (<<a>> \o t)[i] = IF i <= 1 THEN <<a>>[i] ELSE t[i - 1]
    BY <2>3, ConcatProperties
  <2>5. rest = <<a>> \o t
    BY <2>1, <2>2
  <2>6. rest \in Seq(Frame) /\ Len(rest) = Len(dfs) /\ DOMAIN rest = 1..Len(dfs) /\ rest[1] = a
    BY <1>3, <2>2, <2>3, <2>4, <2>5
  <2>7. ASSUME NEW i \in 2..Len(dfs) PROVE rest[i] = dfs[i]
    <3>1. i \in 1..(1 + Len(t)) /\ ~ (i <= 1) /\ i - 1 \in 1..(Len(dfs) - 1) /\ (i - 1) + 1 = i
      BY <1>3, <2>2
    <3>2. rest[i] = t[i - 1]
      BY <2>4, <2>5, <3>1
    <3> QED BY <1>3, <2>2, <3>1, <3>2
  <2> QED BY <2>1, <2>6, <2>7
<1> HIDE DEF rest
<1>7. Restacked(rest)
  <2>1. ASSUME NEW i \in DOMAIN dfs
        PROVE  rest[i].block = dfs[i].block /\ rest[i].next <= Len(succs[dfs[i].block]) + 1
    <3>1. i = 1 \/ i \in 2..Len(dfs)
      BY <1>3
    <3>2. CASE i = 1
      <4>1. rest[1].block = b /\ rest[1].next = top.next + 1
        BY <1>5, <1>6
      <4> QED BY <1>2, <1>3, <1>4, <3>2, <4>1
    <3>3. CASE i \in 2..Len(dfs)
      BY <1>1, <1>6, <3>3 DEF SearchInv
    <3> QED BY <3>1, <3>2, <3>3
  <2> QED BY <1>6, <2>1 DEF Restacked
<1>8. ASSUME NEW S, seen \subseteq S, s \in Blocks => s \in S
      PROVE  PastIn(rest, S)
  <2> SUFFICES ASSUME NEW i \in DOMAIN rest, NEW j \in DOMAIN succs[rest[i].block],
                      j < rest[i].next, tos_find_block_index(succs[rest[i].block][j]) \in Blocks
               PROVE  tos_find_block_index(succs[rest[i].block][j]) \in S
    BY DEF PastIn
  <2>1. i \in DOMAIN dfs /\ (i = 1 \/ i \in 2..Len(dfs))
    BY <1>3, <1>6
  <2>2. CASE i = 1 /\ j = top.next
    <3>1. rest[i].block = b
      BY <1>5, <1>6, <2>2
    <3> QED BY <1>8, <2>2, <3>1
  <2>3. CASE i = 1 /\ j # top.next
    <3>1. rest[i].block = b /\ rest[i].next = top.next + 1 /\ dfs[i] = top
      BY <1>3, <1>5, <1>6, <2>3
    <3>2. j \in Nat /\ j < top.next
      BY <1>4, <2>3, <3>1
    <3>3. tos_find_block_index(succs[rest[i].block][j]) \in seen
      BY <1>1, <2>1, <3>1, <3>2 DEF Followed
    <3> QED BY <1>8, <3>3
  <2>4. CASE i \in 2..Len(dfs)
    <3>1. rest[i] = dfs[i]
      BY <1>6, <2>4
    <3>2. tos_find_block_index(succs[rest[i].block][j]) \in seen
      BY <1>1, <2>1, <3>1 DEF Followed
    <3> QED BY <1>8, <3>2
  <2> QED BY <2>1, <2>2, <2>3, <2>4
<1>9. CASE s \in Blocks \ seen /\ Enter(s, rest)
  <2>1. PICK c \in Blocks \ seen : c = s
    BY <1>9
  <2>2. Leads(b, c)
    <3>1. top.next \in DOMAIN succs[b]
      BY <1>2, <1>4
    <3> QED BY <2>1, <3>1 DEF Leads
  <2>3. \A i \in DOMAIN dfs : c \in Reach(dfs[i].block)
    <3> SUFFICES ASSUME NEW i \in DOMAIN dfs PROVE c \in Reach(dfs[i].block)
      OBVIOUS
    <3>1. 1 <= i
      BY <1>3
    <3>2. b \in Reach(dfs[i].block)
      BY <1>1, <1>3, <3>1 DEF Chain
    <3> QED BY <1>4, <2>2, <3>2, ReachOn
  <2>4. PastIn(rest, seen \cup {c})
    BY <1>8, <2>1
  <2>5. seen # {}
    <3>1. dfs[1].block \in {dfs[i].block : i \in DOMAIN dfs}
      BY <1>3
    <3> QED BY <1>1, <3>1 DEF SearchInv
  <2>6. Enter(c, rest)
    BY <1>9, <2>1
  <2> HIDE DEF s
  <2> QED BY <1>2, <1>7, <2>3, <2>4, <2>5, <2>6, PushStep
<1>10. CASE s \notin Blocks \ seen /\ dfs' = rest /\ seen' = seen
  <2>1. PastIn(rest, seen)
    BY <1>8, <1>10
  <2> QED BY <1>2, <1>7, <1>10, <2>1, PassStep
<1> QED BY <1>2, <1>9, <1>10

LEMMA DoneStep ==
  ASSUME IInv, VisitDone
  PROVE  IInv'
<1>1. SearchInv /\ ProgramInv /\ CfgType /\ Chain /\ Followed /\ Finished /\ Entry
  BY DEF IInv
<1> DEFINE b == Head(dfs).block
           N == Len(postorder)
           M == Len(dfs)
<1>2. /\ SearchFrame /\ phase = "layout" /\ seen' = seen
      /\ dfs # <<>> /\ Head(dfs).next > Len(succs[b])
      /\ postorder' = Append(postorder, b) /\ dfs' = Tail(dfs)
  BY DEF VisitDone, SearchFrame
<1>3. ProgramInv' /\ CfgType' /\ CfgInv' /\ StreamInv' /\ Blocks' = Blocks /\ Frame' = Frame
  BY <1>2, SearchKept
<1>4. blocks' = blocks /\ succs' = succs /\ phase' = phase
  BY <1>2 DEF SearchFrame
<1>5. /\ dfs \in Seq(Frame) /\ M \in Nat \ {0} /\ DOMAIN dfs = 1..M /\ Head(dfs) = dfs[1]
      /\ 1 \in DOMAIN dfs /\ dfs[1] \in Frame
      /\ dfs' \in Seq(Frame) /\ Len(dfs') = M - 1 /\ DOMAIN dfs' = 1..(M - 1)
      /\ \A i \in 1..(M - 1) : dfs'[i] = dfs[i + 1] /\ i + 1 \in DOMAIN dfs
  BY <1>1, <1>2 DEF SearchInv
<1>6. PICK t \in Blocks : t = b
  BY <1>5 DEF Frame
<1>7. /\ postorder \in Seq(Blocks) /\ N \in Nat /\ DOMAIN postorder = 1..N
      /\ postorder' \in Seq(Blocks) /\ Len(postorder') = N + 1 /\ DOMAIN postorder' = 1..(N + 1)
      /\ postorder'[N + 1] = t /\ \A i \in 1..N : postorder'[i] = postorder[i]
  BY <1>1, <1>2, <1>6 DEF SearchInv
<1>8. dfs[1].block = t /\ dfs[1].next > Len(succs[t]) /\ succs[t] \in Seq(Ids) /\ Len(succs[t]) \in Nat
  BY <1>1, <1>2, <1>5, <1>6 DEF CfgType
<1> HIDE DEF b, N, M
<1>9. \A i \in DOMAIN dfs : dfs[i].block = t => i = 1
  BY <1>1, <1>5, <1>8 DEF SearchInv
<1>10. SearchInv'
  <2>1. seen' = {postorder'[i] : i \in DOMAIN postorder'} \cup {dfs'[i].block : i \in DOMAIN dfs'}
    <3>1. {postorder'[i] : i \in DOMAIN postorder'} = {postorder[i] : i \in DOMAIN postorder} \cup {t}
      <4>1. \A i \in DOMAIN postorder' : i \in DOMAIN postorder \/ i = N + 1
        BY <1>7
      <4>2. \A i \in DOMAIN postorder : i \in DOMAIN postorder' /\ postorder'[i] = postorder[i]
        BY <1>7
      <4>3. N + 1 \in DOMAIN postorder'
        BY <1>7
      <4> QED BY <1>7, <4>1, <4>2, <4>3
    <3>2. {dfs[i].block : i \in DOMAIN dfs} = {dfs'[i].block : i \in DOMAIN dfs'} \cup {t}
      <4>1. ASSUME NEW i \in DOMAIN dfs, i # 1 PROVE \E h \in DOMAIN dfs' : dfs'[h].block = dfs[i].block
        <5>1. i - 1 \in 1..(M - 1) /\ (i - 1) + 1 = i
          BY <1>5, <4>1
        <5> QED BY <1>5, <5>1
      <4>2. \A h \in DOMAIN dfs' : h + 1 \in DOMAIN dfs /\ dfs'[h].block = dfs[h + 1].block
        BY <1>5
      <4>3. ASSUME NEW x \in {dfs[i].block : i \in DOMAIN dfs}
            PROVE  x \in {dfs'[i].block : i \in DOMAIN dfs'} \cup {t}
        <5>1. PICK i \in DOMAIN dfs : x = dfs[i].block
          BY <4>3
        <5>2. CASE i = 1
          BY <1>8, <5>1, <5>2
        <5>3. CASE i # 1
          BY <4>1, <5>1, <5>3
        <5> QED BY <5>2, <5>3
      <4>4. {dfs'[i].block : i \in DOMAIN dfs'} \subseteq {dfs[i].block : i \in DOMAIN dfs}
        BY <4>2
      <4>5. t \in {dfs[i].block : i \in DOMAIN dfs}
        BY <1>5, <1>8
      <4> QED BY <4>3, <4>4, <4>5
    <3>3. seen = {postorder[i] : i \in DOMAIN postorder} \cup {dfs[i].block : i \in DOMAIN dfs}
      BY <1>1 DEF SearchInv
    <3> QED BY <1>2, <3>1, <3>2, <3>3
  <2>2. \A i \in DOMAIN dfs' : dfs'[i].next <= Len(succs'[dfs'[i].block]) + 1
    BY <1>1, <1>4, <1>5 DEF SearchInv
  <2>3. \A i, j \in DOMAIN postorder' : postorder'[i] = postorder'[j] => i = j
    <3>1. \A i \in 1..N : postorder[i] # t
      <4>1. \A i \in DOMAIN postorder, j \in DOMAIN dfs : postorder[i] # dfs[j].block
        BY <1>1 DEF SearchInv
      <4> QED BY <1>5, <1>7, <1>8, <4>1
    <3>2. \A i \in DOMAIN postorder' : i \in 1..N \/ i = N + 1
      BY <1>7
    <3>3. \A i, j \in 1..N : postorder[i] = postorder[j] => i = j
      BY <1>1, <1>7 DEF SearchInv
    <3> QED BY <1>7, <3>1, <3>2, <3>3
  <2>4. \A i, j \in DOMAIN dfs' : dfs'[i].block = dfs'[j].block => i = j
    <3> SUFFICES ASSUME NEW i \in DOMAIN dfs', NEW j \in DOMAIN dfs', dfs'[i].block = dfs'[j].block
                 PROVE  i = j
      OBVIOUS
    <3>1. \A h, k \in DOMAIN dfs : dfs[h].block = dfs[k].block => h = k
      BY <1>1 DEF SearchInv
    <3>2. i \in 1..(M - 1) /\ j \in 1..(M - 1)
      BY <1>5
    <3>3. i + 1 \in DOMAIN dfs /\ j + 1 \in DOMAIN dfs /\ dfs[i + 1].block = dfs[j + 1].block
      BY <1>5, <3>2
    <3>4. i + 1 = j + 1
      BY <3>1, <3>3
    <3> QED BY <3>2, <3>4
  <2>5. \A i \in DOMAIN postorder', j \in DOMAIN dfs' : postorder'[i] # dfs'[j].block
    <3> SUFFICES ASSUME NEW i \in DOMAIN postorder', NEW j \in DOMAIN dfs'
                 PROVE  postorder'[i] # dfs'[j].block
      OBVIOUS
    <3>1. j + 1 \in DOMAIN dfs /\ dfs'[j] = dfs[j + 1] /\ j + 1 # 1
      BY <1>5
    <3>2. CASE i = N + 1
      BY <1>7, <1>9, <3>1, <3>2
    <3>3. CASE i \in 1..N
      BY <1>1, <1>7, <3>1, <3>3 DEF SearchInv
    <3> QED BY <1>7, <3>2, <3>3
  <2>6. IsFiniteSet(seen') /\ Cardinality(seen') = Len(postorder') + Len(dfs')
    <3>1. IsFiniteSet(seen) /\ Cardinality(seen) = N + M
      BY <1>1 DEF SearchInv, N, M
    <3> QED BY <1>2, <1>5, <1>7, <3>1
  <2> QED BY <1>2, <1>3, <1>4, <1>5, <1>7, <2>1, <2>2, <2>3, <2>4, <2>5, <2>6 DEF SearchInv
<1>11. Chain'
  <2> SUFFICES ASSUME NEW i \in DOMAIN dfs', NEW j \in DOMAIN dfs', i <= j
               PROVE  dfs'[i].block \in Reach(dfs[j].block)'
    BY DEF Chain
  <2>1. Reach(dfs[j].block)' = Reach(dfs'[j].block)
    BY <1>3, <1>4, SameGraph DEF Reach
  <2>2. i + 1 \in DOMAIN dfs /\ j + 1 \in DOMAIN dfs /\ i + 1 <= j + 1
    BY <1>5
  <2>3. dfs[i + 1].block \in Reach(dfs[j + 1].block)
    BY <1>1, <2>2 DEF Chain
  <2> QED BY <1>5, <2>1, <2>3
<1>12. Followed'
  <2> SUFFICES ASSUME NEW i \in DOMAIN dfs', NEW j \in DOMAIN succs'[dfs'[i].block],
                      j < dfs'[i].next, tos_find_block_index(succs[dfs[i].block][j])' \in Blocks'
               PROVE  tos_find_block_index(succs[dfs[i].block][j])' \in seen'
    BY DEF Followed
  <2>1. i + 1 \in DOMAIN dfs /\ dfs'[i] = dfs[i + 1]
    BY <1>5
  <2>2. tos_find_block_index(succs[dfs[i].block][j])' = tos_find_block_index(succs[dfs[i + 1].block][j])
    BY <1>3, <1>4, <2>1 DEF tos_find_block_index
  <2> QED BY <1>1, <1>2, <1>3, <1>4, <2>1, <2>2 DEF Followed
<1>13. \A c \in Blocks : Leads(t, c) => c \in seen
  <2> SUFFICES ASSUME NEW c \in Blocks, Leads(t, c) PROVE c \in seen
    OBVIOUS
  <2>1. PICK j \in DOMAIN succs[t] : tos_find_block_index(succs[t][j]) = c
    BY DEF Leads
  <2>2. j < dfs[1].next
    <3>1. j \in Nat /\ j <= Len(succs[t]) /\ dfs[1].next \in Nat
      BY <1>5, <1>8 DEF Frame
    <3> QED BY <1>8, <3>1
  <2> QED BY <1>1, <1>5, <1>8, <2>1, <2>2 DEF Followed
<1>14. ASSUME NEW i \in DOMAIN postorder', NEW c \in Blocks, Leads(postorder'[i], c)
       PROVE  /\ c \in seen
              /\ (\E k \in DOMAIN postorder' : k < i /\ postorder'[k] = c) \/ postorder'[i] \in Reach(c)
  <2>1. CASE i \in 1..N
    <3>1. /\ c \in seen
          /\ (\E k \in DOMAIN postorder : k < i /\ postorder[k] = c) \/ postorder[i] \in Reach(c)
      BY <1>1, <1>7, <1>14, <2>1 DEF Finished
    <3>2. \A k \in DOMAIN postorder : k \in DOMAIN postorder' /\ postorder'[k] = postorder[k]
      BY <1>7
    <3> QED BY <1>7, <2>1, <3>1, <3>2
  <2>2. CASE i = N + 1
    <3>1. postorder'[i] = t /\ c \in seen
      BY <1>7, <1>13, <1>14, <2>2
    <3>2. CASE \E k \in DOMAIN postorder : postorder[k] = c
      <4>1. PICK k \in DOMAIN postorder : postorder[k] = c
        BY <3>2
      <4>2. k \in DOMAIN postorder' /\ k < i /\ postorder'[k] = c
        BY <1>7, <2>2, <4>1
      <4> QED BY <3>1, <4>2
    <3>3. CASE \E h \in DOMAIN dfs : dfs[h].block = c
      <4>1. PICK h \in DOMAIN dfs : dfs[h].block = c
        BY <3>3
      <4>2. 1 <= h
        BY <1>5
      <4>3. t \in Reach(c)
        BY <1>1, <1>5, <1>8, <4>1, <4>2 DEF Chain
      <4> QED BY <3>1, <4>3
    <3> QED BY <1>1, <3>1, <3>2, <3>3 DEF SearchInv
  <2> QED BY <1>7, <2>1, <2>2
<1>15. Finished'
  <2> SUFFICES ASSUME NEW i \in DOMAIN postorder', NEW c \in Blocks', Leads(postorder[i], c)'
               PROVE  /\ c \in seen'
                      /\ (\E k \in DOMAIN postorder' : k < i /\ postorder'[k] = c) \/ postorder'[i] \in Reach(c)'
    BY DEF Finished
  <2>1. Leads(postorder'[i], c) /\ Reach(c)' = Reach(c) /\ c \in Blocks
    <3>1. Leads(postorder[i], c)' => Leads(postorder'[i], c)
      BY <1>3, <1>4 DEF Leads, tos_find_block_index
    <3> QED BY <1>3, <1>4, <3>1, SameGraph
  <2> QED BY <1>2, <1>14, <2>1
<1>16. Entry'
  <2>1. \A i, c : Leads(postorder[i], c)' => Leads(postorder'[i], c)
    BY <1>3, <1>4 DEF Leads, tos_find_block_index
  <2>2. CASE M = 1 /\ dfs[Len(dfs)].block = 1
    <3>1. t = 1
      BY <1>8, <2>2 DEF M
    <3>2. postorder'[N + 1] = 1 /\ N + 1 \in DOMAIN postorder'
      BY <1>7, <3>1
    <3>3. ASSUME NEW j \in 1..(N + 1), NEW c \in Blocks', Leads(postorder[j], c)'
          PROVE  \E k \in 1..(N + 1) : postorder'[k] = c
      <4>1. c \in seen'
        BY <1>2, <1>3, <1>7, <1>14, <2>1, <3>3
      <4>2. seen' = {postorder'[i] : i \in DOMAIN postorder'} \cup {dfs'[i].block : i \in DOMAIN dfs'}
        BY <1>10 DEF SearchInv
      <4>3. DOMAIN dfs' = {}
        BY <1>5, <2>2
      <4> QED BY <1>7, <4>1, <4>2, <4>3
    <3>4. \E i \in DOMAIN postorder' :
            /\ postorder'[i] = 1
            /\ \A j \in 1..i, c \in Blocks' : Leads(postorder[j], c)' => \E k \in 1..i : postorder'[k] = c
      BY <3>2, <3>3
    <3> QED BY <3>4 DEF Entry
  <2>3. CASE M # 1 /\ dfs[Len(dfs)].block = 1
    <3>1. M - 1 \in 1..(M - 1) /\ (M - 1) + 1 = M
      BY <1>5, <2>3
    <3>2. dfs'[Len(dfs')].block = 1 /\ dfs' # <<>>
      <4>1. dfs'[M - 1] = dfs[M] /\ Len(dfs') = M - 1
        BY <1>5, <3>1
      <4>2. dfs' # <<>>
        BY <1>5, <3>1
      <4> QED BY <2>3, <4>1, <4>2 DEF M
    <3> QED BY <3>2 DEF Entry
  <2>4. CASE \E i \in DOMAIN postorder :
               /\ postorder[i] = 1
               /\ \A j \in 1..i, c \in Blocks : Leads(postorder[j], c) => \E k \in 1..i : postorder[k] = c
    <3>1. PICK i \in DOMAIN postorder :
            /\ postorder[i] = 1
            /\ \A j \in 1..i, c \in Blocks : Leads(postorder[j], c) => \E k \in 1..i : postorder[k] = c
      BY <2>4
    <3>2. i \in DOMAIN postorder' /\ postorder'[i] = 1 /\ \A j \in 1..i : postorder'[j] = postorder[j]
      BY <1>7, <3>1
    <3>3. \A j \in 1..i, c \in Blocks' : Leads(postorder[j], c)' => \E k \in 1..i : postorder'[k] = c
      BY <1>3, <2>1, <3>1, <3>2
    <3> QED BY <3>2, <3>3 DEF Entry
  <2>5. seen # {}
    <3>1. dfs[1].block \in {dfs[i].block : i \in DOMAIN dfs}
      BY <1>5
    <3> QED BY <1>1, <3>1 DEF SearchInv
  <2> QED BY <1>1, <2>2, <2>3, <2>4, <2>5 DEF Entry
<1> QED BY <1>3, <1>10, <1>11, <1>12, <1>15, <1>16 DEF IInv


-----------------------------------------------------------------------------
(* The theorems.                                                           *)

LEMMA StutterStep ==
  ASSUME IInv, UNCHANGED vars
  PROVE  IInv'
<1>1. /\ blocks' = blocks /\ edits' = edits /\ succs' = succs /\ preds' = preds /\ fresh' = fresh
      /\ cursor' = cursor /\ phase' = phase /\ dfs' = dfs /\ seen' = seen /\ postorder' = postorder
      /\ stream' = stream /\ layout' = layout
  BY DEF vars
<1>2. ProgramInv' /\ CfgType'
  BY <1>1, SameBlocks DEF IInv, CfgType
<1>3. CfgInv'
  <2>1. Blocks' = Blocks /\ \A b : Computed(b)' <=> Computed(b)
    BY <1>1, SameBlocks DEF Computed
  <2>2. ASSUME NEW b \in Blocks, Computed(b)' PROVE CfgExact(b)'
    <3>1. CfgExact(b)
      BY <2>1, <2>2 DEF IInv, CfgInv, CfgExact
    <3> QED BY <1>1, <2>1, <3>1, CfgElsewhere
  <2> QED BY <2>1, <2>2 DEF CfgInv, CfgExact
<1>4. SearchInv'
  <2>1. Blocks' = Blocks /\ Frame' = Frame
    BY <1>1, SameBlocks DEF Frame
  <2> QED BY <1>1, <2>1 DEF IInv, SearchInv
<1>5. (Chain /\ Followed /\ Finished /\ Entry)'
  <2>1. /\ Blocks' = Blocks /\ \A id : tos_find_block_index(id)' = tos_find_block_index(id)
        /\ \A b, c : Leads(b, c)' <=> Leads(b, c)
        /\ \A b : Reach(b)' = Reach(b)
    BY <1>1, SameBlocks, SameGraph
  <2>2. \A i, c : Leads(postorder[i], c)' <=> Leads(postorder[i], c)
    BY <1>1 DEF Leads, tos_find_block_index, Blocks
  <2>3. \A i : Reach(dfs[i].block)' = Reach(dfs[i].block)
    BY <1>1, <2>1 DEF Reach
  <2>4. \A i, j : tos_find_block_index(succs[dfs[i].block][j])' = tos_find_block_index(succs[dfs[i].block][j])
    BY <1>1 DEF tos_find_block_index, Blocks
  <2>5. Chain'
    BY <1>1, <2>3 DEF IInv, Chain
  <2>6. Followed'
    BY <1>1, <2>1, <2>4 DEF IInv, Followed
  <2>7. Finished'
    BY <1>1, <2>1, <2>2 DEF IInv, Finished
  <2>8. Entry'
    BY <1>1, <2>1, <2>2 DEF IInv, Entry
  <2> QED BY <2>5, <2>6, <2>7, <2>8
<1>6. StreamInv'
  <2> DEFINE plain == [b \in Blocks |-> b]
  <2>1. plain' = plain /\ LayoutOrder' = LayoutOrder
    BY <1>1 DEF Blocks, LayoutOrder
  <2>2. ASSUME NEW o, Laid(o) PROVE Laid(o)'
    BY <1>1, <2>2, SameLaid
  <2>3. Laid(plain) => Laid(plain)'
    <3> HIDE DEF plain
    <3>1. PICK o : o = plain
      OBVIOUS
    <3> QED BY <2>1, <2>2, <3>1 DEF Laid
  <2>4. Laid(LayoutOrder) => Laid(LayoutOrder)'
    <3>1. PICK o : o = LayoutOrder
      OBVIOUS
    <3> QED BY <2>1, <2>2, <3>1 DEF Laid
  <2> QED BY <1>1, <2>3, <2>4 DEF IInv, StreamInv
<1> QED BY <1>2, <1>3, <1>4, <1>5, <1>6 DEF IInv

LEMMA NextIInv == IInv /\ [Next]_vars => IInv'
<1> SUFFICES ASSUME IInv, [Next]_vars PROVE IInv'
  OBVIOUS
<1>1. CASE Caller
  BY <1>1, ComputeStep, InsertStep, LowerStep DEF Caller
<1>2. CASE CfgBlock
  BY <1>2, CfgBlockStep
<1>3. CASE VisitRoot \/ VisitSuccessor \/ VisitDone
  BY <1>3, RootStep, SuccessorStep, DoneStep
<1>4. CASE Rebuild
  BY <1>4, RebuildStep
<1>5. CASE UNCHANGED vars
  BY <1>5, StutterStep
<1> QED BY <1>1, <1>2, <1>3, <1>4, <1>5 DEF Next

LEMMA InvIInv == Spec => []IInv
BY InitIInv, NextIInv, PTL DEF Spec

\* Every state of the layout is well typed: edges are ids of blocks, and the
\* blocks that visit_block has marked are the ones on its stack and in the
\* postorder, each once.
THEOREM TypeCorrect == Spec => []TypeOK
<1>1. IInv => TypeOK
  <2> SUFFICES ASSUME IInv PROVE TypeOK
    OBVIOUS
  <2>1. ProgramInv /\ CfgType /\ SearchInv
    BY DEF IInv
  <2>2. Ids = {c.id : c \in Range(blocks)} /\ Fns = {c.fn : c \in Range(blocks)}
    BY DEF Ids, Fns, Blocks, Range
  <2>3. ASSUME NEW b \in Blocks
        PROVE  Range(succs[b]) \cup Range(preds[b]) \subseteq Ids /\ blocks[b].n \in Nat
    <3>1. succs[b] \in Seq(Ids) /\ preds[b] \in Seq(Ids)
      BY <2>1 DEF CfgType
    <3>2. \A s \in Seq(Ids) : Range(s) \subseteq Ids
      BY DEF Range
    <3> QED BY <2>1, <3>1, <3>2, BlockFacts
  <2>4. ASSUME NEW i \in DOMAIN dfs PROVE dfs[i].next \in 1..(Len(succs[dfs[i].block]) + 1)
    <3>1. dfs[i] \in Frame
      BY <2>1 DEF SearchInv
    <3>2. dfs[i].block \in Blocks /\ dfs[i].next \in Nat \ {0}
      BY <3>1 DEF Frame
    <3>3. succs[dfs[i].block] \in Seq(Ids)
      BY <2>1, <3>2 DEF CfgType
    <3>4. Len(succs[dfs[i].block]) \in Nat
      BY <3>3
    <3>5. dfs[i].next <= Len(succs[dfs[i].block]) + 1
      BY <2>1 DEF SearchInv
    <3> QED BY <3>2, <3>4, <3>5
  <2>5. seen = Range(postorder) \cup {f.block : f \in Range(dfs)}
    <3>1. {dfs[i].block : i \in DOMAIN dfs} = {f.block : f \in Range(dfs)}
      BY DEF Range
    <3>2. {postorder[i] : i \in DOMAIN postorder} = Range(postorder)
      BY DEF Range
    <3> QED BY <2>1, <3>1, <3>2 DEF SearchInv
  <2>6. seen \subseteq Blocks
    <3>1. \A i \in DOMAIN postorder : postorder[i] \in Blocks
      BY <2>1 DEF SearchInv
    <3>2. \A i \in DOMAIN dfs : dfs[i] \in Frame
      BY <2>1 DEF SearchInv
    <3>3. \A i \in DOMAIN dfs : dfs[i].block \in Blocks
      BY <3>2 DEF Frame
    <3> QED BY <2>1, <3>1, <3>3 DEF SearchInv
  <2>7. Cardinality(seen) = Len(postorder) + Len(dfs)
    BY <2>1 DEF SearchInv
  <2>8. fresh \subseteq Fns /\ cursor \in {0} \cup Blocks /\ edits \in 0..MaxEdits /\ phase \in {"mal", "layout", "done"}
    BY <2>1 DEF CfgType
  <2> QED BY <2>2, <2>3, <2>4, <2>5, <2>6, <2>7, <2>8 DEF TypeOK
<1> QED BY <1>1, InvIInv, PTL

\* For every sequence of edits and calls of mal_compute_cfg, the successors
\* listed after a call are the edges of the function as it is then, each
\* predecessor listed is such an edge, and none is listed too often.
THEOREM PredsAreSound == Spec => []PredsSound
<1>1. IInv => PredsSound
  <2> SUFFICES ASSUME IInv, cursor = 0, NEW b \in Blocks, blocks[b].fn \in fresh
               PROVE  /\ succs[b] = SuccsAfter(b)
                      /\ \A p \in FunctionOf(b) :
                           /\ Count(preds[b], blocks[p].id) <= Count(EdgesOf(p), b)
                           /\ p >= b => Count(preds[b], blocks[p].id) = Count(EdgesOf(p), b)
                      /\ \A j \in DOMAIN preds[b] :
                           \E p \in FunctionOf(b) : blocks[p].id = preds[b][j]
    BY DEF PredsSound
  <2>1. CfgInv /\ CfgType /\ ProgramInv
    BY DEF IInv
  <2>2. \A p \in FunctionOf(b) : Computed(p)
    BY DEF Computed, FunctionOf
  <2>3. Computed(b)
    BY DEF Computed
  <2>4. /\ succs[b] = SuccsAfter(b)
        /\ \A p \in FunctionOf(b) : p >= b => Count(preds[b], blocks[p].id) = Count(EdgesOf(p), b)
        /\ \A j \in DOMAIN preds[b] : \E p \in FunctionOf(b) : p >= b /\ blocks[p].id = preds[b][j]
    BY <2>1, <2>2, <2>3 DEF CfgInv
  <2>5. ASSUME NEW p \in FunctionOf(b)
        PROVE  Count(preds[b], blocks[p].id) <= Count(EdgesOf(p), b)
    <3>1. p \in Blocks /\ p \in Nat /\ b \in Nat /\ blocks[p].fn = blocks[b].fn
      BY <2>1, BlockFacts DEF FunctionOf
    <3>2. Count(EdgesOf(p), b) \in Nat
      BY <2>1, <3>1, EdgesType, CountType
    <3>3. CASE p >= b
      BY <2>4, <3>2, <3>3
    <3>4. CASE ~(p >= b)
      <4>1. ASSUME NEW j \in DOMAIN preds[b] PROVE preds[b][j] # blocks[p].id
        <5>1. PICK q \in FunctionOf(b) : q >= b /\ blocks[q].id = preds[b][j]
          BY <2>4
        <5>2. q \in Blocks /\ blocks[q].fn = blocks[p].fn /\ q # p
          BY <3>1, <3>4, <5>1 DEF FunctionOf
        <5> QED BY <2>1, <3>1, <5>1, <5>2 DEF ProgramInv
      <4>2. Count(preds[b], blocks[p].id) = 0
        BY <4>1, CountZero
      <4> QED BY <3>2, <4>2
    <3> QED BY <3>3, <3>4
  <2> QED BY <2>4, <2>5
<1> QED BY <1>1, InvIInv, PTL

\* Where the blocks are in the final layout: the postorder backwards.
LEMMA Positions ==
  ASSUME IInv, phase = "done"
  PROVE  /\ Laid(LayoutOrder) /\ LayoutOrder \in Seq(Blocks)
         /\ Len(postorder) = Len(blocks) /\ Len(layout) = Len(blocks) /\ Len(blocks) \in Nat
         /\ DOMAIN layout = 1..Len(blocks) /\ DOMAIN postorder = 1..Len(blocks)
         /\ DOMAIN LayoutOrder = 1..Len(blocks)
         /\ \A i \in 1..Len(blocks) : /\ postorder[i] \in Blocks
                                      /\ Position(postorder[i]) = (Len(blocks) - i) + 1
                                      /\ layout[(Len(blocks) - i) + 1].block = postorder[i]
         /\ \A b \in Blocks : \E i \in 1..Len(blocks) : postorder[i] = b
<1> DEFINE N == Len(blocks)
<1>1. ProgramInv /\ SearchInv /\ StreamInv
  BY DEF IInv
<1>2. Laid(LayoutOrder)
  BY <1>1 DEF StreamInv
<1>3. Blocks = 1..N /\ N \in Nat
  BY <1>1, BlockFacts
<1>4. dfs = <<>> /\ seen = Blocks /\ postorder \in Seq(Blocks) /\ Cardinality(seen) = Len(postorder) + Len(dfs)
  BY <1>1 DEF SearchInv
<1>5. Len(postorder) = N
  <2>1. Cardinality(1..N) = N
    <3>1. 1 \in Int /\ N \in Int
      BY <1>3
    <3>2. Cardinality(1..N) = IF 1 > N THEN 0 ELSE N - 1 + 1
      BY <3>1, FS_Interval
    <3> QED BY <1>3, <3>2
  <2>2. Len(dfs) = 0 /\ Len(postorder) \in Nat
    BY <1>4
  <2> QED BY <1>3, <1>4, <2>1, <2>2
<1>6. /\ LayoutOrder \in Seq(Blocks) /\ DOMAIN LayoutOrder = 1..N /\ DOMAIN postorder = 1..N
      /\ \A i \in 1..N : LayoutOrder[i] = postorder[(N - i) + 1]
      /\ Len(LayoutOrder) = N
  BY <1>1, <1>5, ReverseFacts
<1>7. DOMAIN layout = 1..N /\ Len(layout) = N /\ \A i \in 1..N : layout[i].block = postorder[(N - i) + 1]
  BY <1>1, <1>2, <1>6, LayoutFacts
<1>8. \A i, j \in 1..N : postorder[i] = postorder[j] => i = j
  BY <1>1, <1>6 DEF SearchInv
<1>9. \A b \in Blocks : \E i \in 1..N : postorder[i] = b
  <2>1. {dfs[i].block : i \in DOMAIN dfs} = {}
    BY <1>4
  <2>2. Blocks = {postorder[i] : i \in DOMAIN postorder}
    BY <1>1, <1>4, <2>1 DEF SearchInv
  <2> QED BY <1>6, <2>2
<1>10. ASSUME NEW i \in 1..N
       PROVE  /\ postorder[i] \in Blocks /\ layout[(N - i) + 1].block = postorder[i]
              /\ Position(postorder[i]) = (N - i) + 1
  <2>1. (N - i) + 1 \in 1..N /\ (N - ((N - i) + 1)) + 1 = i
    BY <1>3
  <2>2. layout[(N - i) + 1].block = postorder[i]
    BY <1>7, <2>1
  <2>3. ASSUME NEW h \in DOMAIN layout, layout[h].block = postorder[i] PROVE h = (N - i) + 1
    <3>1. h \in 1..N /\ (N - h) + 1 \in 1..N
      BY <1>3, <1>7
    <3>2. (N - h) + 1 = i
      BY <1>7, <1>8, <2>3, <3>1
    <3> QED BY <1>3, <3>1, <3>2
  <2>4. (N - i) + 1 \in DOMAIN layout
    BY <1>7, <2>1
  <2> HIDE DEF N
  <2>5. Position(postorder[i]) = (N - i) + 1
    BY <2>2, <2>3, <2>4 DEF Position
  <2>6. postorder[i] \in Blocks
    BY <1>4, <1>6
  <2> QED BY <2>2, <2>5, <2>6
<1> QED BY <1>2, <1>3, <1>5, <1>6, <1>7, <1>9, <1>10

\* In every layout, the one tosBuildFromMDS makes and the final one, the blocks
\* and the instructions are where tosValidateProgram wants them, and the final
\* one has every instruction of every block once, in its order.
THEOREM LayoutIsComplete == Spec => []LayoutComplete
<1>1. ASSUME IInv, phase # "mal" PROVE tosValidateProgram
  <2>1. ProgramInv /\ CfgType /\ SearchInv /\ StreamInv
    BY <1>1 DEF IInv
  <2>2. CASE phase = "layout"
    <3> DEFINE plain == [b \in Blocks |-> b]
    <3>1. plain \in Seq(Blocks)
      BY <2>1, Identity
    <3>2. Laid(plain)
      BY <2>1, <2>2 DEF StreamInv
    <3> HIDE DEF plain
    <3> QED BY <2>1, <3>1, <3>2, LaidValid
  <2>3. CASE phase = "done"
    BY <1>1, <2>1, <2>3, Positions, LaidValid
  <2> QED BY <1>1, <2>1, <2>2, <2>3 DEF CfgType
<1>2. ASSUME IInv, phase = "done"
      PROVE  Len(layout) = Len(blocks) /\ {d.block : d \in Range(layout)} = Blocks
  <2>1. Len(layout) = Len(blocks) /\ Len(blocks) \in Nat /\ DOMAIN layout = 1..Len(blocks)
    BY <1>2, Positions
  <2>2. \A i \in 1..Len(blocks) : postorder[i] \in Blocks /\ layout[(Len(blocks) - i) + 1].block = postorder[i]
    BY <1>2, Positions
  <2>3. ASSUME NEW b \in Blocks PROVE \E d \in Range(layout) : d.block = b
    <3>1. PICK i \in 1..Len(blocks) : postorder[i] = b
      BY <1>2, Positions
    <3>2. (Len(blocks) - i) + 1 \in DOMAIN layout
      BY <2>1
    <3> QED BY <2>2, <3>1, <3>2 DEF Range
  <2>4. ASSUME NEW d \in Range(layout) PROVE d.block \in Blocks
    <3>1. PICK h \in DOMAIN layout : d = layout[h]
      BY <2>4 DEF Range
    <3>2. (Len(blocks) - h) + 1 \in 1..Len(blocks) /\ (Len(blocks) - ((Len(blocks) - h) + 1)) + 1 = h
      BY <2>1
    <3> QED BY <2>2, <3>1, <3>2
  <2> QED BY <2>1, <2>3, <2>4
<1>3. ASSUME IInv, phase = "done", NEW b \in Blocks
      PROVE  LET first == layout[Position(b)].first IN
             /\ {k \in DOMAIN stream : stream[k].block = b} = (first + 1)..(first + blocks[b].n)
             /\ \A j \in 1..blocks[b].n : stream[first + j].order = j - 1
  <2> DEFINE N == Len(blocks)
             n == blocks[b].n
             B(h) == Before(Sizes(LayoutOrder), h)
             Of(h) == Sizes(LayoutOrder)[h]
             p == Position(b)
             first == layout[p].first
  <2>1. ProgramInv
    BY <1>3 DEF IInv
  <2>2. /\ Laid(LayoutOrder) /\ LayoutOrder \in Seq(Blocks) /\ N \in Nat
        /\ DOMAIN LayoutOrder = 1..N /\ DOMAIN layout = 1..N
    BY <1>3, Positions
  <2>3. PICK i \in 1..N : postorder[i] = b
    BY <1>3, Positions
  <2>4. p = (N - i) + 1 /\ layout[p].block = b /\ p \in 1..N
    BY <1>3, <2>2, <2>3, Positions
  <2>5. \A h \in 1..N : Position(layout[h].block) = h
    <3> SUFFICES ASSUME NEW h \in 1..N PROVE Position(layout[h].block) = h
      OBVIOUS
    <3>1. (N - h) + 1 \in 1..N /\ (N - ((N - h) + 1)) + 1 = h
      BY <2>2
    <3> QED BY <1>3, <3>1, Positions
  <2>6. \A h \in 1..N : /\ layout[h].block = LayoutOrder[h]
                        /\ layout[h].first = IF Of(h) = 0 THEN TOS_INVALID_INSTR ELSE B(h)
    <3>1. \A h \in DOMAIN LayoutOrder :
            /\ layout[h].block = LayoutOrder[h]
            /\ layout[h].first = IF Sizes(LayoutOrder)[h] = 0 THEN TOS_INVALID_INSTR
                                 ELSE Before(Sizes(LayoutOrder), h)
      BY <2>1, <2>2, LayoutFacts
    <3> QED BY <2>2, <3>1
  <2>7. \A h \in 1..N : LayoutOrder[h] \in Blocks /\ Of(h) = blocks[LayoutOrder[h]].n /\ Of(h) \in Nat
    BY <2>1, <2>2, SizesType
  <2>8. \A h \in 1..N : B(h) \in Nat
    <3>1. Sizes(LayoutOrder) \in Seq(Nat) /\ Len(Sizes(LayoutOrder)) = N
      BY <2>1, <2>2, SizesType
    <3>2. \A h \in 1..(N + 1) : B(h) \in Nat
      BY <3>1, BeforeStep
    <3> QED BY <2>2, <3>2
  <2>9. \A h \in 1..N : \A j \in 1..Of(h) :
          /\ B(h) + j \in DOMAIN stream
          /\ stream[B(h) + j].block = LayoutOrder[h] /\ stream[B(h) + j].order = j - 1
    <3> SUFFICES ASSUME NEW h \in DOMAIN LayoutOrder, NEW j \in 1..Sizes(LayoutOrder)[h]
                 PROVE  LET k == Before(Sizes(LayoutOrder), h) + j
                        IN k \in DOMAIN stream /\ stream[k].block = LayoutOrder[h] /\ stream[k].order = j - 1
      BY <2>2
    <3>1. /\ Before(Sizes(LayoutOrder), h) + j \in DOMAIN stream
          /\ stream[Before(Sizes(LayoutOrder), h) + j] =
               [block |-> LayoutOrder[h], blockId |-> blocks[LayoutOrder[h]].id, order |-> j - 1,
                id |-> (Before(Sizes(LayoutOrder), h) + j) - 1]
      BY <2>1, <2>2, LaidFacts
    <3> QED BY <3>1
  <2>10. ASSUME NEW k \in DOMAIN stream PROVE \E h \in 1..N : \E j \in 1..Of(h) : k = B(h) + j
    <3>1. k \in 1..Before(Sizes(LayoutOrder), Len(LayoutOrder) + 1)
      BY <2>1, <2>2, LaidFacts
    <3> QED BY <2>1, <2>2, <3>1, Covered
  <2> HIDE DEF B, Of, p, N, n
  <2>11. n = Of(p) /\ n \in Nat /\ LayoutOrder[p] = b
    BY <2>4, <2>6, <2>7 DEF n
  <2>12. {k \in DOMAIN stream : stream[k].block = b} = (B(p) + 1)..(B(p) + n)
    <3>1. ASSUME NEW k \in DOMAIN stream, stream[k].block = b PROVE k \in (B(p) + 1)..(B(p) + n)
      <4>1. PICK h \in 1..N : \E j \in 1..Of(h) : k = B(h) + j
        BY <2>10
      <4>2. PICK j \in 1..Of(h) : k = B(h) + j
        BY <4>1
      <4>3. h = p
        BY <2>4, <2>5, <2>6, <2>9, <3>1, <4>2 DEF p
      <4> QED BY <2>4, <2>8, <2>11, <4>2, <4>3
    <3>2. ASSUME NEW k \in (B(p) + 1)..(B(p) + n) PROVE k \in DOMAIN stream /\ stream[k].block = b
      <4>1. k - B(p) \in 1..Of(p) /\ B(p) + (k - B(p)) = k
        BY <2>4, <2>8, <2>11
      <4> QED BY <2>4, <2>9, <2>11, <4>1
    <3> QED BY <3>1, <3>2
  <2>13. CASE n = 0
    <3>1. first = -1
      BY <2>4, <2>6, <2>11, <2>13 DEF TOS_INVALID_INSTR
    <3>2. (first + 1)..(first + n) = {} /\ (B(p) + 1)..(B(p) + n) = {} /\ 1..n = {}
      BY <2>4, <2>8, <2>13, <3>1
    <3> QED BY <2>12, <3>2 DEF p, n
  <2>14. CASE n # 0
    <3>1. first = B(p)
      BY <2>4, <2>6, <2>11, <2>14
    <3>2. \A j \in 1..n : stream[first + j].order = j - 1
      BY <2>4, <2>9, <2>11, <3>1
    <3> QED BY <2>12, <3>1, <3>2 DEF p, n
  <2> QED BY <2>13, <2>14
<1>4. IInv => LayoutComplete
  BY <1>1, <1>2, <1>3 DEF LayoutComplete
<1> QED BY <1>4, InvIInv, PTL

\* The final layout is a reverse postorder of the graph the search followed, and
\* begins with the entry block when every block can be reached from it.
THEOREM SuccessorsFollowed == Spec => []SuccessorsFollow
<1>1. ASSUME IInv, phase = "done", NEW b \in Blocks, NEW c \in Blocks, Leads(b, c), b \notin Reach(c)
      PROVE  Position(b) < Position(c)
  <2>1. PICK i \in 1..Len(blocks) : postorder[i] = b
    BY <1>1, Positions
  <2>2. DOMAIN postorder = 1..Len(blocks) /\ Len(blocks) \in Nat
    BY <1>1, Positions
  <2>3. PICK k \in DOMAIN postorder : k < i /\ postorder[k] = c
    BY <1>1, <2>1, <2>2 DEF IInv, Finished
  <2>4. Position(b) = (Len(blocks) - i) + 1 /\ Position(c) = (Len(blocks) - k) + 1
    BY <1>1, <2>1, <2>2, <2>3, Positions
  <2> QED BY <2>2, <2>3, <2>4
<1>2. ASSUME IInv, phase = "done", 1 \in Blocks, Reach(1) = Blocks
      PROVE  Position(1) = 1
  <2> DEFINE N == Len(blocks)
  <2>1. /\ DOMAIN postorder = 1..N /\ N \in Nat
        /\ \A i \in 1..N : postorder[i] \in Blocks /\ Position(postorder[i]) = (N - i) + 1
        /\ \A b \in Blocks : \E i \in 1..N : postorder[i] = b
    BY <1>2, Positions
  <2>2. SearchInv /\ Entry /\ ProgramInv
    BY <1>2 DEF IInv
  <2>3. seen = Blocks /\ dfs = <<>> /\ \A i, j \in 1..N : postorder[i] = postorder[j] => i = j
    BY <1>2, <2>1, <2>2 DEF SearchInv
  <2>4. PICK i \in DOMAIN postorder :
          /\ postorder[i] = 1
          /\ \A j \in 1..i, c \in Blocks : Leads(postorder[j], c) => \E k \in 1..i : postorder[k] = c
    BY <1>2, <2>2, <2>3 DEF Entry
  <2> DEFINE S == {postorder[j] : j \in 1..i}
  <2>5. i \in 1..N /\ 1..i \subseteq 1..N
    BY <2>1, <2>4
  <2>6. S \subseteq Blocks /\ 1 \in S
    BY <2>1, <2>4, <2>5
  <2>7. \A a \in S, c \in Blocks : Leads(a, c) => c \in S
    BY <2>4
  <2>8. Reach(1) \subseteq S
    <3> HIDE DEF S
    <3>1. S \in SUBSET Blocks
      BY <2>6
    <3> QED BY <2>6, <2>7, <3>1 DEF Reach
  <2>9. i = N
    <3>1. N \in 1..N
      BY <2>1, <2>5
    <3>2. postorder[N] \in S
      BY <1>2, <2>1, <2>8, <3>1
    <3>3. PICK j \in 1..i : postorder[N] = postorder[j]
      BY <3>2
    <3>4. N = j
      BY <2>3, <2>5, <3>1, <3>3
    <3> QED BY <2>5, <3>3, <3>4
  <2> QED BY <2>1, <2>4, <2>5, <2>9
<1>3. IInv => SuccessorsFollow
  BY <1>1, <1>2 DEF SuccessorsFollow
<1> QED BY <1>3, InvIInv, PTL
=============================================================================
