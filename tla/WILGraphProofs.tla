--------------------------- MODULE WILGraphProofs ---------------------------
(***************************************************************************)
(* Proofs about WILGraph, for every number of nodes and slots.             *)
(***************************************************************************)
EXTENDS WILGraph, FiniteSetTheorems, SequenceTheorems, WellFoundedInduction, TLAPS

-----------------------------------------------------------------------------
(* Counting the slots that hold a node.                                    *)

\* The slots of a node that hold n form a finite set, so Occ is a number.
LEMMA OccType ==
  ASSUME NEW s \in Slots, NEW n
  PROVE  /\ IsFiniteSet(SlotsOf(s, n))
         /\ Occ(s, n) \in 0..Len(s)
<1>1. SlotsOf(s, n) \in SUBSET (1..Len(s)) /\ Len(s) \in Nat
  BY DEF SlotsOf, Slots
<1>2. IsFiniteSet(1..Len(s)) /\ Cardinality(1..Len(s)) = Len(s)
  <2>1. Cardinality(1..Len(s)) = IF 1 > Len(s) THEN 0 ELSE Len(s) - 1 + 1
    BY <1>1, FS_Interval
  <2>2. IsFiniteSet(1..Len(s))
    BY <1>1, FS_Interval
  <2> QED BY <1>1, <2>1, <2>2
<1>3. IsFiniteSet(SlotsOf(s, n)) /\ Cardinality(SlotsOf(s, n)) <= Len(s)
  BY <1>1, <1>2, FS_Subset
<1>4. Cardinality(SlotsOf(s, n)) \in Nat
  BY <1>3, FS_CardinalityType
<1> QED BY <1>1, <1>3, <1>4 DEF Occ

\* A node without inputs holds nothing.
LEMMA OccEmpty == \A n : Occ(<<>>, n) = 0
<1> SUFFICES ASSUME NEW n PROVE Occ(<<>>, n) = 0
  OBVIOUS
<1>1. SlotsOf(<<>>, n) = {}
  BY DEF SlotsOf
<1> QED BY <1>1, FS_EmptySet DEF Occ

\* A node with no slot for n counts zero, and conversely.
LEMMA OccZero ==
  ASSUME NEW s \in Slots, NEW n
  PROVE  Occ(s, n) = 0 <=> \A i \in DOMAIN s : s[i] # n
<1>1. IsFiniteSet(SlotsOf(s, n))
  BY OccType
<1>2. Occ(s, n) = 0 <=> SlotsOf(s, n) = {}
  BY <1>1, FS_EmptySet DEF Occ
<1> QED BY <1>2 DEF SlotsOf

\* Appending a slot adds one occurrence of what it holds.
LEMMA OccAppend ==
  ASSUME NEW s \in Slots, NEW m \in NodeId \cup {NoNode}, NEW n
  PROVE  /\ Append(s, m) \in Slots
         /\ Occ(Append(s, m), n) = Occ(s, n) + (IF m = n THEN 1 ELSE 0)
<1>1. Append(s, m) \in Slots /\ Len(s) \in Nat
  BY DEF Slots
<1>2. IsFiniteSet(SlotsOf(s, n)) /\ Occ(s, n) \in Nat
  BY OccType
<1>3. CASE m = n
  <2>1. SlotsOf(Append(s, m), n) = SlotsOf(s, n) \cup {Len(s) + 1}
    BY <1>1, <1>3 DEF SlotsOf, Slots
  <2>2. Len(s) + 1 \notin SlotsOf(s, n)
    BY <1>1 DEF SlotsOf, Slots
  <2> QED BY <1>1, <1>2, <1>3, <2>1, <2>2, FS_AddElement DEF Occ
<1>4. CASE m # n
  <2>1. SlotsOf(Append(s, m), n) = SlotsOf(s, n)
    BY <1>1, <1>4 DEF SlotsOf, Slots
  <2> QED BY <1>1, <1>2, <1>4, <2>1 DEF Occ
<1> QED BY <1>3, <1>4

\* Overwriting a slot moves one occurrence.
LEMMA OccExcept ==
  ASSUME NEW s \in Slots, NEW i \in DOMAIN s, NEW m \in NodeId \cup {NoNode},
         NEW n
  PROVE  /\ [s EXCEPT ![i] = m] \in Slots
         /\ Occ([s EXCEPT ![i] = m], n)
              = Occ(s, n) - (IF s[i] = n THEN 1 ELSE 0) + (IF m = n THEN 1 ELSE 0)
<1> DEFINE t == [s EXCEPT ![i] = m]
<1>1. t \in Slots /\ DOMAIN t = DOMAIN s
  BY DEF Slots
<1>2. IsFiniteSet(SlotsOf(s, n)) /\ Occ(s, n) \in Nat
  BY OccType
<1> DEFINE base == SlotsOf(s, n) \ {i}
<1>3. /\ IsFiniteSet(base)
      /\ Cardinality(base) = Occ(s, n) - (IF s[i] = n THEN 1 ELSE 0)
  <2>1. i \in SlotsOf(s, n) <=> s[i] = n
    BY DEF SlotsOf
  <2> QED BY <1>2, <2>1, FS_RemoveElement DEF Occ
<1>4. CASE m = n
  <2>1. SlotsOf(t, n) = base \cup {i}
    BY <1>1, <1>4 DEF SlotsOf, Slots
  <2>2. Occ(t, n) = Cardinality(base) + 1
    BY <1>3, <2>1, FS_AddElement DEF Occ
  <2> QED BY <1>1, <1>2, <1>3, <1>4, <2>2
<1>5. CASE m # n
  <2>1. SlotsOf(t, n) = base
    BY <1>1, <1>5 DEF SlotsOf, Slots
  <2>2. Occ(t, n) = Cardinality(base)
    BY <2>1 DEF Occ
  <2> QED BY <1>1, <1>2, <1>3, <1>5, <2>2
<1> QED BY <1>4, <1>5

\* Deleting a slot (memmove of the rest) loses one occurrence of what it held.
LEMMA OccDropAt ==
  ASSUME NEW s \in Slots, NEW i \in DOMAIN s, NEW n
  PROVE  /\ DropAt(s, i) \in Slots
         /\ Occ(DropAt(s, i), n) = Occ(s, n) - (IF s[i] = n THEN 1 ELSE 0)
<1> DEFINE t == DropAt(s, i)
           base == SlotsOf(s, n) \ {i}
           f == [j \in SlotsOf(t, n) |-> IF j < i THEN j ELSE j + 1]
<1>1. Len(s) \in Nat /\ Len(s) > 0 /\ i \in 1..Len(s) /\ DOMAIN s = 1..Len(s)
  BY DEF Slots
<1>2. t \in Slots /\ DOMAIN t = 1..(Len(s) - 1)
  <2>1. \A j \in 1..(Len(s) - 1) : t[j] \in NodeId \cup {NoNode}
    BY <1>1 DEF DropAt, Slots
  <2>2. t = [j \in 1..(Len(s) - 1) |-> t[j]] /\ Len(s) - 1 \in Nat
    BY <1>1 DEF DropAt
  <2> QED BY <2>1, <2>2 DEF Slots
<1>3. IsFiniteSet(SlotsOf(s, n)) /\ Occ(s, n) \in Nat
  BY OccType
<1>4. IsFiniteSet(base)
      /\ Cardinality(base) = Occ(s, n) - (IF s[i] = n THEN 1 ELSE 0)
  <2>1. i \in SlotsOf(s, n) <=> s[i] = n
    BY DEF SlotsOf
  <2> QED BY <1>3, <2>1, FS_RemoveElement DEF Occ
<1>5. f \in Bijection(SlotsOf(t, n), base)
  <2>1. f \in [SlotsOf(t, n) -> base]
    BY <1>1, <1>2 DEF SlotsOf, DropAt
  <2>2. \A a, b \in SlotsOf(t, n) : f[a] = f[b] => a = b
    BY <1>1, <1>2 DEF SlotsOf
  <2>3. \A k \in base : \E j \in SlotsOf(t, n) : f[j] = k
    <3> SUFFICES ASSUME NEW k \in base
                 PROVE  \E j \in SlotsOf(t, n) : f[j] = k
      OBVIOUS
    <3>1. CASE k < i
      BY <1>1, <1>2, <3>1 DEF SlotsOf, DropAt
    <3>2. CASE k > i
      <4>1. k - 1 \in SlotsOf(t, n)
        BY <1>1, <1>2, <3>2 DEF SlotsOf, DropAt
      <4> QED BY <1>1, <1>2, <3>2, <4>1 DEF SlotsOf
    <3> QED BY <1>1, <3>1, <3>2 DEF SlotsOf
  <2> QED BY <2>1, <2>2, <2>3 DEF Bijection, Injection, Surjection, IsInjective
<1>6. IsFiniteSet(SlotsOf(t, n))
  BY <1>2, OccType
<1>7. Cardinality(base) = Cardinality(SlotsOf(t, n))
  BY <1>5, <1>6, FS_Bijection DEF ExistsBijection
<1> QED BY <1>2, <1>4, <1>7 DEF Occ

\* Substituting new for old moves all occurrences of old to new.
LEMMA OccSubst ==
  ASSUME NEW s \in Slots, NEW old, NEW new \in NodeId, old # new, NEW n
  PROVE  /\ Subst(s, old, new) \in Slots
         /\ Occ(Subst(s, old, new), n)
              = IF n = old THEN 0
                ELSE IF n = new THEN Occ(s, new) + Occ(s, old)
                ELSE Occ(s, n)
<1> DEFINE t == Subst(s, old, new)
<1>1. t \in Slots /\ DOMAIN t = DOMAIN s
  BY DEF Slots, Subst
<1>2. CASE n = old
  <2>1. SlotsOf(t, n) = {}
    BY <1>1, <1>2 DEF SlotsOf, Subst
  <2> QED BY <1>1, <1>2, <2>1, FS_EmptySet DEF Occ
<1>3. CASE n = new
  <2>1. SlotsOf(t, n) = SlotsOf(s, new) \cup SlotsOf(s, old)
    BY <1>1, <1>3 DEF SlotsOf, Subst
  <2>2. SlotsOf(s, new) \cap SlotsOf(s, old) = {}
    BY DEF SlotsOf
  <2>3. IsFiniteSet(SlotsOf(s, new)) /\ IsFiniteSet(SlotsOf(s, old))
    BY OccType
  <2>4. Occ(s, new) \in Nat /\ Occ(s, old) \in Nat
    BY OccType
  <2>5. Cardinality(SlotsOf(s, new) \cup SlotsOf(s, old))
          = Cardinality(SlotsOf(s, new)) + Cardinality(SlotsOf(s, old)) - 0
    BY <2>2, <2>3, FS_Union, FS_EmptySet
  <2> QED BY <1>1, <1>3, <2>1, <2>4, <2>5 DEF Occ
<1>4. CASE n # old /\ n # new
  <2>1. SlotsOf(t, n) = SlotsOf(s, n)
    BY <1>1, <1>4 DEF SlotsOf, Subst
  <2> QED BY <1>1, <1>4, <2>1 DEF Occ
<1> QED BY <1>2, <1>3, <1>4

-----------------------------------------------------------------------------
(* The inductive invariant.                                                *)

\* The use count of n for u is bounded by, and without allocation failures
\* equal to, the number of u's slots that hold n.
Tight(n, u) == /\ uses[n][u] <= Occ(inputs[u], n)
               /\ ~Oom => uses[n][u] = Occ(inputs[u], n)

\* Nodes not created yet have no slots: a new node starts with no stale uses.
UnbornEmpty == \A n \in NodeId : n > nodeCount => inputs[n] = <<>>

IInv == /\ TypeOK
        /\ \A n, u \in NodeId : Tight(n, u)
        /\ UnbornEmpty
        /\ RemovedIsolated
        /\ VerifyBlamesOnlyNulls
        /\ VerifyNeverPhantom

\* Live nodes are node ids.
LEMMA LiveIsNode == ASSUME TypeOK PROVE Live \subseteq NodeId
BY BoundsAssumption DEF TypeOK, Live, NodeId

\* The invariant holds in an empty context.
LEMMA InitIInv == Init => IInv
<1> SUFFICES ASSUME Init PROVE IInv
  OBVIOUS
<1>1. TypeOK
  BY BoundsAssumption DEF Init, TypeOK, Slots, NodeId
<1>2. \A n, u \in NodeId : Tight(n, u)
  BY OccEmpty DEF Init, Tight
<1> QED BY <1>1, <1>2 DEF Init, IInv, UnbornEmpty, RemovedIsolated,
          VerifyBlamesOnlyNulls, VerifyNeverPhantom

\* How many registrations take effect: at most k, all of them without failure.
LEMMA RegisterBound ==
  ASSUME NEW k \in Nat, NEW r \in wil_node_register_use(k)
  PROVE  r \in 0..k /\ (~Oom => r = k)
BY DEF wil_node_register_use

\* Creating a node with its operands.
LEMMA BuildTight ==
  ASSUME IInv, NEW ins \in Operands, wil_build_nary(ins)
  PROVE  TypeOK' /\ (\A n, u \in NodeId : Tight(n, u)')
<1> scenario' = scenario /\ Oom' = Oom
  BY DEF wil_build_nary, Oom
<1> DEFINE id == nodeCount + 1
<1>0. nodeCount < MaxNodes /\ nodeCount' = id /\ UNCHANGED <<removed, verifyError>>
  BY ScenariosAssumption, BoundsAssumption DEF wil_build_nary, IInv, TypeOK
<1>1. TypeOK /\ id \in NodeId /\ Live \subseteq NodeId
  BY <1>0, LiveIsNode, BoundsAssumption DEF IInv, TypeOK, NodeId
<1>2. ins \in Slots
  BY <1>1 DEF Operands, Slots
<1>3. PICK r \in [NodeId -> 0..Len(ins)] :
        /\ \A n \in NodeId : r[n] \in wil_node_register_use(Occ(ins, n))
        /\ uses' = [n \in NodeId |-> [uses[n] EXCEPT ![id] = @ + r[n]]]
  BY DEF wil_build_nary
<1>4. inputs' = [inputs EXCEPT ![id] = ins]
  BY DEF wil_build_nary
<1>5. TypeOK'
  <2>1. Len(ins) \in Nat
    BY <1>2 DEF Slots
  <2>2. uses' \in [NodeId -> [NodeId -> Nat]]
    BY <1>1, <1>3, <2>1 DEF TypeOK
  <2>3. inputs' \in [NodeId -> Slots]
    BY <1>1, <1>2, <1>4 DEF TypeOK
  <2> QED BY <1>0, <1>1, <2>2, <2>3, BoundsAssumption DEF TypeOK, NodeId
<1>6. ASSUME NEW n \in NodeId, NEW u \in NodeId
      PROVE  Tight(n, u)'
  <2>1. CASE u = id
    <3>1. inputs[id] = <<>>
      BY <1>1, BoundsAssumption DEF IInv, UnbornEmpty, TypeOK, NodeId
    <3>2. uses[n][id] = 0
      BY <1>1, <3>1, OccEmpty DEF IInv, Tight, TypeOK
    <3>3. uses'[n][id] = r[n] /\ inputs'[id] = ins
      BY <1>1, <1>3, <1>4, <3>2 DEF TypeOK
    <3>4. Occ(ins, n) \in Nat
      BY <1>2, OccType
    <3>5. r[n] \in 0..Occ(ins, n) /\ (~Oom => r[n] = Occ(ins, n))
      BY <1>3, <3>4, RegisterBound
    <3> QED BY <2>1, <3>3, <3>4, <3>5 DEF Tight
  <2>2. CASE u # id
    <3>1. uses'[n][u] = uses[n][u] /\ inputs'[u] = inputs[u]
      BY <1>1, <1>3, <1>4, <2>2 DEF TypeOK
    <3> QED BY <3>1 DEF IInv, Tight
  <2> QED BY <2>1, <2>2
<1> QED BY <1>5, <1>6

\* Appending an input slot.
LEMMA AddTight ==
  ASSUME IInv, NEW node \in Live, NEW input \in Live \cup {NoNode},
         wil_node_add_input(node, input)
  PROVE  TypeOK' /\ (\A n, u \in NodeId : Tight(n, u)')
<1> scenario' = scenario /\ Oom' = Oom
  BY DEF wil_node_add_input, Oom
<1>1. TypeOK /\ node \in NodeId /\ input \in NodeId \cup {NoNode}
  BY LiveIsNode DEF IInv
<1>2. inputs[node] \in Slots
  BY <1>1 DEF TypeOK
<1>3. PICK r \in wil_node_register_use(1) :
        uses' = IF input = NoNode THEN uses
                ELSE [uses EXCEPT ![input][node] = @ + r]
  BY DEF wil_node_add_input
<1>4. r \in 0..1 /\ (~Oom => r = 1)
  BY <1>3, RegisterBound
<1>5. inputs' = [inputs EXCEPT ![node] = Append(@, input)]
  BY DEF wil_node_add_input
<1>6. TypeOK'
  <2>1. uses' \in [NodeId -> [NodeId -> Nat]]
    BY <1>1, <1>3, <1>4 DEF TypeOK, NoNode
  <2>2. inputs' \in [NodeId -> Slots]
    BY <1>1, <1>2, <1>5, OccAppend DEF TypeOK
  <2> QED BY <1>1, <2>1, <2>2 DEF TypeOK, wil_node_add_input
<1>7. ASSUME NEW n \in NodeId, NEW u \in NodeId
      PROVE  Tight(n, u)'
  <2>1. n # NoNode
    BY BoundsAssumption DEF NodeId, NoNode
  <2>2. CASE u = node
    <3>1. Occ(inputs'[u], n) = Occ(inputs[u], n) + (IF input = n THEN 1 ELSE 0)
      BY <1>1, <1>2, <1>5, <2>2, OccAppend DEF TypeOK
    <3>2. uses'[n][u] = uses[n][u] + (IF input = n THEN r ELSE 0)
      BY <1>1, <1>3, <1>4, <2>1, <2>2 DEF TypeOK
    <3>3. Occ(inputs[u], n) \in Nat /\ uses[n][u] \in Nat
      BY <1>1, <1>2, <2>2, OccType DEF TypeOK
    <3> QED BY <1>4, <3>1, <3>2, <3>3 DEF IInv, Tight
  <2>3. CASE u # node
    <3>1. uses'[n][u] = uses[n][u] /\ inputs'[u] = inputs[u]
      BY <1>1, <1>3, <1>5, <2>3 DEF TypeOK
    <3> QED BY <3>1 DEF IInv, Tight
  <2> QED BY <2>2, <2>3
<1> QED BY <1>6, <1>7

\* Releasing one slot of node that holds old takes one use off, and never
\* more than there is.
LEMMA ReleasedUses ==
  ASSUME TypeOK, NEW node \in NodeId, NEW old \in NodeId \cup {NoNode},
         NEW n \in NodeId, NEW u \in NodeId
  PROVE  /\ Released(old, node) \in [NodeId -> [NodeId -> Nat]]
         /\ Released(old, node)[n][u]
              = IF n = old /\ u = node /\ uses[n][u] > 0
                THEN uses[n][u] - 1 ELSE uses[n][u]
<1>1. uses[n][u] \in Nat
  BY DEF TypeOK
<1>2. CASE old = NoNode
  BY <1>1, <1>2, BoundsAssumption DEF TypeOK, Released, NoNode, NodeId
<1>3. CASE old \in NodeId
  <2>1. old # NoNode /\ uses[old][node] \in Nat
    BY <1>3, BoundsAssumption DEF TypeOK, NoNode, NodeId
  <2> DEFINE left == wil_node_unregister_use(uses[old][node], 1)
  <2>2. left \in Nat /\ left = IF uses[old][node] > 0 THEN uses[old][node] - 1
                                ELSE uses[old][node]
    BY <2>1 DEF wil_node_unregister_use
  <2>3. Released(old, node) = [uses EXCEPT ![old][node] = left]
    BY <2>1 DEF Released
  <2> HIDE DEF left
  <2> QED BY <1>1, <1>3, <2>1, <2>2, <2>3 DEF TypeOK
<1> QED BY <1>2, <1>3

\* Deleting an input slot.
LEMMA RemoveInputTight ==
  ASSUME IInv, NEW node \in Live, NEW i \in DOMAIN inputs[node],
         wil_node_remove_input(node, i)
  PROVE  TypeOK' /\ (\A n, u \in NodeId : Tight(n, u)')
<1> scenario' = scenario /\ Oom' = Oom
  BY DEF wil_node_remove_input, Oom
<1> DEFINE old == inputs[node][i]
<1>1. TypeOK /\ node \in NodeId
  BY LiveIsNode DEF IInv
<1>2. inputs[node] \in Slots /\ old \in NodeId \cup {NoNode}
  BY <1>1 DEF TypeOK, Slots
<1>3. uses' = Released(old, node) /\ inputs' = [inputs EXCEPT ![node] = DropAt(@, i)]
  BY DEF wil_node_remove_input
<1>4. TypeOK'
  <2>1. uses' \in [NodeId -> [NodeId -> Nat]]
    BY <1>1, <1>2, <1>3, ReleasedUses
  <2>2. inputs' \in [NodeId -> Slots]
    BY <1>1, <1>2, <1>3, OccDropAt DEF TypeOK
  <2> QED BY <1>1, <2>1, <2>2 DEF TypeOK, wil_node_remove_input
<1>5. ASSUME NEW n \in NodeId, NEW u \in NodeId
      PROVE  Tight(n, u)'
  <2>1. uses'[n][u] = IF n = old /\ u = node /\ uses[n][u] > 0
                      THEN uses[n][u] - 1 ELSE uses[n][u]
    BY <1>1, <1>2, <1>3, ReleasedUses
  <2>2. CASE u = node
    <3>1. Occ(inputs'[u], n) = Occ(inputs[u], n) - (IF old = n THEN 1 ELSE 0)
      BY <1>1, <1>2, <1>3, <2>2, OccDropAt DEF TypeOK
    <3>2. Occ(inputs[u], n) \in Nat /\ Occ(inputs'[u], n) \in Nat /\ uses[n][u] \in Nat
      <4>1. inputs'[u] \in Slots
        BY <1>4 DEF TypeOK
      <4> QED BY <1>1, <1>2, <2>2, <4>1, OccType DEF TypeOK
    <3> QED BY <2>1, <2>2, <3>1, <3>2 DEF IInv, Tight
  <2>3. CASE u # node
    <3>1. uses'[n][u] = uses[n][u] /\ inputs'[u] = inputs[u]
      BY <1>1, <1>3, <2>1, <2>3 DEF TypeOK
    <3> QED BY <3>1 DEF IInv, Tight
  <2> QED BY <2>2, <2>3
<1> QED BY <1>4, <1>5

\* Overwriting an input slot: one use released, one registered.
LEMMA ReplaceInputTight ==
  ASSUME IInv, NEW node \in Live, NEW i \in DOMAIN inputs[node],
         NEW new \in Live \cup {NoNode}, wil_node_replace_input(node, i, new)
  PROVE  TypeOK' /\ (\A n, u \in NodeId : Tight(n, u)')
<1> scenario' = scenario /\ Oom' = Oom
  BY DEF wil_node_replace_input, Oom
<1> DEFINE old == inputs[node][i]
           rel == Released(old, node)
<1>1. TypeOK /\ node \in NodeId /\ new \in NodeId \cup {NoNode}
  BY LiveIsNode DEF IInv
<1>2. inputs[node] \in Slots /\ old \in NodeId \cup {NoNode}
  BY <1>1 DEF TypeOK, Slots
<1>3. inputs' = [inputs EXCEPT ![node] = [@ EXCEPT ![i] = new]]
  BY DEF wil_node_replace_input
<1>4. PICK r \in 0..1 :
        /\ ~Oom => r = 1
        /\ uses' = IF new = NoNode THEN rel ELSE [rel EXCEPT ![new][node] = @ + r]
  <2>1. PICK r \in IF old = new /\ rel # uses THEN {1} ELSE wil_node_register_use(1) :
          uses' = IF new = NoNode THEN rel ELSE [rel EXCEPT ![new][node] = @ + r]
    BY DEF wil_node_replace_input
  <2>2. r \in 0..1 /\ (~Oom => r = 1)
    BY <2>1, RegisterBound
  <2> QED BY <2>1, <2>2
<1>5. rel \in [NodeId -> [NodeId -> Nat]]
  BY <1>1, <1>2, ReleasedUses
<1>6. TypeOK'
  <2>1. uses' \in [NodeId -> [NodeId -> Nat]]
    <3> HIDE DEF rel
    <3> QED BY <1>1, <1>4, <1>5
  <2>2. inputs' \in [NodeId -> Slots]
    BY <1>1, <1>2, <1>3, OccExcept DEF TypeOK
  <2> QED BY <1>1, <2>1, <2>2 DEF TypeOK, wil_node_replace_input
<1>7. ASSUME NEW n \in NodeId, NEW u \in NodeId
      PROVE  Tight(n, u)'
  <2>1. rel[n][u] = IF n = old /\ u = node /\ uses[n][u] > 0
                    THEN uses[n][u] - 1 ELSE uses[n][u]
    BY <1>1, <1>2, ReleasedUses
  <2>2. uses'[n][u] = rel[n][u] + (IF n = new /\ u = node THEN r ELSE 0)
    <3>1. n # NoNode /\ rel[n][u] \in Nat
      BY <1>5, BoundsAssumption DEF NodeId, NoNode
    <3> HIDE DEF rel
    <3> QED BY <1>1, <1>4, <1>5, <3>1
  <2>3. CASE u = node
    <3>1. Occ(inputs'[u], n) = Occ(inputs[u], n) - (IF old = n THEN 1 ELSE 0)
                                                 + (IF new = n THEN 1 ELSE 0)
      <4>1. inputs'[u] = [inputs[node] EXCEPT ![i] = new]
        BY <1>1, <1>3, <2>3 DEF TypeOK
      <4> QED BY <1>1, <1>2, <2>3, <4>1, OccExcept
    <3>2. Occ(inputs[u], n) \in Nat /\ uses[n][u] \in Nat
      BY <1>1, <1>2, <2>3, OccType DEF TypeOK
    <3>3. old = n => Occ(inputs[u], n) > 0
      BY <1>2, <2>3, <3>2, OccZero
    <3> HIDE DEF rel, old
    <3> QED BY <1>4, <2>1, <2>2, <2>3, <3>1, <3>2, <3>3 DEF IInv, Tight
  <2>4. CASE u # node
    <3>1. uses'[n][u] = uses[n][u] /\ inputs'[u] = inputs[u]
      BY <1>1, <1>3, <2>1, <2>2, <2>4 DEF TypeOK
    <3> QED BY <3>1 DEF IInv, Tight
  <2> QED BY <2>3, <2>4
<1> QED BY <1>6, <1>7

\* Rerouting every listed user of old to new.
LEMMA ReplaceAllTight ==
  ASSUME IInv, NEW old \in Live, NEW new \in Live,
         wil_node_replace_all_uses(old, new)
  PROVE  TypeOK' /\ (\A n, u \in NodeId : Tight(n, u)')
<1> scenario' = scenario /\ Oom' = Oom
  BY DEF wil_node_replace_all_uses, Oom
<1> DEFINE U == Users(old)
<1>1. TypeOK /\ old \in NodeId /\ new \in NodeId /\ old # new
  BY LiveIsNode DEF IInv, wil_node_replace_all_uses
<1>2. inputs' = [u \in NodeId |-> IF u \in U THEN Subst(inputs[u], old, new)
                                  ELSE inputs[u]]
  BY DEF wil_node_replace_all_uses
<1>3. PICK r \in [NodeId -> 0..MaxInputs] :
        /\ \A u \in NodeId :
             r[u] \in wil_node_register_use(IF u \in U THEN Occ(inputs[u], old)
                                            ELSE 0)
        /\ uses' = [uses EXCEPT
             ![old] = [u \in NodeId |->
                         IF u \in U
                         THEN wil_node_unregister_use(@[u], Occ(inputs[u], old))
                         ELSE @[u]],
             ![new] = [u \in NodeId |-> @[u] + r[u]]]
  BY DEF wil_node_replace_all_uses
<1>4. \A u \in NodeId : inputs[u] \in Slots /\ Occ(inputs[u], old) \in Nat
                         /\ Occ(inputs[u], new) \in Nat
  BY <1>1, OccType DEF TypeOK
<1>5. \A u \in NodeId :
        LET k == IF u \in U THEN Occ(inputs[u], old) ELSE 0
        IN  r[u] \in 0..k /\ (~Oom => r[u] = k)
  BY <1>3, <1>4, RegisterBound
<1> DEFINE left == [u \in NodeId |->
                      IF u \in U
                      THEN wil_node_unregister_use(uses[old][u], Occ(inputs[u], old))
                      ELSE uses[old][u]]
           more == [u \in NodeId |-> uses[new][u] + r[u]]
<1>6. /\ left \in [NodeId -> Nat]
      /\ more \in [NodeId -> Nat]
      /\ \A u \in NodeId : left[u] = 0
  <2>1. ASSUME NEW u \in NodeId PROVE left[u] = 0
    <3>1. uses[old][u] \in Nat /\ uses[old][u] <= Occ(inputs[u], old)
      BY <1>1 DEF IInv, Tight, TypeOK
    <3>2. u \in U <=> uses[old][u] > 0
      BY DEF Users
    <3> HIDE DEF U
    <3> QED BY <1>4, <3>1, <3>2 DEF wil_node_unregister_use
  <2>2. more \in [NodeId -> Nat]
    BY <1>1, <1>3, BoundsAssumption DEF TypeOK
  <2> HIDE DEF more
  <2> QED BY <2>1, <2>2
<1>7. uses' = [[uses EXCEPT ![old] = left] EXCEPT ![new] = more]
  BY <1>1, <1>3 DEF TypeOK
<1>8. TypeOK'
  <2>1. uses' \in [NodeId -> [NodeId -> Nat]]
    <3> HIDE DEF left, more
    <3> QED BY <1>1, <1>6, <1>7 DEF TypeOK
  <2>2. inputs' \in [NodeId -> Slots]
    <3>1. \A u \in NodeId : Subst(inputs[u], old, new) \in Slots
      BY <1>1, <1>4, OccSubst
    <3> HIDE DEF U
    <3> QED BY <1>2, <1>4, <3>1
  <2> QED BY <1>1, <2>1, <2>2 DEF TypeOK, wil_node_replace_all_uses
<1>9. ASSUME NEW n \in NodeId, NEW u \in NodeId
      PROVE  Tight(n, u)'
  <2>1. uses'[n][u] = IF n = old THEN 0
                      ELSE IF n = new THEN uses[new][u] + r[u] ELSE uses[n][u]
    <3>1. left[u] = 0 /\ more[u] = uses[new][u] + r[u]
      BY <1>6
    <3> HIDE DEF left, more
    <3> QED BY <1>1, <1>6, <1>7, <3>1 DEF TypeOK
  <2>2. /\ uses[n][u] \in Nat /\ uses[new][u] \in Nat
        /\ uses[old][u] \in Nat /\ Occ(inputs[u], n) \in Nat
    <3>1. inputs[u] \in Slots
      BY <1>4
    <3>2. Occ(inputs[u], n) \in Nat
      BY <3>1, OccType
    <3>3. uses[n][u] \in Nat /\ uses[new][u] \in Nat /\ uses[old][u] \in Nat
      BY <1>1 DEF TypeOK
    <3> QED BY <3>2, <3>3
  <2>3. CASE u \in U
    <3>1. Occ(inputs'[u], n) = IF n = old THEN 0
                               ELSE IF n = new
                               THEN Occ(inputs[u], new) + Occ(inputs[u], old)
                               ELSE Occ(inputs[u], n)
      BY <1>1, <1>2, <1>4, <2>3, OccSubst
    <3>2. r[u] \in 0..Occ(inputs[u], old)
          /\ (~Oom => r[u] = Occ(inputs[u], old))
      BY <1>5, <2>3
    <3>3. Tight(n, u) /\ Tight(new, u)
      BY <1>1 DEF IInv
    <3> HIDE DEF U
    <3> QED BY <1>1, <1>4, <2>1, <2>2, <3>1, <3>2, <3>3 DEF Tight
  <2>4. CASE u \notin U
    <3>1. inputs'[u] = inputs[u] /\ r[u] = 0
      BY <1>2, <1>5, <2>4
    <3>2. uses[old][u] = 0
      BY <2>2, <2>4 DEF Users
    <3>3. uses'[n][u] = uses[n][u]
      BY <2>1, <2>2, <3>1, <3>2
    <3> QED BY <3>1, <3>3 DEF IInv, Tight
  <2> QED BY <2>3, <2>4
<1> QED BY <1>8, <1>9

\* Removing a node: all its slots are released.
LEMMA RemoveTight ==
  ASSUME IInv, NEW node \in Live, wil_node_remove(node)
  PROVE  TypeOK' /\ (\A n, u \in NodeId : Tight(n, u)')
<1> scenario' = scenario /\ Oom' = Oom
  BY DEF wil_node_remove, Oom
<1>1. TypeOK /\ node \in NodeId /\ node \in 1..nodeCount
  BY LiveIsNode DEF IInv, Live
<1>2. inputs' = [inputs EXCEPT ![node] = <<>>] /\ removed' = removed \cup {node}
      /\ UNCHANGED <<nodeCount, verifyError>>
  BY DEF wil_node_remove
<1> DEFINE left(n) == wil_node_unregister_use(uses[n][node], Occ(inputs[node], n))
<1>3. uses' = [n \in NodeId |-> [uses[n] EXCEPT ![node] = left(n)]]
  BY DEF wil_node_remove
<1>4. \A n \in NodeId : left(n) = 0
  <2> SUFFICES ASSUME NEW n \in NodeId PROVE left(n) = 0
    OBVIOUS
  <2>1. Tight(n, node) /\ uses[n][node] \in Nat /\ Occ(inputs[node], n) \in Nat
    BY <1>1, OccType DEF IInv, TypeOK
  <2> QED BY <2>1 DEF Tight, wil_node_unregister_use
<1> HIDE DEF left
<1>5. TypeOK'
  <2>1. uses' \in [NodeId -> [NodeId -> Nat]]
    BY <1>1, <1>3, <1>4 DEF TypeOK
  <2>2. inputs' \in [NodeId -> Slots]
    BY <1>1, <1>2 DEF TypeOK, Slots
  <2> QED BY <1>1, <1>2, <2>1, <2>2 DEF TypeOK
<1>6. ASSUME NEW n \in NodeId, NEW u \in NodeId
      PROVE  Tight(n, u)'
  <2>1. CASE u = node
    <3>1. uses'[n][u] = 0 /\ inputs'[u] = <<>>
      BY <1>1, <1>2, <1>3, <1>4, <2>1 DEF TypeOK
    <3> QED BY <3>1, OccEmpty DEF Tight
  <2>2. CASE u # node
    <3>1. uses'[n][u] = uses[n][u] /\ inputs'[u] = inputs[u]
      BY <1>1, <1>2, <1>3, <2>2 DEF TypeOK
    <3> QED BY <3>1 DEF IInv, Tight
  <2> QED BY <2>1, <2>2
<1> QED BY <1>5, <1>6

-----------------------------------------------------------------------------
(* Isolation of removed and of unborn nodes.                               *)

\* An edit whose new slot contents are live nodes or NULL, and that leaves
\* removed and unborn nodes alone, keeps them isolated.
LEMMA EditKeepsIsolation ==
  ASSUME IInv, TypeOK', Oom' = Oom, removed' = removed, nodeCount' >= nodeCount,
         \A u \in NodeId : (~Oom /\ u \in removed) \/ u > nodeCount'
                            => inputs'[u] = inputs[u],
         \A u \in NodeId : \A i \in DOMAIN inputs'[u] :
            \/ inputs'[u][i] \in Live \cup {NoNode}
            \/ \E j \in DOMAIN inputs[u] : inputs[u][j] = inputs'[u][i]
  PROVE  UnbornEmpty' /\ RemovedIsolated'
<1>1. UnbornEmpty'
  BY BoundsAssumption DEF IInv, UnbornEmpty, TypeOK, NodeId
<1>2. ASSUME ~Oom, NEW n \in removed
      PROVE  inputs'[n] = <<>> /\ \A u \in NodeId : Occ(inputs'[u], n) = 0
  <2>1. n \in NodeId /\ n \notin Live \cup {NoNode}
    BY BoundsAssumption DEF IInv, TypeOK, Live, NodeId, NoNode
  <2>2. inputs[n] = <<>> /\ \A u \in NodeId : Occ(inputs[u], n) = 0
    BY <1>2 DEF IInv, RemovedIsolated
  <2>3. ASSUME NEW u \in NodeId PROVE Occ(inputs'[u], n) = 0
    <3>1. inputs[u] \in Slots /\ inputs'[u] \in Slots
      BY DEF IInv, TypeOK
    <3>2. \A j \in DOMAIN inputs[u] : inputs[u][j] # n
      BY <2>2, <3>1, OccZero
    <3>3. \A i \in DOMAIN inputs'[u] : inputs'[u][i] # n
      BY <2>1, <3>2
    <3> QED BY <3>1, <3>3, OccZero
  <2> QED BY <1>2, <2>1, <2>2, <2>3
<1> QED BY <1>1, <1>2 DEF RemovedIsolated

\* The five edits that do not remove a node.
LEMMA EditsIsolated ==
  ASSUME IInv, TypeOK',
         \/ \E ins \in Operands : wil_build_nary(ins)
         \/ \E node \in Live, input \in Live \cup {NoNode} :
              wil_node_add_input(node, input)
         \/ \E node \in Live : \E i \in DOMAIN inputs[node], new \in Live \cup {NoNode} :
              wil_node_replace_input(node, i, new)
         \/ \E node \in Live : \E i \in DOMAIN inputs[node] :
              wil_node_remove_input(node, i)
         \/ \E old, new \in Live : wil_node_replace_all_uses(old, new)
  PROVE  UnbornEmpty' /\ RemovedIsolated'
<1> Oom' = Oom
  BY DEF Oom, wil_build_nary, wil_node_add_input, wil_node_replace_input,
         wil_node_remove_input, wil_node_replace_all_uses
<1>1. TypeOK /\ Live \subseteq NodeId /\ nodeCount \in Nat
      /\ \A u \in NodeId : inputs[u] \in Slots
  BY LiveIsNode, BoundsAssumption DEF IInv, TypeOK
<1>a. \A u \in NodeId : DOMAIN inputs[u] = 1..Len(inputs[u]) /\ Len(inputs[u]) \in Nat
  BY <1>1 DEF Slots
<1>2. ASSUME NEW ins \in Operands, wil_build_nary(ins)
      PROVE  UnbornEmpty' /\ RemovedIsolated'
  <2>1. /\ removed' = removed /\ nodeCount' = nodeCount + 1
        /\ inputs' = [inputs EXCEPT ![nodeCount + 1] = ins]
    BY <1>2 DEF wil_build_nary
  <2>2. \A i \in DOMAIN ins : ins[i] \in Live \cup {NoNode}
    BY DEF Operands
  <2>3. removed \subseteq 1..nodeCount
    BY <1>1 DEF TypeOK
  <2>4. \A u \in NodeId : u \in removed \/ u > nodeCount' => inputs'[u] = inputs[u]
    BY <1>1, <2>1, <2>3, BoundsAssumption DEF TypeOK, NodeId
  <2>5. \A u \in NodeId : \A i \in DOMAIN inputs'[u] :
          \/ inputs'[u][i] \in Live \cup {NoNode}
          \/ \E j \in DOMAIN inputs[u] : inputs[u][j] = inputs'[u][i]
    BY <1>1, <2>1, <2>2 DEF TypeOK
  <2> QED BY <1>1, <2>1, <2>4, <2>5, EditKeepsIsolation
<1>3. ASSUME NEW node \in Live, NEW t \in Slots,
             inputs' = [inputs EXCEPT ![node] = t],
             UNCHANGED <<nodeCount, removed>>,
             \A i \in DOMAIN t : \/ t[i] \in Live \cup {NoNode}
                                 \/ \E j \in DOMAIN inputs[node] : inputs[node][j] = t[i]
      PROVE  UnbornEmpty' /\ RemovedIsolated'
  <2>1. node \in NodeId /\ node \notin removed /\ node <= nodeCount
    BY <1>1, <1>3 DEF Live
  <2>2. \A u \in NodeId : u \in removed \/ u > nodeCount' => inputs'[u] = inputs[u]
    BY <1>1, <1>3, <2>1, BoundsAssumption DEF TypeOK, NodeId
  <2>3. \A u \in NodeId : \A i \in DOMAIN inputs'[u] :
          \/ inputs'[u][i] \in Live \cup {NoNode}
          \/ \E j \in DOMAIN inputs[u] : inputs[u][j] = inputs'[u][i]
    BY <1>1, <1>3, <2>1 DEF TypeOK
  <2> QED BY <1>1, <1>3, <2>2, <2>3, EditKeepsIsolation
<1>4. ASSUME NEW node \in Live, NEW input \in Live \cup {NoNode},
             wil_node_add_input(node, input)
      PROVE  UnbornEmpty' /\ RemovedIsolated'
  <2> DEFINE t == Append(inputs[node], input)
  <2>1. t \in Slots
    BY <1>1, OccAppend
  <2>2. \A k \in DOMAIN t : \/ t[k] \in Live \cup {NoNode}
                            \/ \E j \in DOMAIN inputs[node] : inputs[node][j] = t[k]
    BY <1>1, <1>a DEF Slots
  <2>3. inputs' = [inputs EXCEPT ![node] = t] /\ UNCHANGED <<nodeCount, removed>>
    BY <1>4 DEF wil_node_add_input
  <2> HIDE DEF t
  <2> QED BY <1>3, <2>1, <2>2, <2>3
<1>5. ASSUME NEW node \in Live, NEW i \in DOMAIN inputs[node],
             NEW new \in Live \cup {NoNode}, wil_node_replace_input(node, i, new)
      PROVE  UnbornEmpty' /\ RemovedIsolated'
  <2> DEFINE t == [inputs[node] EXCEPT ![i] = new]
  <2>1. t \in Slots
    BY <1>1, OccExcept
  <2>2. \A k \in DOMAIN t : \/ t[k] \in Live \cup {NoNode}
                            \/ \E j \in DOMAIN inputs[node] : inputs[node][j] = t[k]
    BY <1>1, <1>a
  <2>3. inputs' = [inputs EXCEPT ![node] = t] /\ UNCHANGED <<nodeCount, removed>>
    BY <1>5 DEF wil_node_replace_input
  <2> HIDE DEF t
  <2> QED BY <1>3, <2>1, <2>2, <2>3
<1>6. ASSUME NEW node \in Live, NEW i \in DOMAIN inputs[node],
             wil_node_remove_input(node, i)
      PROVE  UnbornEmpty' /\ RemovedIsolated'
  <2> DEFINE t == DropAt(inputs[node], i)
  <2>1. t \in Slots
    BY <1>1, OccDropAt
  <2>2. \A k \in DOMAIN t : \E j \in DOMAIN inputs[node] : inputs[node][j] = t[k]
    <3>1. i \in 1..Len(inputs[node]) /\ Len(inputs[node]) \in Nat
      BY <1>1, <1>a
    <3> QED BY <1>1, <1>a, <3>1 DEF DropAt
  <2>3. inputs' = [inputs EXCEPT ![node] = t] /\ UNCHANGED <<nodeCount, removed>>
    BY <1>6 DEF wil_node_remove_input
  <2> HIDE DEF t
  <2> QED BY <1>3, <2>1, <2>2, <2>3
<1>7. ASSUME NEW old \in Live, NEW new \in Live, wil_node_replace_all_uses(old, new)
      PROVE  UnbornEmpty' /\ RemovedIsolated'
  <2>1. /\ UNCHANGED <<nodeCount, removed>> /\ old \in NodeId
        /\ inputs' = [u \in NodeId |-> IF u \in Users(old)
                                       THEN Subst(inputs[u], old, new) ELSE inputs[u]]
    BY <1>1, <1>7 DEF wil_node_replace_all_uses
  <2>2. ASSUME NEW u \in NodeId, (~Oom /\ u \in removed) \/ u > nodeCount
        PROVE  u \notin Users(old)
    <3>1. inputs[u] = <<>>
      BY <2>2 DEF IInv, UnbornEmpty, RemovedIsolated
    <3>2. uses[old][u] <= 0 /\ uses[old][u] \in Nat
      BY <1>1, <2>1, <3>1, OccEmpty DEF IInv, Tight, TypeOK
    <3> QED BY <3>2 DEF Users
  <2>3. \A u \in NodeId : (~Oom /\ u \in removed) \/ u > nodeCount'
                          => inputs'[u] = inputs[u]
    BY <2>1, <2>2
  <2>4. \A u \in NodeId : \A i \in DOMAIN inputs'[u] :
          \/ inputs'[u][i] \in Live \cup {NoNode}
          \/ \E j \in DOMAIN inputs[u] : inputs[u][j] = inputs'[u][i]
    BY <2>1 DEF Subst
  <2> QED BY <1>1, <2>1, <2>3, <2>4, EditKeepsIsolation
<1> QED BY <1>2, <1>4, <1>5, <1>6, <1>7

\* Removing a node that nothing uses: nothing holds it either.
LEMMA RemoveIsolated ==
  ASSUME IInv, TypeOK', NEW node \in Live, wil_node_remove(node)
  PROVE  UnbornEmpty' /\ RemovedIsolated'
<1> Oom' = Oom
  BY DEF Oom, wil_node_remove
<1>1. TypeOK /\ node \in NodeId
  BY LiveIsNode DEF IInv
<1>2. /\ Unused(node) /\ nodeCount' = nodeCount /\ removed' = removed \cup {node}
      /\ inputs' = [inputs EXCEPT ![node] = <<>>]
  BY DEF wil_node_remove
<1>3. \A u \in NodeId : inputs'[u] = IF u = node THEN <<>> ELSE inputs[u]
  BY <1>1, <1>2 DEF TypeOK
<1>4. UnbornEmpty'
  BY <1>2, <1>3 DEF IInv, UnbornEmpty
<1>5. ASSUME ~Oom, NEW n \in removed'
      PROVE  inputs'[n] = <<>> /\ \A u \in NodeId : Occ(inputs'[u], n) = 0
  <2>a. removed \subseteq 1..nodeCount /\ nodeCount \in 0..MaxNodes
    BY <1>1 DEF TypeOK
  <2>b. removed \subseteq NodeId
    BY <2>a, BoundsAssumption DEF NodeId
  <2>1. n \in NodeId
    BY <1>1, <1>2, <1>5, <2>b
  <2>2. inputs'[n] = <<>>
    BY <1>2, <1>3, <1>5, <2>1 DEF IInv, RemovedIsolated
  <2>3. ASSUME NEW u \in NodeId PROVE Occ(inputs[u], n) = 0
    <3>1. CASE n = node
      BY <1>2, <1>5, <2>1, <3>1 DEF IInv, Tight, Unused
    <3>2. CASE n # node
      BY <1>2, <1>5, <3>2 DEF IInv, RemovedIsolated
    <3> QED BY <3>1, <3>2
  <2> QED BY <1>3, <2>2, <2>3, OccEmpty
<1> QED BY <1>4, <1>5 DEF RemovedIsolated

-----------------------------------------------------------------------------
(* Verification.                                                           *)

\* A nonempty set of numbers has a least element: the loops of
\* wil_validate.c, written with CHOOSE, do report something.
LEMMA SmallestNat ==
  ASSUME NEW S \in SUBSET Nat, S # {}
  PROVE  \E m \in S : \A k \in S : m <= k
<1> DEFINE R == {ss \in Nat \X Nat : ss[1] < ss[2]}
<1>1. IsWellFoundedOn(R, Nat)
  BY NatLessThanWellFounded DEF OpToRel
<1>2. PICK m \in S : \A k \in S : <<k, m>> \notin R
  BY <1>1, WFMin
<1>3. \A k \in S : ~(k < m)
  BY <1>2
<1> QED BY <1>3

\* What wil_verify_node can report of a graph that satisfies IInv.
LEMMA VerifyNodeVerdict ==
  ASSUME IInv, NEW n \in NodeId
  PROVE  /\ wil_verify_node(n) \in {"none", "null_input", "missing_use"}
         /\ ~Oom => wil_verify_node(n) \in {"none", "null_input"}
<1> DEFINE bad == {i \in DOMAIN inputs[n] : SlotError(n, i) # "none"}
<1>1. TypeOK /\ inputs[n] \in Slots
  BY DEF IInv, TypeOK
<1>2. ASSUME NEW i \in DOMAIN inputs[n]
      PROVE  /\ SlotError(n, i) \in {"none", "null_input", "missing_use"}
             /\ ~Oom => SlotError(n, i) \in {"none", "null_input"}
  <2>1. SlotError(n, i) \in {"none", "null_input", "missing_use"}
    BY DEF SlotError
  <2>2. ASSUME ~Oom, inputs[n][i] # NoNode
        PROVE  uses[inputs[n][i]][n] # 0
    <3> DEFINE m == inputs[n][i]
    <3>1. m \in NodeId
      BY <1>1, <2>2 DEF Slots
    <3>2. Occ(inputs[n], m) # 0
      BY <1>1, OccZero
    <3> QED BY <2>2, <3>1, <3>2 DEF IInv, Tight
  <2> QED BY <2>1, <2>2 DEF SlotError
<1>3. CASE bad # {}
  <2>1. wil_verify_node(n) = SlotError(n, CHOOSE i \in bad : \A j \in bad : i <= j)
    BY <1>3 DEF wil_verify_node
  <2>2. \E i \in bad : \A j \in bad : i <= j
    <3>1. bad \in SUBSET Nat
      BY <1>1 DEF Slots
    <3>2. PICK b \in bad : TRUE
      BY <1>3
    <3> QED BY <1>3, <3>1, SmallestNat
  <2>3. (CHOOSE i \in bad : \A j \in bad : i <= j) \in DOMAIN inputs[n]
    BY <2>2
  <2> QED BY <1>2, <2>1, <2>3
<1>4. CASE bad = {}
  <2>1. ~PhantomUse(n)
    <3>1. ASSUME NEW u \in NodeId, uses[n][u] > 0
          PROVE  \E i \in DOMAIN inputs[u] : inputs[u][i] = n
      <4>1. inputs[u] \in Slots /\ uses[n][u] \in Nat /\ uses[n][u] <= Occ(inputs[u], n)
        BY <1>1 DEF IInv, Tight, TypeOK
      <4>2. Occ(inputs[u], n) # 0
        BY <3>1, <4>1
      <4> QED BY <4>1, <4>2, OccZero
    <3> QED BY <3>1 DEF PhantomUse
  <2> QED BY <1>4, <2>1 DEF wil_verify_node
<1> QED BY <1>3, <1>4

\* Verification writes only the error, and only an error its rules allow.
LEMMA VerifyGraphStep ==
  ASSUME IInv, wil_verify_graph
  PROVE  IInv'
<1> scenario' = scenario /\ Oom' = Oom
  BY DEF wil_verify_graph, Oom
<1> DEFINE bad == {n \in 1..nodeCount : wil_verify_node(n) # "none"}
<1>1. /\ UNCHANGED <<nodeCount, inputs, uses, removed>>
      /\ verifyError' = IF bad = {} THEN "none"
                        ELSE wil_verify_node(CHOOSE n \in bad : \A m \in bad : n <= m)
  BY DEF wil_verify_graph
<1>2. nodeCount \in Nat /\ 1..nodeCount \subseteq NodeId
  BY BoundsAssumption DEF IInv, TypeOK, NodeId
<1>3. /\ verifyError' \in {"none", "null_input", "missing_use"}
      /\ ~Oom => verifyError' \in {"none", "null_input"}
  <2>1. CASE bad = {}
    BY <1>1, <2>1
  <2>2. CASE bad # {}
    <3>1. bad \in SUBSET Nat
      BY <1>2
    <3>2. \E n \in bad : \A m \in bad : n <= m
      BY <2>2, <3>1, SmallestNat
    <3>3. (CHOOSE n \in bad : \A m \in bad : n <= m) \in bad
      BY <3>2
    <3> QED BY <1>1, <1>2, <2>2, <3>3, VerifyNodeVerdict
  <2> QED BY <2>1, <2>2
<1>4. TypeOK'
  BY <1>1, <1>3 DEF IInv, TypeOK
<1>5. \A n, u \in NodeId : Tight(n, u)'
  BY <1>1 DEF IInv, Tight
<1>6. UnbornEmpty' /\ RemovedIsolated'
  BY <1>1 DEF IInv, UnbornEmpty, RemovedIsolated
<1> QED BY <1>3, <1>4, <1>5, <1>6 DEF IInv, VerifyBlamesOnlyNulls, VerifyNeverPhantom

-----------------------------------------------------------------------------
(* The inductive step and the invariance theorems.                         *)

\* Every operation preserves the inductive invariant.
LEMMA StepIInv ==
  ASSUME IInv, [Next]_vars
  PROVE  IInv'
<1> Oom' = Oom
  BY DEF Oom, Next, vars, wil_build_nary, wil_node_add_input, wil_node_replace_input,
         wil_node_remove_input, wil_node_replace_all_uses, wil_node_remove, wil_verify_graph
<1>1. ASSUME verifyError' = verifyError, TypeOK', \A n, u \in NodeId : Tight(n, u)',
             UnbornEmpty' /\ RemovedIsolated'
      PROVE  IInv'
  BY <1>1 DEF IInv, VerifyBlamesOnlyNulls, VerifyNeverPhantom
<1>2. CASE \E ins \in Operands : wil_build_nary(ins)
  <2>1. verifyError' = verifyError
    BY <1>2 DEF wil_build_nary
  <2>2. TypeOK' /\ \A n, u \in NodeId : Tight(n, u)'
    BY <1>2, BuildTight
  <2> QED BY <1>1, <1>2, <2>1, <2>2, EditsIsolated
<1>3. CASE \E node \in Live, input \in Live \cup {NoNode} :
             wil_node_add_input(node, input)
  <2>1. verifyError' = verifyError
    BY <1>3 DEF wil_node_add_input
  <2>2. TypeOK' /\ \A n, u \in NodeId : Tight(n, u)'
    BY <1>3, AddTight
  <2> QED BY <1>1, <1>3, <2>1, <2>2, EditsIsolated
<1>4. CASE \E node \in Live : \E i \in DOMAIN inputs[node], new \in Live \cup {NoNode} :
             wil_node_replace_input(node, i, new)
  <2>1. verifyError' = verifyError
    BY <1>4 DEF wil_node_replace_input
  <2>2. TypeOK' /\ \A n, u \in NodeId : Tight(n, u)'
    BY <1>4, ReplaceInputTight
  <2> QED BY <1>1, <1>4, <2>1, <2>2, EditsIsolated
<1>5. CASE \E node \in Live : \E i \in DOMAIN inputs[node] :
             wil_node_remove_input(node, i)
  <2>1. verifyError' = verifyError
    BY <1>5 DEF wil_node_remove_input
  <2>2. TypeOK' /\ \A n, u \in NodeId : Tight(n, u)'
    BY <1>5, RemoveInputTight
  <2> QED BY <1>1, <1>5, <2>1, <2>2, EditsIsolated
<1>6. CASE \E old, new \in Live : wil_node_replace_all_uses(old, new)
  <2>1. verifyError' = verifyError
    BY <1>6 DEF wil_node_replace_all_uses
  <2>2. TypeOK' /\ \A n, u \in NodeId : Tight(n, u)'
    BY <1>6, ReplaceAllTight
  <2> QED BY <1>1, <1>6, <2>1, <2>2, EditsIsolated
<1>7. CASE \E node \in Live : wil_node_remove(node)
  <2>1. verifyError' = verifyError
    BY <1>7 DEF wil_node_remove
  <2>2. TypeOK' /\ \A n, u \in NodeId : Tight(n, u)'
    BY <1>7, RemoveTight
  <2> QED BY <1>1, <1>7, <2>1, <2>2, RemoveIsolated
<1>8. CASE wil_verify_graph
  BY <1>8, VerifyGraphStep
<1>9. CASE UNCHANGED vars
  BY <1>9 DEF vars, IInv, TypeOK, Tight, UnbornEmpty, RemovedIsolated,
              VerifyBlamesOnlyNulls, VerifyNeverPhantom, Live
<1> QED BY <1>2, <1>3, <1>4, <1>5, <1>6, <1>7, <1>8, <1>9 DEF Next

\* The inductive invariant holds throughout.
LEMMA InvIInv == Spec => []IInv
<1> QED BY InitIInv, StepIInv, PTL DEF Spec

\* Slots, use bags, flags and errors keep their types under every edit.
THEOREM TypeCorrect == Spec => []TypeOK
<1>1. IInv => TypeOK
  BY DEF IInv
<1> QED BY <1>1, InvIInv, PTL

\* No edit, whatever allocation fails inside it, leaves a use without an
\* input slot behind it.
THEOREM NoPhantomUses == Spec => []NoPhantomUse
<1>1. IInv => NoPhantomUse
  BY DEF IInv, Tight, NoPhantomUse
<1> QED BY <1>1, InvIInv, PTL

\* While allocations succeed, the use arrays mirror the input slots exactly.
THEOREM UsesMirror == Spec => []UsesMirrorInputs
<1>1. IInv => UsesMirrorInputs
  BY DEF IInv, Tight, UsesMirrorInputs
<1> QED BY <1>1, InvIInv, PTL

\* While allocations succeed, a removed node is in no slot of the graph.
THEOREM RemovedAreIsolated == Spec => []RemovedIsolated
<1>1. IInv => RemovedIsolated
  BY DEF IInv
<1> QED BY <1>1, InvIInv, PTL

\* wil_verify_graph never blames a use list for having a phantom entry, and
\* blames only NULL operands while allocations succeed.
THEOREM VerifySound == Spec => [](VerifyNeverPhantom /\ VerifyBlamesOnlyNulls)
<1>1. IInv => VerifyNeverPhantom /\ VerifyBlamesOnlyNulls
  BY DEF IInv
<1> QED BY <1>1, InvIInv, PTL

-----------------------------------------------------------------------------
(* Refinement: while allocations succeed the use lists are invisible.      *)

\* Substituting for a node no slot holds changes nothing.
LEMMA SubstAbsent ==
  ASSUME NEW s \in Slots, NEW old, NEW new, Occ(s, old) = 0
  PROVE  Subst(s, old, new) = s
<1>1. \A i \in DOMAIN s : s[i] # old
  BY OccZero
<1>2. s = [i \in DOMAIN s |-> s[i]]
  BY DEF Slots
<1> QED BY <1>1, <1>2 DEF Subst

\* Visiting the listed users is substituting everywhere.
LEMMA ReplaceAllRefines ==
  ASSUME ~Oom, IInv, NEW old \in Live, NEW new \in Live,
         wil_node_replace_all_uses(old, new)
  PROVE  Graph!Substitute(old, new)
<1>1. TypeOK /\ old \in NodeId
  BY LiveIsNode DEF IInv
<1>2. /\ UNCHANGED <<nodeCount, removed>>
      /\ inputs' = [u \in NodeId |-> IF u \in Users(old)
                                     THEN Subst(inputs[u], old, new) ELSE inputs[u]]
  BY DEF wil_node_replace_all_uses
<1>3. ASSUME NEW u \in NodeId, u \notin Users(old)
      PROVE  Subst(inputs[u], old, new) = inputs[u]
  <2>1. uses[old][u] \in Nat /\ inputs[u] \in Slots
    BY <1>1 DEF TypeOK
  <2>2. Occ(inputs[u], old) = 0
    BY <1>1, <1>3, <2>1 DEF Users, IInv, Tight
  <2> QED BY <2>1, <2>2, SubstAbsent
<1>4. inputs' = [u \in NodeId |-> Subst(inputs[u], old, new)]
  BY <1>2, <1>3
<1> QED BY <1>2, <1>4 DEF Graph!Substitute, Graph!Subst, Subst, Graph!NodeId, NodeId

\* A node whose use array is empty is held by no slot.
LEMMA RemoveRefines ==
  ASSUME ~Oom, IInv, NEW node \in Live, wil_node_remove(node)
  PROVE  Graph!Remove(node)
<1>1. TypeOK /\ node \in NodeId
  BY LiveIsNode DEF IInv
<1>2. ASSUME NEW m \in NodeId PROVE ~Graph!Holds(m, node)
  <2>1. inputs[m] \in Slots /\ Occ(inputs[m], node) = 0
    BY <1>1 DEF IInv, TypeOK, Tight, wil_node_remove, Unused
  <2>2. \A i \in DOMAIN inputs[m] : inputs[m][i] # node
    BY <2>1, OccZero
  <2> QED BY <2>2 DEF Graph!Holds
<1> QED BY <1>2 DEF Graph!Remove, wil_node_remove, Graph!NodeId, NodeId

\* Every step of WILGraph is a step of ValueGraph or leaves it alone.
LEMMA StepRefines ==
  ASSUME ~Oom, IInv, [Next]_vars
  PROVE  [Graph!Next]_(Graph!vars)
<1>1. Graph!Live = Live /\ Graph!NoNode = NoNode
  BY DEF Graph!Live, Live, Graph!NoNode, NoNode
<1>2. CASE \E ins \in Operands : wil_build_nary(ins)
  <2>1. PICK ins \in Operands : wil_build_nary(ins)
    BY <1>2
  <2>2. Graph!Create(ins)
    <3>1. nodeCount < MaxNodes
      BY <2>1, ScenariosAssumption, BoundsAssumption DEF wil_build_nary, IInv, TypeOK
    <3> QED BY <2>1, <3>1 DEF wil_build_nary, Graph!Create
  <2>3. ins \in Graph!Operands
    <3>1. 0..scenario.slots \subseteq 0..MaxInputs
      BY ScenariosAssumption, BoundsAssumption DEF IInv, TypeOK
    <3> QED BY <1>1, <3>1 DEF Operands, Graph!Operands
  <2> QED BY <2>2, <2>3 DEF Graph!Next
<1>3. CASE \E node \in Live, input \in Live \cup {NoNode} :
             wil_node_add_input(node, input)
  <2>1. PICK node \in Live, input \in Live \cup {NoNode} : wil_node_add_input(node, input)
    BY <1>3
  <2>2. Graph!AddInput(node, input)
    BY <2>1 DEF wil_node_add_input, Graph!AddInput
  <2> QED BY <1>1, <2>2 DEF Graph!Next
<1>4. CASE \E node \in Live : \E i \in DOMAIN inputs[node], new \in Live \cup {NoNode} :
             wil_node_replace_input(node, i, new)
  <2>1. PICK node \in Live : \E i \in DOMAIN inputs[node], new \in Live \cup {NoNode} :
               wil_node_replace_input(node, i, new)
    BY <1>4
  <2>2. PICK i \in DOMAIN inputs[node], new \in Live \cup {NoNode} :
               wil_node_replace_input(node, i, new)
    BY <2>1
  <2>3. Graph!ReplaceInput(node, i, new)
    BY <2>2 DEF wil_node_replace_input, Graph!ReplaceInput
  <2> QED BY <1>1, <2>3 DEF Graph!Next
<1>5. CASE \E node \in Live : \E i \in DOMAIN inputs[node] :
             wil_node_remove_input(node, i)
  <2>1. PICK node \in Live : \E i \in DOMAIN inputs[node] : wil_node_remove_input(node, i)
    BY <1>5
  <2>2. PICK i \in DOMAIN inputs[node] : wil_node_remove_input(node, i)
    BY <2>1
  <2>3. Graph!RemoveInput(node, i)
    BY <2>2 DEF wil_node_remove_input, Graph!RemoveInput, Graph!DropAt, DropAt
  <2> QED BY <1>1, <2>3 DEF Graph!Next
<1>6. CASE \E old, new \in Live : wil_node_replace_all_uses(old, new)
  BY <1>1, <1>6, ReplaceAllRefines DEF Graph!Next
<1>7. CASE \E node \in Live : wil_node_remove(node)
  BY <1>1, <1>7, RemoveRefines DEF Graph!Next
<1>8. CASE wil_verify_graph \/ UNCHANGED vars
  BY <1>8 DEF wil_verify_graph, vars, Graph!vars
<1> QED BY <1>2, <1>3, <1>4, <1>5, <1>6, <1>7, <1>8 DEF Next

\* While allocations succeed, the graph edited through its use lists behaves
\* as the graph without use lists of ValueGraph.
THEOREM Refinement == Spec => ImplementsValueGraph
<1> DEFINE A == ~Oom => [Graph!Next]_(Graph!vars)
<1>1. Init => Graph!Init
  BY DEF Init, Graph!Init, NodeId, Graph!NodeId
<1>2. IInv /\ [Next]_vars => [A]_vars
  BY StepRefines
<1>3. Spec => Graph!Init /\ [][A]_vars
  <2> HIDE DEF A
  <2> QED BY <1>1, <1>2, InvIInv, PTL DEF Spec
<1> QED BY <1>3 DEF ImplementsValueGraph
=============================================================================
