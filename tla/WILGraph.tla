------------------------------ MODULE WILGraph ------------------------------
(***************************************************************************)
(* The WIL sea-of-nodes graph (wil_nodes.c, wil_builder.c,                 *)
(* wil_validate.c).  Every node owns an array of input slots and an array  *)
(* of uses that caches, in the other direction, which nodes hold it in a   *)
(* slot.  Each mutator updates both arrays by hand; passes trust the use   *)
(* array (replace_all_uses visits only listed users, remove only checks    *)
(* that the list is empty).                                                *)
(*                                                                         *)
(* A use array is modelled as a bag (multiplicity per user): the code      *)
(* searches, appends to and deletes the first match of it, and nothing     *)
(* reads its order.  Kind, type, name and payload of a node play no role   *)
(* here.  Growing an array may fail when the heap is exhausted; the code   *)
(* then drops the update silently.  In a scenario with oom every growth is *)
(* allowed to fail, whatever the capacity left.                            *)
(***************************************************************************)
EXTENDS Integers, Sequences, FiniteSets

CONSTANTS MaxNodes,     \* bound: nodes created in one context
          MaxInputs,    \* bound: input slots of one node
          Scenarios     \* [oom, nodes, slots]: may realloc of a use array return
                        \* NULL, and bounds below the two above

ASSUME BoundsAssumption == MaxNodes \in Nat /\ MaxInputs \in Nat
ASSUME ScenariosAssumption ==
  \A s \in Scenarios : s.oom \in BOOLEAN /\ s.nodes \in 0..MaxNodes /\ s.slots \in 0..MaxInputs

NodeId == 1..MaxNodes
NoNode == 0             \* a NULL WILNode pointer

VARIABLES scenario,     \* the one that is run
          nodeCount,    \* graph.node_count; node ids are 1..nodeCount
          inputs,       \* inputs[n]: node->inputs, slots may hold NULL
          uses,         \* uses[n][u]: how often u occurs in n->uses
          removed,      \* nodes flagged WIL_NODE_FLAG_REMOVED
          verifyError   \* ctx->verify_error of the last verification

vars == <<scenario, nodeCount, inputs, uses, removed, verifyError>>

Oom == scenario.oom

Slots == Seq(NodeId \cup {NoNode})

\* The nodes a pass may still name: created and not removed.
Live == {n \in 1..nodeCount : n \notin removed}

\* The slots of the input sequence s that hold node n, and how many there are.
SlotsOf(s, n) == {i \in DOMAIN s : s[i] = n}
Occ(s, n) == Cardinality(SlotsOf(s, n))

Subst(s, old, new) == [i \in DOMAIN s |-> IF s[i] = old THEN new ELSE s[i]]

DropAt(s, i) == [j \in 1..(Len(s) - 1) |-> IF j < i THEN s[j] ELSE s[j + 1]]

-----------------------------------------------------------------------------
(* Maintenance of the use arrays.                                          *)

\* Deliberately wrong variants, for mutation checks only: a lost registration,
\* a release that empties the array, a count decremented although no entry
\* matched.
RegisterNone(k) == {0}
UnregisterAll(m, k) == 0
UnregisterUnderflow(m, k) == m - k

\* How many of k consecutive wil_node_register_use calls take effect.
wil_node_register_use(k) == IF Oom THEN 0..k ELSE {k}

\* What is left of multiplicity m after k wil_node_unregister_use calls: each
\* deletes the first matching entry, or does nothing when there is none.
wil_node_unregister_use(m, k) == IF k <= m THEN m - k ELSE 0

-----------------------------------------------------------------------------
(* Operations.                                                             *)

Init ==
  /\ scenario \in Scenarios
  /\ nodeCount = 0
  /\ inputs = [n \in NodeId |-> <<>>]
  /\ uses = [n \in NodeId |-> [u \in NodeId |-> 0]]
  /\ removed = {}
  /\ verifyError = "none"

\* wil_node_create followed by one wil_node_add_input per operand: every
\* builder of wil_builder.c has this form.  An operand dropped because the
\* input array could not grow is the same as an operand never given.
wil_build_nary(ins) ==
  LET id == nodeCount + 1 IN
  /\ nodeCount < scenario.nodes
  /\ nodeCount' = id
  /\ inputs' = [inputs EXCEPT ![id] = ins]
  /\ \E r \in [NodeId -> 0..Len(ins)] :
       /\ \A n \in NodeId : r[n] \in wil_node_register_use(Occ(ins, n))
       /\ uses' = [n \in NodeId |-> [uses[n] EXCEPT ![id] = @ + r[n]]]
  /\ UNCHANGED <<scenario, removed, verifyError>>

\* The slot is appended first, the reverse use second; the latter may be lost.
wil_node_add_input(node, input) ==
  /\ Len(inputs[node]) < scenario.slots
  /\ inputs' = [inputs EXCEPT ![node] = Append(@, input)]
  /\ \E r \in wil_node_register_use(1) :
       uses' = IF input = NoNode THEN uses
               ELSE [uses EXCEPT ![input][node] = @ + r]
  /\ UNCHANGED <<scenario, nodeCount, removed, verifyError>>

\* Deliberately wrong variant: the use is released from the node's own array.
ReleasedFromUser(old, node) ==
  IF old = NoNode THEN uses
  ELSE [uses EXCEPT ![node][old] = wil_node_unregister_use(@, 1)]

\* uses after one slot of node stops holding old.
Released(old, node) ==
  IF old = NoNode THEN uses
  ELSE [uses EXCEPT ![old][node] = wil_node_unregister_use(@, 1)]

wil_node_replace_input(node, i, new) ==
  LET old == inputs[node][i]
      rel == Released(old, node)
      \* the entry just freed is reused: no growth is needed
      grown == IF old = new /\ rel # uses THEN {1} ELSE wil_node_register_use(1)
  IN
  /\ inputs' = [inputs EXCEPT ![node] = [@ EXCEPT ![i] = new]]
  /\ \E r \in grown :
       uses' = IF new = NoNode THEN rel
               ELSE [rel EXCEPT ![new][node] = @ + r]
  /\ UNCHANGED <<scenario, nodeCount, removed, verifyError>>

wil_node_remove_input(node, i) ==
  /\ inputs' = [inputs EXCEPT ![node] = DropAt(@, i)]
  /\ uses' = Released(inputs[node][i], node)
  /\ UNCHANGED <<scenario, nodeCount, removed, verifyError>>

\* Deliberately wrong variant: the snapshot misses the last user.
UsersButOne(old) ==
  LET U == {u \in NodeId : uses[old][u] > 0}
  IN  IF U = {} THEN {} ELSE U \ {CHOOSE u \in U : \A v \in U : v <= u}

\* The users the loop visits: a snapshot of old->uses.
Users(old) == {u \in NodeId : uses[old][u] > 0}

\* For every listed user, every slot that holds old is switched to new by
\* wil_node_replace_input.  A no-op when old = new, or when the snapshot
\* cannot be allocated.
wil_node_replace_all_uses(old, new) ==
  LET U == Users(old) IN
  /\ old # new
  /\ inputs' = [u \in NodeId |-> IF u \in U THEN Subst(inputs[u], old, new)
                                 ELSE inputs[u]]
  /\ \E r \in [NodeId -> 0..MaxInputs] :
       /\ \A u \in NodeId :
            r[u] \in wil_node_register_use(IF u \in U THEN Occ(inputs[u], old)
                                           ELSE 0)
       /\ uses' = [uses EXCEPT
            ![old] = [u \in NodeId |->
                        IF u \in U
                        THEN wil_node_unregister_use(@[u], Occ(inputs[u], old))
                        ELSE @[u]],
            ![new] = [u \in NodeId |-> @[u] + r[u]]]
  /\ UNCHANGED <<scenario, nodeCount, removed, verifyError>>

\* Deliberately wrong variant: only the node's own inputs are looked at.
UnusedByInputs(node) == \A u \in NodeId : u # node => uses[u][node] = 0

\* node->use_count = 0.
Unused(node) == \A u \in NodeId : uses[node][u] = 0

\* Refused while the use array is not empty; otherwise all slots go, last
\* first, and the node stays in the node table with the REMOVED flag.
wil_node_remove(node) ==
  /\ Unused(node)
  /\ inputs' = [inputs EXCEPT ![node] = <<>>]
  /\ uses' = [n \in NodeId |-> [uses[n] EXCEPT ![node] =
                wil_node_unregister_use(@, Occ(inputs[node], n))]]
  /\ removed' = removed \cup {node}
  /\ UNCHANGED <<scenario, nodeCount, verifyError>>

-----------------------------------------------------------------------------
(* Verification (wil_validate.c).                                          *)

SlotError(n, i) ==
  IF inputs[n][i] = NoNode THEN "null_input"
  ELSE IF uses[inputs[n][i]][n] = 0 THEN "missing_use" ELSE "none"

PhantomUse(n) ==
  \E u \in NodeId : uses[n][u] > 0 /\ \A i \in DOMAIN inputs[u] : inputs[u][i] # n

\* The slots are examined in order, then the uses; the first error is reported.
wil_verify_node(n) ==
  LET bad == {i \in DOMAIN inputs[n] : SlotError(n, i) # "none"} IN
  IF bad # {} THEN SlotError(n, CHOOSE i \in bad : \A j \in bad : i <= j)
  ELSE IF PhantomUse(n) THEN "phantom_use" ELSE "none"

\* Every node of the table is examined, the removed ones included.
wil_verify_graph ==
  LET bad == {n \in 1..nodeCount : wil_verify_node(n) # "none"} IN
  /\ verifyError' = IF bad = {} THEN "none"
                    ELSE wil_verify_node(CHOOSE n \in bad :
                                           \A m \in bad : n <= m)
  /\ UNCHANGED <<scenario, nodeCount, inputs, uses, removed>>

-----------------------------------------------------------------------------
\* Input lists a builder can be given: at most scenario.slots live nodes or NULLs.
Operands == UNION {[1..k -> Live \cup {NoNode}] : k \in 0..scenario.slots}

Next ==
  \/ \E ins \in Operands : wil_build_nary(ins)
  \/ \E node \in Live, input \in Live \cup {NoNode} :
       wil_node_add_input(node, input)
  \/ \E node \in Live : \E i \in DOMAIN inputs[node], new \in Live \cup {NoNode} :
       wil_node_replace_input(node, i, new)
  \/ \E node \in Live : \E i \in DOMAIN inputs[node] :
       wil_node_remove_input(node, i)
  \/ \E old, new \in Live : wil_node_replace_all_uses(old, new)
  \/ \E node \in Live : wil_node_remove(node)
  \/ wil_verify_graph

Spec == Init /\ [][Next]_vars

-----------------------------------------------------------------------------
(* Properties.                                                             *)

\* Types: slots hold nodes or NULL, use bags count, a verification error is
\* one of the messages of wil_verify_node.
TypeOK ==
  /\ scenario \in Scenarios
  /\ nodeCount \in 0..MaxNodes
  /\ inputs \in [NodeId -> Slots]
  /\ uses \in [NodeId -> [NodeId -> Nat]]
  /\ removed \subseteq 1..nodeCount
  /\ verifyError \in {"none", "null_input", "missing_use", "phantom_use"}

\* No use array ever lists a user more often than that user holds the node in
\* a slot, even when allocations fail in the middle of an edit: the walk over
\* the snapshot in wil_node_replace_all_uses never meets a stale user.
NoPhantomUse == \A n, u \in NodeId : uses[n][u] <= Occ(inputs[u], n)

\* As long as allocations succeed the use arrays are exact: every mutator
\* leaves them the mirror image of the input slots, duplicates included.
UsesMirrorInputs ==
  Oom \/ \A n, u \in NodeId : uses[n][u] = Occ(inputs[u], n)

\* A removed node is isolated: it has no inputs and no slot of any node still
\* holds it, although wil_node_remove looks only at the node's own use array.
RemovedIsolated ==
  Oom \/ \A n \in removed : /\ inputs[n] = <<>>
                            /\ \A u \in NodeId : Occ(inputs[u], n) = 0

\* As long as allocations succeed, the only complaint wil_verify_graph can
\* ever raise about a graph edited through the mutators is a NULL operand.
VerifyBlamesOnlyNulls == Oom \/ verifyError \in {"none", "null_input"}

\* Verification never reports a use without a matching input, whatever fails.
VerifyNeverPhantom == verifyError # "phantom_use"

\* The specification the graph implements: use lists forgotten.
Graph == INSTANCE ValueGraph

\* While allocations succeed, editing through the use lists has the effect of
\* editing the whole graph: replace_all_uses is a substitution everywhere and
\* only a node no slot holds is removed.
ImplementsValueGraph ==
  Graph!Init /\ [][~Oom => [Graph!Next]_(Graph!vars)]_vars
=============================================================================
