----------------------------- MODULE ValueGraph -----------------------------
(***************************************************************************)
(* What the WIL graph promises the passes that edit it: a store of nodes   *)
(* whose only content is the list of inputs of each node.  There are no    *)
(* use lists here; "the uses of n" simply are the slots that hold n, a     *)
(* replacement is a substitution in the whole graph, and only a node that  *)
(* no slot holds can be removed.  WILGraph implements this specification   *)
(* with cached use lists.                                                  *)
(***************************************************************************)
EXTENDS Naturals, Sequences

CONSTANTS MaxNodes,   \* bound on the nodes created in one context
          MaxInputs   \* bound on the input slots of a node

NodeId == 1..MaxNodes
NoNode == 0           \* the NULL node pointer

VARIABLES nodeCount,  \* nodes 1..nodeCount exist
          inputs,     \* inputs[n]: the sequence of input slots of node n
          removed     \* nodes taken out of the graph

vars == <<nodeCount, inputs, removed>>

Live == {n \in 1..nodeCount : n \notin removed}

\* The sequence s with every slot that holds `old` holding `new` instead.
Subst(s, old, new) == [i \in DOMAIN s |-> IF s[i] = old THEN new ELSE s[i]]

\* The sequence s without its i-th element.
DropAt(s, i) == [j \in 1..(Len(s) - 1) |-> IF j < i THEN s[j] ELSE s[j + 1]]

Holds(n, m) == \E i \in DOMAIN inputs[n] : inputs[n][i] = m

Init ==
  /\ nodeCount = 0
  /\ inputs = [n \in NodeId |-> <<>>]
  /\ removed = {}

Create(ins) ==
  /\ nodeCount < MaxNodes
  /\ nodeCount' = nodeCount + 1
  /\ inputs' = [inputs EXCEPT ![nodeCount + 1] = ins]
  /\ UNCHANGED removed

AddInput(n, m) ==
  /\ inputs' = [inputs EXCEPT ![n] = Append(@, m)]
  /\ UNCHANGED <<nodeCount, removed>>

ReplaceInput(n, i, m) ==
  /\ inputs' = [inputs EXCEPT ![n] = [@ EXCEPT ![i] = m]]
  /\ UNCHANGED <<nodeCount, removed>>

RemoveInput(n, i) ==
  /\ inputs' = [inputs EXCEPT ![n] = DropAt(@, i)]
  /\ UNCHANGED <<nodeCount, removed>>

\* Every slot of the graph that holds `old`, whoever owns it, is rewritten.
Substitute(old, new) ==
  /\ inputs' = [n \in NodeId |-> Subst(inputs[n], old, new)]
  /\ UNCHANGED <<nodeCount, removed>>

Remove(n) ==
  /\ \A m \in NodeId : ~Holds(m, n)
  /\ inputs' = [inputs EXCEPT ![n] = <<>>]
  /\ removed' = removed \cup {n}
  /\ UNCHANGED nodeCount

Operands == UNION {[1..k -> Live \cup {NoNode}] : k \in 0..MaxInputs}

Next ==
  \/ \E ins \in Operands : Create(ins)
  \/ \E n \in Live, m \in Live \cup {NoNode} : AddInput(n, m)
  \/ \E n \in Live : \E i \in DOMAIN inputs[n], m \in Live \cup {NoNode} :
       ReplaceInput(n, i, m)
  \/ \E n \in Live : \E i \in DOMAIN inputs[n] : RemoveInput(n, i)
  \/ \E old, new \in Live : Substitute(old, new)
  \/ \E n \in Live : Remove(n)

Spec == Init /\ [][Next]_vars
=============================================================================
