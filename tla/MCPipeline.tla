----------------------------- MODULE MCPipeline -----------------------------
(***************************************************************************)
(* Pipeline on 3-bit words.                                                *)
(***************************************************************************)
EXTENDS Pipeline

C == INSTANCE CWord WITH Width <- 3

MCWord == C!Words
MCNarrow(x) == C!Wrap(x)
MCUnaryInt(op, x) == C!UnaryWord(op, x)
MCBinaryInt(op, x, y) == C!BinaryWord(op, x, y)
MCTraps(op, x, y) == C!TrapsWord(op, x, y)

MCScope(ks, cs, as, nodes, params, max, regMax) ==
  [kinds |-> ks, consts |-> cs, args |-> as, nodes |-> nodes,
   params |-> params, rewrites |-> max, regMax |-> regMax]

\* All operators; a register file that runs out; a replacement; XOR.
MCAll == MCScope((UnaryKinds \cup BinaryKinds) \ {"XOR"}, {0, 9}, {-4, 3}, 4, 1, 0, 7)
MCTight == MCScope({"SUB"}, {0}, {3}, 5, 2, 1, 3)
MCRewrite == MCScope({"SUB", "NEG"}, {9}, {1, 2}, 4, 2, 1, 7)
MCXor == MCScope({"XOR"}, {}, {3}, 4, 1, 0, 7)

\* Level 2 with verification, the default; level 0 without.
MCOptions(scopes) ==
  {[optimize |-> on, verifyIR |-> on, scope |-> scope] : on \in BOOLEAN, scope \in scopes}

MCAllOptions == MCOptions({MCAll, MCTight})
MCRewriteOptions == MCOptions({MCRewrite})
MCXorOptions == MCOptions({MCXor})
=============================================================================
