------------------------------- MODULE MCWVM -------------------------------
(***************************************************************************)
(* WVM on 2-bit words and a stack that starts with two slots.              *)
(***************************************************************************)
EXTENDS WVM

C == INSTANCE CWord WITH Width <- 2

MCWord == C!Words
MCUnaryInt(op, x) == C!UnaryWord(op, x)
MCBinaryInt(op, x, y) == C!BinaryWord(op, x, y)
MCTraps(op, x, y) == C!TrapsWord(op, x, y)

I(op, a, b, c, k) == [op |-> op, a |-> a, b |-> b, c |-> c, k |-> k]
P(n, code) == [regCount |-> n, consts |-> <<FromInt(-2)>>, instrs |-> code]

\* Straight-line code, one prototype per binary opcode: -2 and register 0.
Binaries == {P(3, <<I("LOAD_CONST", 1, 0, 0, 0), I(op, 2, 1, 0, 0), I("RETURN", 2, 0, 0, 0)>>) :
               op \in BinaryOps}

\* Branches, in and out of the code; a loop; a condition above the frame.
Branches ==
  { P(2, <<I("JUMP_IF_TRUE", 0, 0, 0, 2), I("LOAD_NIL", 1, 0, 0, 0), I("MOVE", 0, 1, 0, 0),
           I("JUMP", 0, 0, 0, 5)>>),
    P(2, <<I("JUMP_IF_FALSE", 1, 0, 0, 2), I("LOAD_TRUE", 0, 0, 0, 0), I("JUMP", 0, 0, 0, -4),
           I("RETURN", 1, 0, 0, 0)>>),
    P(1, <<I("NOP", 0, 0, 0, 0), I("JUMP", 0, 0, 0, -1)>>),
    P(1, <<I("JUMP_IF_TRUE", 2, 0, 0, 2), I("HALT", 0, 0, 0, 0), I("LOAD_FALSE", 0, 0, 0, 0)>>),
    P(1, <<I("JUMP_IF_FALSE", 9, 0, 0, 2), I("HALT", 0, 0, 0, 0), I("LOAD_IMM", 0, 0, 0, 1)>>) }

Unaries == {P(2, <<I(op, 1, 0, 0, 0), I("RETURN", 1, 0, 0, 0)>>) : op \in UnaryOps}

\* Code that verification refuses, or lets through to the default case.
Faulty ==
  { P(0, <<>>), P(1, <<I("BAD", 0, 0, 0, 0)>>), P(1, <<I("MOVE", 1, 0, 0, 0), I("HALT", 0, 0, 0, 0)>>),
    P(1, <<I("MOVE", 0, 1, 0, 0)>>), P(2, <<I("ADD", 0, 1, 2, 0)>>), P(1, <<I("LOAD_CONST", 0, 0, 0, 1)>>),
    P(0, <<I("LOAD_TRUE", 0, 0, 0, 0)>>), P(1, <<I("CALL", 0, 0, 0, 0)>>), P(1, <<I("GUARD_TYPE", 7, 7, 7, 7)>>),
    P(0, <<I("HALT", 0, 0, 0, 0)>>) }

MCPrototypes == Binaries \cup Branches \cup Unaries \cup Faulty
MCHostValues == {FromInt(-1), True}
MCHostRegs == {0, 4}
=============================================================================
