--------------------------- MODULE MCBlockLayout ---------------------------
(***************************************************************************)
(* BlockLayout for one function of three blocks with any control flow, and *)
(* for two functions of two blocks, whose ids coincide.                    *)
(***************************************************************************)
EXTENDS BlockLayout

T(op, targets) == [op |-> op, targets |-> targets]
Plain == {T(op, <<>>) : op \in {"EMPTY", "NONE", "RET"}}
Branches == {T("BR", <<i>>) : i \in 0..2} \cup {T("CBR", <<i, (i + 1) % 3>>) : i \in 0..2}
B(fn, id, term) == [fn |-> fn, id |-> id, term |-> term]

MCPrograms ==
  { <<B(1, 0, t), B(1, 1, u), B(1, 2, v)>> : t, u, v \in Plain \cup Branches } \cup
  { <<B(1, 0, t), B(1, 1, u), B(2, 0, v), B(2, 1, t)>> : t, u, v \in Plain \cup {T("BR", <<0>>), T("BR", <<1>>)} }

MCEndings == {T("RET", <<>>), T("BR", <<0>>), T("BR", <<7>>)}
=============================================================================
