------------------------------ MODULE SexpTree ------------------------------
(***************************************************************************)
(* The tree that the S-expression reader makes of a text, and what its     *)
(* users ask of it (sexp_reader.c).  A text is a sequence of tokens:       *)
(* parentheses and words.  A node of the tree is the position of its first *)
(* token; 0 is the null pointer.                                           *)
(***************************************************************************)
EXTENDS Integers, Sequences, FiniteSetsExt

NoTree == [text |-> <<>>, kids |-> <<>>]

\* t is the tree of a first part of the text s: the elements of a list are
\* behind its parenthesis.
IsTreeOf(t, s) ==
  /\ t.text \in Seq(STRING) /\ t.text # <<>> /\ DOMAIN t.text \subseteq DOMAIN s
  /\ \A i \in DOMAIN t.text : t.text[i] = s[i]
  /\ DOMAIN t.kids = DOMAIN t.text
  /\ \A i \in DOMAIN t.text : t.kids[i] \in Seq((i + 1)..Len(t.text))

\* wirble_sexp_wrap_input: the whole file becomes one list.
wirble_sexp_wrap_input(text) == <<"(">> \o text \o <<")">>

wirble_sexp_node_is_list(t, i) == i # 0 /\ t.text[i] = "("
wirble_sexp_node_is_atom(t, i) == i # 0 /\ t.text[i] # "("
wirble_sexp_atom_equals(t, i, word) == wirble_sexp_node_is_atom(t, i) /\ t.text[i] = word

wirble_sexp_node_child(t, i, n) ==
  IF wirble_sexp_node_is_list(t, i) /\ n < Len(t.kids[i]) THEN t.kids[i][n + 1] ELSE 0

\* node->text, which a list has not.
Text(t, i) == IF wirble_sexp_node_is_atom(t, i) THEN t.text[i] ELSE ""

\* Where a word stands among the children, behind the first.
Places(t, i, keyword) == {n \in 2..Len(t.kids[i]) : t.text[t.kids[i][n]] = keyword}

\* Deliberately wrong variant: the last place counts.
FindLast(t, i, keyword) ==
  LET places == Places(t, i, keyword)
  IN IF places = {} THEN 0 ELSE wirble_sexp_node_child(t, i, Max(places))

\* The child after the first place of the keyword.
wirble_sexp_list_find_keyword(t, i, keyword) ==
  LET places == Places(t, i, keyword)
  IN IF places = {} THEN 0 ELSE wirble_sexp_node_child(t, i, Min(places))

wirble_sexp_extract_rule(t, form) ==
  [name |-> wirble_sexp_list_find_keyword(t, form, ":name"),
   match |-> wirble_sexp_list_find_keyword(t, form, ":match"),
   replace |-> wirble_sexp_list_find_keyword(t, form, ":replace"),
   condition |-> wirble_sexp_list_find_keyword(t, form, ":when")]

Complete(view) == view.match # 0 /\ view.replace # 0

\* A form the loaders take for a rule; its second child decides a strategy.
IsForm(t, form, word) ==
  /\ wirble_sexp_node_is_list(t, form)
  /\ wirble_sexp_atom_equals(t, wirble_sexp_node_child(t, form, 0), word)
=============================================================================
