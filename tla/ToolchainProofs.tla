--------------------------- MODULE ToolchainProofs ---------------------------
(***************************************************************************)
(* Proofs about Toolchain, for any number of jobs, whatever the faults of  *)
(* a scenario and the orders in which the tools move.                      *)
(***************************************************************************)
EXTENDS Toolchain, NumberFacts

-----------------------------------------------------------------------------
(* The inductive invariant.                                                *)

Fields == {"stage", "heap", "held", "code", "proto", "size", "data", "touched", "line", "level", "printed"}
Artifacts == {Plan[i] : i \in DOMAIN Plan}

\* The objects some pointers of a tool lead to.
Owned(held) == {Pointee(p) : p \in held}

\* What is live is what one pointer leads to; an object that points to another
\* is not there without it.
Tidy(l) ==
  /\ l.held \subseteq Objects \cup {"proto"} /\ ~({"proto", "wvmPrototype"} \subseteq l.held)
  /\ \A a \in Objects : l.heap[a] = IF a \in Owned(l.held) THEN "live" ELSE "none"
  /\ \A a, b \in Objects : a \in Owned(l.held) /\ PointsInto(a, b) => b \in Owned(l.held)

\* The source text is the tool's, unless it comes from a line.
Text(t) == IF Interactive(t) THEN {} ELSE {"source"}

\* The pointers a tool may have at a stage.
Holds(t, l) ==
  /\ l.stage \in {"args", "read", "repl", "done"} => l.held = {}
  /\ l.stage = "compile" => l.held \subseteq Text(t)
  /\ l.stage = "create" => l.held \subseteq Text(t) \cup (IF t = "wvm-run" THEN {} ELSE {"proto"})
  /\ l.stage \in {"open", "write"} => l.held \subseteq {"source", "vm", "proto"} \cup (Artifacts \ {"wrs", "mrs"})
  /\ l.stage \in {"size", "fread"} => l.held \subseteq Text(t) \cup {"vm"}
  /\ l.stage \in {"execute", "run"} => l.held \subseteq Text(t) \cup {"vm", "proto"}

\* A tool that has opened its output fails no more.
Outcome(t, l) ==
  /\ l.stage \in {"args", "read", "compile", "create", "open", "write", "size", "fread", "execute", "run",
                  "repl", "done", "killed"}
  /\ l.stage = "read" => ~Interactive(t)
  /\ l.stage = "repl" => t = "iwirble"
  /\ l.stage \in {"read", "compile"} => t # "wvm-run"
  /\ l.stage \in {"open", "write"} => t \in Compilers
  /\ l.stage \in {"size", "fread"} => t = "wvm-run"
  /\ l.stage \in {"execute", "run"} => t \notin Compilers
  /\ l.code = 1 => l.stage = "done"
  /\ l.touched \in BOOLEAN
  /\ l.touched => l.stage \in {"write", "done", "killed"} /\ l.code # 1

LocalOK(t, l) == DOMAIN l = Fields /\ Tidy(l) /\ Holds(t, l) /\ Outcome(t, l)

OwnInv ==
  /\ scenario \in Scenarios
  /\ DOMAIN local = Tools /\ \A t \in Tools : LocalOK(t, local[t])

-----------------------------------------------------------------------------
(* The heap.                                                               *)

\* The fields that allocating and freeing leave alone.
Same(m, l) ==
  /\ DOMAIN m = Fields /\ m.stage = l.stage /\ m.code = l.code /\ m.touched = l.touched
  /\ m.data = l.data /\ m.size = l.size /\ m.proto = l.proto

LEMMA ObjectNames ==
  /\ Artifacts = {"expr", "wilContext", "wrs", "malModule", "mrs", "mdsMachine", "mdsSelector",
                  "mdsProgram", "tosProgram", "tosContext", "wvmPrototype"}
  /\ Objects = Artifacts \cup {"source", "errorMessage", "vm"}
  /\ Len(Plan) = 11 /\ "proto" \notin Objects
<1>1. DOMAIN Plan = 1..11 /\ Len(Plan) = 11
  BY DEF Plan
<1>2. 1..11 = {1, 2, 3, 4, 5, 6, 7, 8, 9, 10, 11}
  OBVIOUS
<1>3. Artifacts = {Plan[1], Plan[2], Plan[3], Plan[4], Plan[5], Plan[6], Plan[7], Plan[8], Plan[9], Plan[10], Plan[11]}
  BY <1>1, <1>2 DEF Artifacts
<1>4. Artifacts = {"expr", "wilContext", "wrs", "malModule", "mrs", "mdsMachine", "mdsSelector",
                   "mdsProgram", "tosProgram", "tosContext", "wvmPrototype"}
  BY <1>3 DEF Plan
<1>5. Objects = Artifacts \cup {"source", "errorMessage", "vm"}
  BY DEF Objects, Artifacts
<1> QED BY <1>1, <1>4, <1>5

\* What the heap and the pointers say is all that is asked.
LEMMA TidyKept ==
  ASSUME NEW m, NEW l, Tidy(l), m.heap = l.heap, m.held = l.held
  PROVE  Tidy(m)
BY DEF Tidy

\* Two pointers to one object are the caller's and the artifact's to the prototype.
LEMMA PointeeFacts ==
  ASSUME NEW held, held \subseteq Objects \cup {"proto"}, ~({"proto", "wvmPrototype"} \subseteq held)
  PROVE  /\ \A p, q \in held : Pointee(p) = Pointee(q) => p = q
         /\ Owned(held) \subseteq Objects
         /\ \A a \in Objects \ {"wvmPrototype"} : a \in Owned(held) <=> a \in held
         /\ "wvmPrototype" \in Owned(held) <=> ("proto" \in held \/ "wvmPrototype" \in held)
BY ObjectNames DEF Pointee, Owned

LEMMA AllocateFacts ==
  ASSUME NEW l, DOMAIN l = Fields, Tidy(l), NEW objects, objects \subseteq Objects,
         objects \cap Owned(l.held) = {},
         \A a \in objects : \A b \in Objects : PointsInto(a, b) => b \in objects \cup Owned(l.held)
  PROVE  /\ Tidy(Allocate(l, objects)) /\ Same(Allocate(l, objects), l)
         /\ Allocate(l, objects).held = l.held \cup objects
<1> DEFINE new == [a \in Objects |-> IF a \notin objects THEN l.heap[a]
                                     ELSE IF l.heap[a] = "live" THEN "bad" ELSE "live"]
<1>1. PICK m : m = Allocate(l, objects)
  OBVIOUS
<1>2. m = [l EXCEPT !.heap = new, !.held = l.held \cup objects]
  BY <1>1 DEF Allocate
<1>3. m.heap = new /\ m.held = l.held \cup objects /\ Same(m, l)
  <2> HIDE DEF new
  <2> QED BY <1>2 DEF Same, Fields
<1>4. /\ l.held \subseteq Objects \cup {"proto"} /\ ~({"proto", "wvmPrototype"} \subseteq l.held)
      /\ "proto" \in l.held => "wvmPrototype" \in Owned(l.held)
      /\ "wvmPrototype" \in l.held => "wvmPrototype" \in Owned(l.held)
  BY PointeeFacts DEF Tidy
<1>5. m.held \subseteq Objects \cup {"proto"} /\ ~({"proto", "wvmPrototype"} \subseteq m.held)
  BY <1>3, <1>4, ObjectNames
<1>6. Owned(m.held) = Owned(l.held) \cup objects
  <2>1. \A a \in objects : Pointee(a) = a
    BY ObjectNames DEF Pointee
  <2> QED BY <1>3, <2>1 DEF Owned
<1>7. ASSUME NEW a \in Objects PROVE m.heap[a] = IF a \in Owned(m.held) THEN "live" ELSE "none"
  <2>1. m.heap[a] = IF a \notin objects THEN l.heap[a] ELSE IF l.heap[a] = "live" THEN "bad" ELSE "live"
    BY <1>3
  <2>2. l.heap[a] = IF a \in Owned(l.held) THEN "live" ELSE "none"
    BY DEF Tidy
  <2> QED BY <1>6, <2>1, <2>2
<1>8. \A a, b \in Objects : a \in Owned(m.held) /\ PointsInto(a, b) => b \in Owned(m.held)
  BY <1>6 DEF Tidy
<1>9. Tidy(m)
  BY <1>5, <1>7, <1>8 DEF Tidy
<1> QED BY <1>1, <1>3, <1>9

\* Freeing pointers in an order that keeps every object's targets until it has gone.
InOrder(l, pointers) ==
  /\ \A i, j \in DOMAIN pointers : pointers[i] = pointers[j] => i = j
  /\ \A i \in DOMAIN pointers : pointers[i] \in l.held =>
       /\ \A a \in Owned(l.held) : PointsInto(a, Pointee(pointers[i])) =>
            \E j \in DOMAIN pointers : j < i /\ pointers[j] = a /\ a \in l.held
       /\ \A j \in DOMAIN pointers : j < i => ~PointsInto(Pointee(pointers[i]), Pointee(pointers[j]))

LEMMA FreeFacts ==
  ASSUME NEW l, DOMAIN l = Fields, Tidy(l), NEW S, NEW pointers \in Seq(S), InOrder(l, pointers)
  PROVE  /\ Tidy(Free(l, pointers)) /\ Same(Free(l, pointers), l)
         /\ Free(l, pointers).held = l.held \ {pointers[i] : i \in DOMAIN pointers}
<1> DEFINE gone == {pointers[i] : i \in DOMAIN pointers}
           Is(x) == {i \in DOMAIN pointers : pointers[i] \in l.held /\ Pointee(pointers[i]) = x}
           new == [x \in Objects |-> IF Is(x) = {} THEN l.heap[x]
                                     ELSE IF \A i \in Is(x) : MayFree(l, pointers, i) THEN "none" ELSE "bad"]
<1>1. PICK m : m = Free(l, pointers)
  OBVIOUS
<1>2. m = [l EXCEPT !.heap = new, !.held = l.held \ gone]
  BY <1>1 DEF Free
<1>3. m.heap = new /\ m.held = l.held \ gone /\ Same(m, l)
  <2> HIDE DEF new, gone
  <2> QED BY <1>2 DEF Same, Fields
<1>4. /\ l.held \subseteq Objects \cup {"proto"} /\ ~({"proto", "wvmPrototype"} \subseteq l.held)
      /\ \A p, q \in l.held : Pointee(p) = Pointee(q) => p = q
      /\ Owned(l.held) \subseteq Objects
  <2>1. l.held \subseteq Objects \cup {"proto"} /\ ~({"proto", "wvmPrototype"} \subseteq l.held)
    BY DEF Tidy
  <2> QED BY <2>1, PointeeFacts
<1>5. m.held \subseteq Objects \cup {"proto"} /\ ~({"proto", "wvmPrototype"} \subseteq m.held)
  BY <1>3, <1>4
<1>6. \A a : a \in Owned(m.held) <=> a \in Owned(l.held) /\ Is(a) = {}
  <2>1. ASSUME NEW a, a \in Owned(m.held) PROVE a \in Owned(l.held) /\ Is(a) = {}
    <3>1. PICK p \in m.held : a = Pointee(p)
      BY <2>1 DEF Owned
    <3>2. p \in l.held /\ p \notin gone
      BY <1>3, <3>1
    <3>3. ASSUME NEW i \in Is(a) PROVE FALSE
      <4>1. pointers[i] = p
        BY <1>4, <3>1, <3>2, <3>3
      <4> QED BY <3>2, <4>1
    <3> QED BY <3>1, <3>2, <3>3 DEF Owned
  <2>2. ASSUME NEW a, a \in Owned(l.held), Is(a) = {} PROVE a \in Owned(m.held)
    <3>1. PICK p \in l.held : a = Pointee(p)
      BY <2>2 DEF Owned
    <3>2. p \notin gone
      BY <2>2, <3>1
    <3> QED BY <1>3, <3>1, <3>2 DEF Owned
  <2> QED BY <2>1, <2>2
<1>7. ASSUME NEW x \in Objects, NEW i \in Is(x) PROVE MayFree(l, pointers, i)
  <2> DEFINE freed == FreedBefore(l, pointers, i)
             live == {a \in Objects : l.heap[a] = "live"} \ freed
  <2>1. i \in DOMAIN pointers /\ pointers[i] \in l.held /\ Pointee(pointers[i]) = x /\ i \in Nat /\ x \in Owned(l.held)
    <3>1. i \in DOMAIN pointers /\ pointers[i] \in l.held /\ Pointee(pointers[i]) = x
      BY <1>7
    <3>2. i \in Nat
      BY <3>1
    <3> QED BY <3>1, <3>2 DEF Owned
  <2>2. \A a \in Objects : l.heap[a] = "live" <=> a \in Owned(l.held)
    BY DEF Tidy
  <2>3. \A j \in 1..(i - 1) : j \in DOMAIN pointers /\ j < i /\ j # i
    BY <2>1
  <2>4. x \in live
    <3>1. ASSUME NEW j \in 1..(i - 1), pointers[j] \in l.held PROVE Pointee(pointers[j]) # x
      <4>1. pointers[j] # pointers[i]
        BY <2>1, <2>3 DEF InOrder
      <4> QED BY <1>4, <2>1, <3>1, <4>1
    <3>2. x \notin freed
      BY <3>1 DEF FreedBefore
    <3> QED BY <2>1, <2>2, <3>2
  <2>5. ASSUME NEW a \in live PROVE ~PointsInto(a, x)
    <3>1. a \in Owned(l.held) /\ a \notin freed
      BY <2>2, <2>5
    <3>2. ASSUME PointsInto(a, x) PROVE FALSE
      <4>1. PICK j \in DOMAIN pointers : j < i /\ pointers[j] = a /\ a \in l.held
        BY <2>1, <3>1, <3>2 DEF InOrder
      <4>2. j \in 1..(i - 1)
        BY <2>1, <4>1
      <4>3. Pointee(a) = a
        BY <3>2 DEF PointsInto, Pointee
      <4>4. a \in freed
        BY <4>1, <4>2, <4>3 DEF FreedBefore
      <4> QED BY <3>1, <4>4
    <3> QED BY <3>2
  <2>6. ASSUME NEW b \in Objects, PointsInto(x, b) PROVE b \in live
    <3>1. b \in Owned(l.held)
      BY <2>1, <2>6 DEF Tidy
    <3>2. ASSUME NEW j \in 1..(i - 1), pointers[j] \in l.held PROVE Pointee(pointers[j]) # b
      BY <2>1, <2>3, <2>6 DEF InOrder
    <3>3. b \notin freed
      BY <3>2 DEF FreedBefore
    <3> QED BY <2>2, <3>1, <3>3
  <2> QED BY <2>1, <2>4, <2>5, <2>6 DEF MayFree
<1>8. ASSUME NEW a \in Objects PROVE m.heap[a] = IF a \in Owned(m.held) THEN "live" ELSE "none"
  <2>1. l.heap[a] = IF a \in Owned(l.held) THEN "live" ELSE "none"
    BY DEF Tidy
  <2>2. m.heap[a] = IF Is(a) = {} THEN l.heap[a]
                    ELSE IF \A i \in Is(a) : MayFree(l, pointers, i) THEN "none" ELSE "bad"
    BY <1>3
  <2>3. m.heap[a] = IF Is(a) = {} THEN l.heap[a] ELSE "none"
    BY <1>7, <2>2
  <2> QED BY <1>6, <2>1, <2>3
<1>9. ASSUME NEW a \in Objects, NEW b \in Objects, a \in Owned(m.held), PointsInto(a, b) PROVE b \in Owned(m.held)
  <2>1. a \in Owned(l.held) /\ Is(a) = {} /\ b \in Owned(l.held)
    BY <1>6, <1>9 DEF Tidy
  <2>2. ASSUME NEW i \in Is(b) PROVE FALSE
    <3>1. PICK j \in DOMAIN pointers : pointers[j] = a /\ a \in l.held
      BY <1>9, <2>1, <2>2 DEF InOrder
    <3>2. Pointee(a) = a
      BY <1>9 DEF PointsInto, Pointee
    <3>3. j \in Is(a)
      BY <3>1, <3>2
    <3> QED BY <2>1, <3>3
  <2> QED BY <1>6, <2>1, <2>2
<1>10. Tidy(m)
  BY <1>5, <1>8, <1>9 DEF Tidy
<1> QED BY <1>1, <1>3, <1>10

-----------------------------------------------------------------------------
(* The sequences that the code frees.                                      *)

\* Objects that point to nothing and that nothing points to may go in any order.
LEMMA PlainFree ==
  ASSUME NEW l, DOMAIN l = Fields, Tidy(l), NEW S, NEW pointers \in Seq(S),
         \A i, j \in DOMAIN pointers : pointers[i] = pointers[j] => i = j,
         \A i \in DOMAIN pointers : pointers[i] \in {"source", "errorMessage", "vm", "proto"}
  PROVE  /\ Tidy(Free(l, pointers)) /\ Same(Free(l, pointers), l)
         /\ Free(l, pointers).held = l.held \ {pointers[i] : i \in DOMAIN pointers}
<1>1. \A i \in DOMAIN pointers : Pointee(pointers[i]) \in {"source", "errorMessage", "vm", "wvmPrototype"}
  BY DEF Pointee
<1>2. \A a : \A x \in {"source", "errorMessage", "vm", "wvmPrototype"} : ~PointsInto(a, x) /\ ~PointsInto(x, a)
  BY DEF PointsInto
<1>3. InOrder(l, pointers)
  BY <1>1, <1>2 DEF InOrder
<1> QED BY <1>3, FreeFacts

LEMMA FreeError ==
  ASSUME NEW l, DOMAIN l = Fields, Tidy(l)
  PROVE  /\ Tidy(Free(l, <<"errorMessage">>)) /\ Same(Free(l, <<"errorMessage">>), l)
         /\ Free(l, <<"errorMessage">>).held = l.held \ {"errorMessage"}
<1>1. PICK p \in Seq({"errorMessage"}) : p = <<"errorMessage">>
  <2>1. <<"errorMessage">> \in Seq({"errorMessage"})
    OBVIOUS
  <2> QED BY <2>1
<1>2. DOMAIN p = {1} /\ p[1] = "errorMessage"
  BY <1>1
<1>3. {p[i] : i \in DOMAIN p} = {"errorMessage"}
  BY <1>2
<1>4. Tidy(Free(l, p)) /\ Same(Free(l, p), l) /\ Free(l, p).held = l.held \ {p[i] : i \in DOMAIN p}
  BY <1>2, PlainFree
<1> QED BY <1>1, <1>3, <1>4

LEMMA FreeShown ==
  ASSUME NEW l, DOMAIN l = Fields, Tidy(l)
  PROVE  /\ Tidy(Free(l, <<"vm", "proto", "errorMessage">>)) /\ Same(Free(l, <<"vm", "proto", "errorMessage">>), l)
         /\ Free(l, <<"vm", "proto", "errorMessage">>).held = l.held \ {"vm", "proto", "errorMessage"}
<1>1. PICK p \in Seq({"vm", "proto", "errorMessage"}) : p = <<"vm", "proto", "errorMessage">>
  <2>1. <<"vm", "proto", "errorMessage">> \in Seq({"vm", "proto", "errorMessage"})
    OBVIOUS
  <2> QED BY <2>1
<1>2. DOMAIN p = {1, 2, 3} /\ p[1] = "vm" /\ p[2] = "proto" /\ p[3] = "errorMessage"
  BY <1>1
<1>3. {p[i] : i \in DOMAIN p} = {"vm", "proto", "errorMessage"}
  BY <1>2
<1>4. Tidy(Free(l, p)) /\ Same(Free(l, p), l) /\ Free(l, p).held = l.held \ {p[i] : i \in DOMAIN p}
  BY <1>2, PlainFree
<1> QED BY <1>1, <1>3, <1>4

LEMMA ExitFacts ==
  ASSUME NEW l, DOMAIN l = Fields, Tidy(l), NEW code
  PROVE  /\ Tidy(Exit(l, code)) /\ DOMAIN Exit(l, code) = Fields
         /\ Exit(l, code).held = l.held \ {"source", "errorMessage", "vm", "proto"}
         /\ Exit(l, code).stage = "done" /\ Exit(l, code).code = code
         /\ Exit(l, code).touched = l.touched /\ Exit(l, code).data = l.data
         /\ Exit(l, code).size = l.size
<1>1. PICK p \in Seq({"source", "errorMessage", "vm", "proto"}) : p = <<"source", "errorMessage", "vm", "proto">>
  <2>1. <<"source", "errorMessage", "vm", "proto">> \in Seq({"source", "errorMessage", "vm", "proto"})
    OBVIOUS
  <2> QED BY <2>1
<1>2. DOMAIN p = {1, 2, 3, 4} /\ p[1] = "source" /\ p[2] = "errorMessage" /\ p[3] = "vm" /\ p[4] = "proto"
  BY <1>1
<1>3. {p[i] : i \in DOMAIN p} = {"source", "errorMessage", "vm", "proto"}
  BY <1>2
<1>4. Tidy(Free(l, p)) /\ Same(Free(l, p), l) /\ Free(l, p).held = l.held \ {p[i] : i \in DOMAIN p}
  BY <1>2, PlainFree
<1>5. PICK m : m = Free(l, p)
  OBVIOUS
<1>6. PICK x : x = [m EXCEPT !.stage = "done", !.code = code]
  OBVIOUS
<1>7. Exit(l, code) = x
  BY <1>1, <1>5, <1>6 DEF Exit
<1>8. DOMAIN m = Fields /\ m.touched = l.touched /\ m.data = l.data /\ m.size = l.size
  BY <1>4, <1>5 DEF Same
<1>9. /\ DOMAIN x = Fields /\ x.stage = "done" /\ x.code = code /\ x.touched = m.touched /\ x.data = m.data
      /\ x.size = m.size /\ x.held = m.held /\ x.heap = m.heap
  BY <1>6, <1>8 DEF Fields
<1>10. Tidy(x)
  BY <1>4, <1>5, <1>9 DEF Tidy
<1> QED BY <1>3, <1>4, <1>5, <1>7, <1>8, <1>9, <1>10

\* The rules go before the context the rewrite system is in.
LEMMA FreeRules ==
  ASSUME NEW l, DOMAIN l = Fields, Tidy(l)
  PROVE  /\ Tidy(Free(l, <<"wrs", "mrs">>)) /\ Same(Free(l, <<"wrs", "mrs">>), l)
         /\ Free(l, <<"wrs", "mrs">>).held = l.held \ {"wrs", "mrs"}
<1>1. PICK p \in Seq({"wrs", "mrs"}) : p = <<"wrs", "mrs">>
  <2>1. <<"wrs", "mrs">> \in Seq({"wrs", "mrs"})
    OBVIOUS
  <2> QED BY <2>1
<1>2. DOMAIN p = {1, 2} /\ p[1] = "wrs" /\ p[2] = "mrs"
  BY <1>1
<1>3. {p[i] : i \in DOMAIN p} = {"wrs", "mrs"}
  BY <1>2
<1>4. InOrder(l, p)
  <2>1. \A a : ~PointsInto(a, "wrs") /\ ~PointsInto(a, "mrs")
    BY DEF PointsInto
  <2>2. Pointee("wrs") = "wrs" /\ Pointee("mrs") = "mrs"
    BY DEF Pointee
  <2> QED BY <1>2, <2>1, <2>2 DEF InOrder
<1>5. Tidy(Free(l, p)) /\ Same(Free(l, p), l) /\ Free(l, p).held = l.held \ {p[i] : i \in DOMAIN p}
  BY <1>4, FreeFacts
<1> QED BY <1>1, <1>3, <1>5

\* Programs, selector and TOS context go before the machine description.
LEMMA DestroyFacts ==
  ASSUME NEW l, DOMAIN l = Fields, Tidy(l), "wrs" \notin l.held
  PROVE  /\ Tidy(wirblePipelineArtifactsDestroy(l)) /\ Same(wirblePipelineArtifactsDestroy(l), l)
         /\ wirblePipelineArtifactsDestroy(l).held = l.held \ (Artifacts \ {"wrs", "mrs"})
<1>1. PICK p \in Seq(Artifacts) : p = <<"wvmPrototype", "tosContext", "tosProgram", "mdsProgram", "mdsSelector",
                                     "mdsMachine", "malModule", "wilContext", "expr">>
  <2>1. <<"wvmPrototype", "tosContext", "tosProgram", "mdsProgram", "mdsSelector",
                                     "mdsMachine", "malModule", "wilContext", "expr">> \in Seq(Artifacts)
    BY ObjectNames
  <2> QED BY <2>1
<1>2. /\ DOMAIN p = 1..9 /\ p[1] = "wvmPrototype" /\ p[2] = "tosContext" /\ p[3] = "tosProgram"
      /\ p[4] = "mdsProgram" /\ p[5] = "mdsSelector" /\ p[6] = "mdsMachine" /\ p[7] = "malModule"
      /\ p[8] = "wilContext" /\ p[9] = "expr"
  BY <1>1
<1>3. 1..9 = {1, 2, 3, 4, 5, 6, 7, 8, 9}
  OBVIOUS
<1>4. {p[i] : i \in DOMAIN p} = Artifacts \ {"wrs", "mrs"}
  <2>1. {p[i] : i \in DOMAIN p} = {p[1], p[2], p[3], p[4], p[5], p[6], p[7], p[8], p[9]}
    BY <1>2, <1>3
  <2> QED BY <1>2, <2>1, ObjectNames
<1>5. InOrder(l, p)
  <2>1. \A i, j \in DOMAIN p : p[i] = p[j] => i = j
    BY <1>2, <1>3
  <2>2. \A i \in DOMAIN p : Pointee(p[i]) = p[i]
    BY <1>2, <1>3 DEF Pointee
  <2>3. /\ l.held \subseteq Objects \cup {"proto"} /\ ~({"proto", "wvmPrototype"} \subseteq l.held)
        /\ \A a \in Objects \ {"wvmPrototype"} : a \in Owned(l.held) <=> a \in l.held
        /\ Owned(l.held) \subseteq Objects
    <3>1. l.held \subseteq Objects \cup {"proto"} /\ ~({"proto", "wvmPrototype"} \subseteq l.held)
      BY DEF Tidy
    <3> QED BY <3>1, PointeeFacts
  <2>4. ASSUME NEW i \in DOMAIN p, NEW a \in Owned(l.held), PointsInto(a, p[i])
        PROVE  \E j \in DOMAIN p : j < i /\ p[j] = a /\ a \in l.held
    <3>1. CASE i = 6
      <4>1. a \in {"mdsSelector", "mdsProgram", "tosProgram", "tosContext"}
        BY <1>2, <2>4, <3>1 DEF PointsInto
      <4>2. a \in l.held
        BY <2>3, <4>1, ObjectNames
      <4>3. \E j \in {2, 3, 4, 5} : p[j] = a
        BY <1>2, <4>1
      <4>4. {2, 3, 4, 5} \subseteq DOMAIN p /\ \A j \in {2, 3, 4, 5} : j < i
        BY <1>2, <3>1
      <4> QED BY <4>2, <4>3, <4>4
    <3>2. CASE i = 8
      <4>1. a = "wrs"
        BY <1>2, <2>4, <3>2 DEF PointsInto
      <4> QED BY <2>3, <4>1, ObjectNames
    <3>3. CASE i \in {1, 2, 3, 4, 5, 7, 9}
      <4>1. p[i] \notin {"mdsMachine", "wilContext"}
        BY <1>2, <3>3
      <4> QED BY <2>4, <4>1 DEF PointsInto
    <3> QED BY <1>2, <1>3, <3>1, <3>2, <3>3
  <2>5. ASSUME NEW i \in DOMAIN p, NEW j \in DOMAIN p, j < i, PointsInto(p[i], p[j]) PROVE FALSE
    <3>1. (p[i] = "wrs" \/ p[i] \in {"mdsSelector", "mdsProgram", "tosProgram", "tosContext"})
          /\ p[j] \in {"mdsMachine", "wilContext"}
      BY <2>5 DEF PointsInto
    <3>2. i \in {2, 3, 4, 5}
      BY <1>2, <1>3, <3>1
    <3>3. j \in {6, 8}
      BY <1>2, <1>3, <3>1
    <3> QED BY <2>5, <3>2, <3>3
  <2> QED BY <2>1, <2>2, <2>4, <2>5 DEF InOrder
<1>6. Tidy(Free(l, p)) /\ Same(Free(l, p), l) /\ Free(l, p).held = l.held \ {p[i] : i \in DOMAIN p}
  BY <1>5, FreeFacts
<1>7. wirblePipelineArtifactsDestroy(l) = Free(l, p)
  BY <1>1 DEF wirblePipelineArtifactsDestroy
<1> QED BY <1>4, <1>6, <1>7

\* There is a new message, or none.
LEMMA SetErrorFacts ==
  ASSUME NEW l, DOMAIN l = Fields, Tidy(l), NEW m \in wirble_set_error(l)
  PROVE  Tidy(m) /\ Same(m, l) /\ m.held \subseteq l.held \cup {"errorMessage"}
<1>1. PICK f : f = Free(l, <<"errorMessage">>)
  OBVIOUS
<1>2. Tidy(f) /\ Same(f, l) /\ f.held = l.held \ {"errorMessage"}
  BY <1>1, FreeError
<1>3. m = f \/ m = Allocate(f, {"errorMessage"})
  BY <1>1 DEF wirble_set_error
<1>4. Tidy(Allocate(f, {"errorMessage"})) /\ Same(Allocate(f, {"errorMessage"}), f)
      /\ Allocate(f, {"errorMessage"}).held = f.held \cup {"errorMessage"}
  <2>1. DOMAIN f = Fields /\ {"errorMessage"} \subseteq Objects
    BY <1>2, ObjectNames DEF Same
  <2>2. {"errorMessage"} \cap Owned(f.held) = {}
    <3>1. f.held \subseteq Objects \cup {"proto"} /\ ~({"proto", "wvmPrototype"} \subseteq f.held)
      BY <1>2 DEF Tidy
    <3>2. "errorMessage" \in Objects \ {"wvmPrototype"}
      BY ObjectNames
    <3>3. "errorMessage" \in Owned(f.held) <=> "errorMessage" \in f.held
      BY <3>1, <3>2, PointeeFacts
    <3> QED BY <1>2, <3>3
  <2>3. \A a \in {"errorMessage"} : \A b \in Objects : PointsInto(a, b) => b \in {"errorMessage"} \cup Owned(f.held)
    BY DEF PointsInto
  <2> QED BY <1>2, <2>1, <2>2, <2>3, AllocateFacts
<1> QED BY <1>2, <1>3, <1>4 DEF Same

-----------------------------------------------------------------------------
(* The build.                                                              *)

LEMMA MadeFacts ==
  ASSUME NEW l, DOMAIN l = Fields, Tidy(l), l.held \subseteq {"source"},
         NEW n \in 0..Len(Plan), NEW skipped, skipped \subseteq {"wrs", "mrs"}, NEW level,
         NEW m, m = Made(l, level, n, skipped)
  PROVE  /\ Tidy(m) /\ Same(m, l) /\ m.held \subseteq l.held \cup Artifacts
         /\ n = Len(Plan) => "wvmPrototype" \in m.held
<1>1. PICK left : left = skipped \cup (IF level = 0 THEN {"wrs", "mrs", "tosContext"} ELSE {})
  OBVIOUS
<1>2. left \subseteq {"wrs", "mrs", "tosContext"}
  BY <1>1
<1>3. PICK objects : objects = {Plan[i] : i \in 1..n} \ left
  OBVIOUS
<1>4. m = Allocate(l, objects)
  BY <1>1, <1>3 DEF Made
<1>5. /\ n \in Nat /\ n <= 11 /\ Len(Plan) = 11
      /\ Plan[2] = "wilContext" /\ Plan[3] = "wrs" /\ Plan[6] = "mdsMachine" /\ Plan[11] = "wvmPrototype"
      /\ \A i \in 1..11 : /\ Plan[i] \in Artifacts
                          /\ Plan[i] = "wrs" => i = 3
                          /\ Plan[i] \in {"mdsSelector", "mdsProgram", "tosProgram", "tosContext"} => i > 6
  <2>1. Len(Plan) = 11 /\ DOMAIN Plan = 1..11
    BY ObjectNames DEF Plan
  <2>2. \A i \in 1..11 : Plan[i] \in Artifacts
    BY <2>1 DEF Artifacts
  <2>3. 1..11 = {1, 2, 3, 4, 5, 6, 7, 8, 9, 10, 11}
    OBVIOUS
  <2>4. \A i \in 1..11 : /\ Plan[i] = "wrs" => i = 3
                         /\ Plan[i] \in {"mdsSelector", "mdsProgram", "tosProgram", "tosContext"} => i > 6
    BY <2>3 DEF Plan
  <2>5. Plan[2] = "wilContext" /\ Plan[3] = "wrs" /\ Plan[6] = "mdsMachine" /\ Plan[11] = "wvmPrototype"
    BY DEF Plan
  <2> QED BY <2>1, <2>2, <2>4, <2>5
<1>6. objects \subseteq Artifacts /\ Artifacts \subseteq Objects
  BY <1>3, <1>5, ObjectNames
<1>7. objects \cap Owned(l.held) = {}
  <2>1. Owned(l.held) \subseteq {"source"}
    BY DEF Owned, Pointee
  <2> QED BY <1>6, <2>1, ObjectNames
<1>8. ASSUME NEW a \in objects, NEW b \in Objects, PointsInto(a, b) PROVE b \in objects
  <2>1. PICK i \in 1..n : a = Plan[i]
    BY <1>3
  <2>2. i \in 1..11
    BY <1>5, <2>1
  <2>3. CASE a = "wrs" /\ b = "wilContext"
    <3>1. i = 3
      BY <1>5, <2>1, <2>2, <2>3
    <3>2. 2 \in 1..n
      BY <1>5, <2>1, <3>1
    <3> QED BY <1>2, <1>3, <1>5, <2>3, <3>2
  <2>4. CASE a \in {"mdsSelector", "mdsProgram", "tosProgram", "tosContext"} /\ b = "mdsMachine"
    <3>1. i > 6
      BY <1>5, <2>1, <2>2, <2>4
    <3>2. 6 \in 1..n
      BY <1>5, <2>1, <3>1
    <3> QED BY <1>2, <1>3, <1>5, <2>4, <3>2
  <2> QED BY <1>8, <2>3, <2>4 DEF PointsInto
<1>9. Tidy(m) /\ Same(m, l) /\ m.held = l.held \cup objects
  <2>1. \A a \in objects : \A b \in Objects : PointsInto(a, b) => b \in objects \cup Owned(l.held)
    BY <1>8
  <2> QED BY <1>4, <1>6, <1>7, <2>1, AllocateFacts
<1>10. n = Len(Plan) => "wvmPrototype" \in objects
  <2> SUFFICES ASSUME n = Len(Plan) PROVE "wvmPrototype" \in objects
    OBVIOUS
  <2>1. 11 \in 1..n
    BY <1>5
  <2>2. "wvmPrototype" \notin left
    BY <1>2
  <2> QED BY <1>3, <1>5, <2>1, <2>2
<1> QED BY <1>6, <1>9, <1>10

\* Every outcome of wirbleBuildPipelineArtifacts: all artifacts, or at most a message.
LEMMA BuildFacts ==
  ASSUME NEW l, DOMAIN l = Fields, Tidy(l), l.held \subseteq {"source"}, NEW source, NEW options, NEW level,
         NEW b \in wirbleBuildPipelineArtifacts(l, source, options, level)
  PROVE  /\ Tidy(b.l) /\ Same(b.l, l)
         /\ b.built => /\ b.l.held \subseteq l.held \cup (Artifacts \ {"wrs", "mrs"})
                       /\ "wvmPrototype" \in b.l.held
         /\ ~b.built => b.l.held \subseteq l.held \cup {"errorMessage"}
<1>1. \A skipped \in Optional : skipped \subseteq {"wrs", "mrs"}
  BY DEF Optional
<1>2. \A n \in Stops(source, options, level) : n \in 0..Len(Plan)
  BY ObjectNames DEF Stops
<1>3. ASSUME NEW n \in 0..Len(Plan), NEW skipped \in Optional, NEW m, m = Made(l, level, n, skipped),
             NEW f, f = Free(m, <<"wrs", "mrs">>)
      PROVE  /\ Tidy(f) /\ Same(f, l) /\ f.held \subseteq l.held \cup (Artifacts \ {"wrs", "mrs"})
             /\ n = Len(Plan) => "wvmPrototype" \in f.held
  <2>1. /\ Tidy(m) /\ Same(m, l) /\ m.held \subseteq l.held \cup Artifacts
        /\ n = Len(Plan) => "wvmPrototype" \in m.held
    BY <1>1, <1>3, MadeFacts
  <2>2. DOMAIN m = Fields
    BY <2>1 DEF Same
  <2>3. Tidy(f) /\ Same(f, m) /\ f.held = m.held \ {"wrs", "mrs"}
    BY <1>3, <2>1, <2>2, FreeRules
  <2>4. Same(f, l)
    BY <2>1, <2>3 DEF Same
  <2> QED BY <2>1, <2>3, <2>4
<1>4. CASE ~b.built
  <2>1. PICK n \in Stops(source, options, level), skipped \in Optional :
          \E m \in wirble_set_error(Cleanup(Made(l, level, n, skipped))) : b.l = m
    BY <1>4 DEF wirbleBuildPipelineArtifacts
  <2>2. PICK x : x = Made(l, level, n, skipped)
    OBVIOUS
  <2>3. PICK f : f = Free(x, <<"wrs", "mrs">>)
    OBVIOUS
  <2>4. PICK d : d = wirblePipelineArtifactsDestroy(f)
    OBVIOUS
  <2>5. b.l \in wirble_set_error(d)
    BY <2>1, <2>2, <2>3, <2>4 DEF Cleanup
  <2>6. Tidy(f) /\ Same(f, l) /\ f.held \subseteq l.held \cup (Artifacts \ {"wrs", "mrs"})
    BY <1>2, <1>3, <2>2, <2>3
  <2>7. DOMAIN f = Fields /\ "wrs" \notin f.held
    BY <2>6 DEF Same
  <2>8. Tidy(d) /\ Same(d, f) /\ d.held = f.held \ (Artifacts \ {"wrs", "mrs"})
    BY <2>4, <2>6, <2>7, DestroyFacts
  <2>9. DOMAIN d = Fields
    BY <2>8 DEF Same
  <2>10. Tidy(b.l) /\ Same(b.l, d) /\ b.l.held \subseteq d.held \cup {"errorMessage"}
    BY <2>5, <2>8, <2>9, SetErrorFacts
  <2>11. Same(b.l, l)
    BY <2>6, <2>8, <2>10 DEF Same
  <2>12. b.l.held \subseteq l.held \cup {"errorMessage"}
    BY <2>6, <2>8, <2>10
  <2> QED BY <1>4, <2>10, <2>11, <2>12
<1>5. CASE b.built
  <2>1. PICK skipped \in Optional : b.l = Free(Made(l, level, Len(Plan), skipped), <<"wrs", "mrs">>)
    BY <1>5 DEF wirbleBuildPipelineArtifacts
  <2>2. Len(Plan) \in 0..Len(Plan)
    BY ObjectNames
  <2>3. /\ Tidy(b.l) /\ Same(b.l, l) /\ b.l.held \subseteq l.held \cup (Artifacts \ {"wrs", "mrs"})
        /\ "wvmPrototype" \in b.l.held
    BY <1>3, <2>1, <2>2
  <2> QED BY <1>5, <2>3
<1> QED BY <1>4, <1>5

\* The prototype stays, with one pointer to it.
LEMMA HandOverFacts ==
  ASSUME NEW l, DOMAIN l = Fields, Tidy(l), l.held \subseteq {"source"} \cup (Artifacts \ {"wrs", "mrs"}),
         "wvmPrototype" \in l.held, NEW m, m = HandOver(l)
  PROVE  Tidy(m) /\ Same(m, l) /\ m.held \subseteq (l.held \cap {"source"}) \cup {"proto"}
<1>1. PICK held : held = (l.held \ {"wvmPrototype"}) \cup {"proto"}
  OBVIOUS
<1>2. PICK x : x = [l EXCEPT !.held = held]
  OBVIOUS
<1>3. x.heap = l.heap /\ x.held = held /\ Same(x, l)
  BY <1>2 DEF Same, Fields
<1>4. held \subseteq Objects \cup {"proto"} /\ ~({"proto", "wvmPrototype"} \subseteq held)
  BY <1>1, ObjectNames
<1>5. Owned(held) = Owned(l.held)
  <2>1. Pointee("proto") = "wvmPrototype" /\ Pointee("wvmPrototype") = "wvmPrototype"
    BY DEF Pointee
  <2>2. \A a : a \in Owned(held) => a \in Owned(l.held)
    BY <1>1, <2>1 DEF Owned
  <2>3. \A a : a \in Owned(l.held) => a \in Owned(held)
    BY <1>1, <2>1 DEF Owned
  <2> QED BY <2>2, <2>3
<1>6. Tidy(x)
  BY <1>3, <1>4, <1>5 DEF Tidy
<1>7. m = wirblePipelineArtifactsDestroy(x)
  BY <1>1, <1>2 DEF HandOver
<1>8. DOMAIN x = Fields /\ "wrs" \notin x.held
  BY <1>1, <1>3, ObjectNames DEF Same
<1>9. Tidy(m) /\ Same(m, x) /\ m.held = x.held \ (Artifacts \ {"wrs", "mrs"})
  BY <1>6, <1>7, <1>8, DestroyFacts
<1>10. m.held \subseteq (l.held \cap {"source"}) \cup {"proto"}
  BY <1>1, <1>3, <1>9
<1> QED BY <1>3, <1>9, <1>10 DEF Same

-----------------------------------------------------------------------------
(* The ends of a job.                                                      *)

LEMMA EvaluatedFacts ==
  ASSUME NEW t, NEW l, DOMAIN l = Fields, Tidy(l), l.held \subseteq Text(t) \cup {"vm", "proto", "errorMessage"},
         l.code # 1, NEW v, NEW m, m = Evaluated(t, l, v)
  PROVE  /\ DOMAIN m = Fields /\ Tidy(m) /\ m.held = {} /\ m.touched = l.touched /\ m.data = l.data
         /\ m.stage \in {"repl", "done"} /\ (m.code = 1 => m.stage = "done")
         /\ m.stage = "repl" => t = "iwirble"
<1>1. PICK f : f = Free(l, <<"vm", "proto", "errorMessage">>)
  OBVIOUS
<1>2. Tidy(f) /\ Same(f, l) /\ f.held = l.held \ {"vm", "proto", "errorMessage"}
  BY <1>1, FreeShown
<1>3. f.held \subseteq Text(t)
  BY <1>2
<1>4. PICK w : w = Append(f.printed, [source |-> Source(t), value |-> v])
  OBVIOUS
<1>5. PICK s : s = [f EXCEPT !.printed = w]
  OBVIOUS
<1>6. /\ DOMAIN s = Fields /\ s.stage = f.stage /\ s.code = f.code /\ s.touched = f.touched
      /\ s.data = f.data /\ s.heap = f.heap /\ s.held = f.held
  BY <1>2, <1>5 DEF Same, Fields
<1>7. Tidy(s)
  BY <1>2, <1>6, TidyKept
<1>8. m = IF Interactive(t) THEN [s EXCEPT !.stage = "repl", !.line = s.line + 1]
          ELSE Exit(s, IF v = VM!Nil THEN 1 ELSE 0)
  BY <1>1, <1>4, <1>5 DEF Evaluated
<1>9. CASE Interactive(t)
  <2>1. PICK k : k = s.line + 1
    OBVIOUS
  <2>2. m = [s EXCEPT !.stage = "repl", !.line = k]
    BY <1>8, <1>9, <2>1
  <2>3. /\ DOMAIN m = Fields /\ m.stage = "repl" /\ m.code = s.code /\ m.touched = s.touched
        /\ m.data = s.data /\ m.heap = s.heap /\ m.held = s.held
    BY <1>6, <2>2 DEF Fields
  <2>4. m.held = {}
    BY <1>3, <1>6, <1>9, <2>3 DEF Text
  <2>5. Tidy(m)
    BY <1>7, <2>3, TidyKept
  <2> QED BY <1>2, <1>6, <1>9, <2>3, <2>4, <2>5 DEF Same, Interactive
<1>10. CASE ~Interactive(t)
  <2>1. PICK c : c = IF v = VM!Nil THEN 1 ELSE 0
    OBVIOUS
  <2>2. m = Exit(s, c)
    BY <1>8, <1>10, <2>1
  <2>3. /\ Tidy(m) /\ DOMAIN m = Fields /\ m.held = s.held \ {"source", "errorMessage", "vm", "proto"}
        /\ m.stage = "done" /\ m.code = c /\ m.touched = s.touched /\ m.data = s.data
    BY <1>6, <1>7, <2>2, ExitFacts
  <2>4. m.held = {}
    BY <1>3, <1>6, <2>3 DEF Text
  <2> QED BY <1>2, <1>6, <2>3, <2>4 DEF Same
<1> QED BY <1>9, <1>10

LEMMA ExitOK ==
  ASSUME NEW t, NEW l, DOMAIN l = Fields, Tidy(l), l.held \subseteq {"source", "errorMessage", "vm", "proto"},
         l.touched \in BOOLEAN, NEW code, l.touched => code # 1
  PROVE  LocalOK(t, Exit(l, code)) /\ Exit(l, code).touched = l.touched /\ Exit(l, code).data = l.data
<1>1. PICK m : m = Exit(l, code)
  OBVIOUS
<1>2. /\ Tidy(m) /\ DOMAIN m = Fields /\ m.held = l.held \ {"source", "errorMessage", "vm", "proto"}
      /\ m.stage = "done" /\ m.code = code /\ m.touched = l.touched /\ m.data = l.data
  BY <1>1, ExitFacts
<1>3. m.held = {}
  BY <1>2
<1>4. LocalOK(t, m)
  BY <1>2, <1>3 DEF LocalOK, Holds, Outcome
<1> QED BY <1>1, <1>2, <1>4

\* A failure leaves nothing, and never after the output was opened.
LEMMA GiveUpFacts ==
  ASSUME NEW t, NEW l, DOMAIN l = Fields, Tidy(l), l.held \subseteq Text(t) \cup {"vm", "proto", "errorMessage"},
         l.code # 1, l.touched = FALSE, NEW m, m = GiveUp(t, l)
  PROVE  LocalOK(t, m) /\ m.touched = FALSE /\ m.data = l.data
<1>1. CASE t = "iwirble"
  <2>1. m = Evaluated(t, l, VM!Nil)
    BY <1>1 DEF GiveUp
  <2>2. /\ DOMAIN m = Fields /\ Tidy(m) /\ m.held = {} /\ m.touched = l.touched /\ m.data = l.data
        /\ m.stage \in {"repl", "done"} /\ (m.code = 1 => m.stage = "done")
        /\ m.stage = "repl" => t = "iwirble"
    BY <2>1, EvaluatedFacts
  <2> QED BY <1>1, <2>2 DEF LocalOK, Holds, Outcome
<1>2. CASE t # "iwirble"
  <2>1. m = Exit(l, 1)
    BY <1>2 DEF GiveUp
  <2>2. /\ Tidy(m) /\ DOMAIN m = Fields /\ m.held = l.held \ {"source", "errorMessage", "vm", "proto"}
        /\ m.stage = "done" /\ m.code = 1 /\ m.touched = l.touched /\ m.data = l.data
    BY <2>1, ExitFacts
  <2>3. m.held = {}
    BY <2>2 DEF Text
  <2> QED BY <2>2, <2>3 DEF LocalOK, Holds, Outcome
<1> QED BY <1>1, <1>2

-----------------------------------------------------------------------------
(* The steps.                                                              *)

LEMMA BecomeFacts ==
  ASSUME OwnInv, NEW t \in Tools, NEW l, Become(t, l), LocalOK(t, l), scenario' = scenario
  PROVE  OwnInv'
<1>1. Tools' = Tools /\ DOMAIN local = Tools
  BY DEF Tools, OwnInv
<1>2. local' = [local EXCEPT ![t] = l]
  BY DEF Become
<1>3. DOMAIN local' = Tools'
  BY <1>1, <1>2
<1>4. \A u, x : LocalOK(u, x)' <=> LocalOK(u, x)
  <2>1. \A u : Interactive(u)' <=> Interactive(u)
    BY DEF Interactive, Job
  <2>2. \A u : Text(u)' = Text(u)
    BY <2>1 DEF Text
  <2> QED BY <2>1, <2>2 DEF LocalOK, Holds, Outcome
<1>5. \A u \in Tools : LocalOK(u, local'[u])
  BY <1>1, <1>2 DEF OwnInv
<1> QED BY <1>1, <1>3, <1>4, <1>5 DEF OwnInv

\* Only compilers write assembly.
LEMMA ToolNames ==
  ASSUME OwnInv, NEW t \in Tools
  PROVE  t \in Compilers \cup {"wvm-run", "iwirble"} /\ (scenario.jobs[t].symbolic => t # "iwirble")
BY ScenariosAssumption DEF OwnInv, Tools, Compilers

\* What the invariant says of one tool.
LEMMA LocalFacts ==
  ASSUME OwnInv, NEW t \in Tools, NEW l, l = local[t]
  PROVE  /\ DOMAIN l = Fields /\ Tidy(l) /\ Holds(t, l) /\ Outcome(t, l)
         /\ l.stage \notin {"write", "done", "killed"} => l.touched = FALSE
         /\ l.stage # "done" => l.code # 1
BY DEF OwnInv, LocalOK, Outcome

\* A tool that moves to another stage with what it holds.
LEMMA MoveFacts ==
  ASSUME OwnInv, NEW t \in Tools, NEW l, l = local[t], NEW stage, NEW m, m = [l EXCEPT !.stage = stage]
  PROVE  /\ DOMAIN m = Fields /\ Tidy(m) /\ m.held = l.held /\ m.touched = l.touched /\ m.code = l.code
         /\ m.stage = stage /\ m.data = l.data /\ m.size = l.size
<1>1. DOMAIN l = Fields /\ Tidy(l)
  BY LocalFacts
<1>2. /\ DOMAIN m = Fields /\ m.heap = l.heap /\ m.held = l.held /\ m.touched = l.touched /\ m.code = l.code
      /\ m.stage = stage /\ m.data = l.data /\ m.size = l.size
  BY <1>1 DEF Fields
<1> QED BY <1>1, <1>2 DEF Tidy

LEMMA ArgumentsStep ==
  ASSUME OwnInv, NEW t \in Tools, ParseArguments(t)
  PROVE  OwnInv'
<1>1. PICK l : l = local[t]
  OBVIOUS
<1>2. l.stage = "args" /\ scenario' = scenario
  BY <1>1 DEF ParseArguments, At
<1>3. DOMAIN l = Fields /\ Tidy(l) /\ l.held = {} /\ l.touched = FALSE /\ l.code # 1
  BY <1>1, <1>2, LocalFacts DEF Holds
<1>4. CASE ~Job(t).wellFormed
  <2>1. PICK m : m = Exit(l, 1)
    OBVIOUS
  <2>2. Become(t, m)
    BY <1>1, <1>4, <2>1 DEF ParseArguments
  <2>3. LocalOK(t, m)
    BY <1>3, <2>1, ExitOK
  <2> QED BY <1>2, <2>2, <2>3, BecomeFacts
<1>5. CASE Job(t).wellFormed
  <2>1. PICK stage : stage = IF t = "wvm-run" THEN "create" ELSE IF Interactive(t) THEN "repl" ELSE "read"
    OBVIOUS
  <2>2. PICK m : m = [l EXCEPT !.stage = stage]
    OBVIOUS
  <2>3. Become(t, m)
    BY <1>1, <1>5, <2>1, <2>2 DEF ParseArguments
  <2>4. /\ DOMAIN m = Fields /\ Tidy(m) /\ m.held = {} /\ m.touched = FALSE /\ m.code # 1 /\ m.stage = stage
    BY <1>1, <1>3, <2>2, MoveFacts
  <2>5. stage \in {"create", "repl", "read"} /\ (stage = "read" => ~Interactive(t) /\ t # "wvm-run")
        /\ (stage = "repl" => t = "iwirble")
    BY <2>1 DEF Interactive
  <2>6. LocalOK(t, m)
    BY <2>4, <2>5 DEF LocalOK, Holds, Outcome
  <2> QED BY <1>2, <2>3, <2>6, BecomeFacts
<1> QED BY <1>4, <1>5

LEMMA ReadStep ==
  ASSUME OwnInv, NEW t \in Tools, wirbleReadFile(t)
  PROVE  OwnInv'
<1>1. PICK l : l = local[t]
  OBVIOUS
<1>2. l.stage = "read" /\ scenario' = scenario
  BY <1>1 DEF wirbleReadFile, At
<1>3. DOMAIN l = Fields /\ Tidy(l) /\ l.held = {} /\ l.touched = FALSE /\ l.code # 1 /\ ~Interactive(t)
      /\ t # "wvm-run"
  <2>1. /\ DOMAIN l = Fields /\ Tidy(l) /\ Holds(t, l) /\ Outcome(t, l)
        /\ l.stage \notin {"write", "done", "killed"} => l.touched = FALSE
        /\ l.stage # "done" => l.code # 1
    BY <1>1, LocalFacts
  <2> QED BY <1>2, <2>1 DEF Holds, Outcome
<1>4. ASSUME Become(t, [Allocate(l, {"source"}) EXCEPT !.stage = "compile"]) PROVE OwnInv'
  <2>1. PICK x : x = Allocate(l, {"source"})
    OBVIOUS
  <2>2. Tidy(x) /\ Same(x, l) /\ x.held = {"source"}
    <3>1. {"source"} \subseteq Objects /\ {"source"} \cap Owned(l.held) = {}
      BY <1>3, ObjectNames DEF Owned
    <3>2. \A a \in {"source"} : \A b \in Objects : PointsInto(a, b) => b \in {"source"} \cup Owned(l.held)
      BY DEF PointsInto
    <3>3. /\ Tidy(Allocate(l, {"source"})) /\ Same(Allocate(l, {"source"}), l)
          /\ Allocate(l, {"source"}).held = l.held \cup {"source"}
      BY <1>3, <3>1, <3>2, AllocateFacts
    <3> QED BY <1>3, <2>1, <3>3
  <2>3. PICK m : m = [x EXCEPT !.stage = "compile"]
    OBVIOUS
  <2>4. /\ DOMAIN m = Fields /\ m.heap = x.heap /\ m.held = x.held /\ m.touched = l.touched
        /\ m.code = l.code /\ m.stage = "compile"
    BY <2>2, <2>3 DEF Same, Fields
  <2>5. Tidy(m)
    BY <2>2, <2>4, TidyKept
  <2>6. LocalOK(t, m)
    BY <1>3, <2>2, <2>4, <2>5 DEF LocalOK, Holds, Outcome, Text
  <2> QED BY <1>2, <1>4, <2>1, <2>3, <2>6, BecomeFacts
<1>5. ASSUME NEW m \in wirble_set_error(l), Become(t, Exit(m, 1)) PROVE OwnInv'
  <2>1. Tidy(m) /\ Same(m, l) /\ m.held \subseteq {"errorMessage"}
    BY <1>3, SetErrorFacts
  <2>2. DOMAIN m = Fields /\ m.touched = FALSE
    BY <1>3, <2>1 DEF Same
  <2>3. LocalOK(t, Exit(m, 1))
    BY <2>1, <2>2, ExitOK
  <2> QED BY <1>2, <1>5, <2>3, BecomeFacts
<1> QED BY <1>1, <1>4, <1>5 DEF wirbleReadFile

LEMMA CompileStep ==
  ASSUME OwnInv, NEW t \in Tools, Compile(t)
  PROVE  OwnInv'
<1>1. PICK l : l = local[t]
  OBVIOUS
<1>2. l.stage = "compile" /\ scenario' = scenario
  BY <1>1 DEF Compile, At
<1>3. DOMAIN l = Fields /\ Tidy(l) /\ l.held \subseteq Text(t) /\ l.touched = FALSE /\ l.code # 1
      /\ t # "wvm-run"
  <2>1. /\ DOMAIN l = Fields /\ Tidy(l) /\ Holds(t, l) /\ Outcome(t, l)
        /\ l.stage \notin {"write", "done", "killed"} => l.touched = FALSE
        /\ l.stage # "done" => l.code # 1
    BY <1>1, LocalFacts
  <2> QED BY <1>2, <2>1 DEF Holds, Outcome
<1>4. l.held \subseteq {"source"}
  BY <1>3 DEF Text
<1>5. PICK b \in wirbleBuildPipelineArtifacts(l, Source(t), Job(t), l.level) :
        Become(t, IF ~b.built THEN GiveUp(t, b.l)
                  ELSE IF Job(t).symbolic THEN [b.l EXCEPT !.stage = "open"]
                  ELSE [HandOver(b.l) EXCEPT !.stage = "create", !.proto = ConstantPrototype(b.value)])
  BY <1>1 DEF Compile
<1>6. /\ Tidy(b.l) /\ Same(b.l, l)
      /\ b.built => /\ b.l.held \subseteq l.held \cup (Artifacts \ {"wrs", "mrs"})
                    /\ "wvmPrototype" \in b.l.held
      /\ ~b.built => b.l.held \subseteq l.held \cup {"errorMessage"}
  BY <1>3, <1>4, BuildFacts
<1>7. PICK x : x = b.l
  OBVIOUS
<1>8. DOMAIN x = Fields /\ x.touched = FALSE /\ x.code # 1
  BY <1>3, <1>6, <1>7 DEF Same
<1>9. CASE ~b.built
  <2>1. Become(t, GiveUp(t, x))
    BY <1>5, <1>7, <1>9
  <2>2. x.held \subseteq Text(t) \cup {"vm", "proto", "errorMessage"}
    BY <1>3, <1>6, <1>7, <1>9
  <2>3. LocalOK(t, GiveUp(t, x))
    BY <1>6, <1>7, <1>8, <2>2, GiveUpFacts
  <2> QED BY <1>2, <2>1, <2>3, BecomeFacts
<1>10. CASE b.built /\ Job(t).symbolic
  <2>1. PICK m : m = [x EXCEPT !.stage = "open"]
    OBVIOUS
  <2>2. Become(t, m)
    BY <1>5, <1>7, <1>10, <2>1
  <2>3. /\ DOMAIN m = Fields /\ m.heap = x.heap /\ m.held = x.held /\ m.touched = FALSE
        /\ m.code # 1 /\ m.stage = "open"
    BY <1>8, <2>1 DEF Fields
  <2>4. Tidy(m)
    BY <1>6, <1>7, <2>3, TidyKept
  <2>5. m.held \subseteq {"source", "vm", "proto"} \cup (Artifacts \ {"wrs", "mrs"})
    BY <1>4, <1>6, <1>7, <1>10, <2>3
  <2>6. t \in Compilers
    BY <1>3, <1>10, ToolNames DEF Job
  <2>7. LocalOK(t, m)
    BY <2>3, <2>4, <2>5, <2>6 DEF LocalOK, Holds, Outcome
  <2> QED BY <1>2, <2>2, <2>7, BecomeFacts
<1>11. CASE b.built /\ ~Job(t).symbolic
  <2>1. PICK h : h = HandOver(x)
    OBVIOUS
  <2>2. PICK p : p = ConstantPrototype(b.value)
    OBVIOUS
  <2>3. PICK m : m = [h EXCEPT !.stage = "create", !.proto = p]
    OBVIOUS
  <2>4. Become(t, m)
    BY <1>5, <1>7, <1>11, <2>1, <2>2, <2>3
  <2>5. Tidy(h) /\ Same(h, x) /\ h.held \subseteq (x.held \cap {"source"}) \cup {"proto"}
    <3>1. x.held \subseteq {"source"} \cup (Artifacts \ {"wrs", "mrs"}) /\ "wvmPrototype" \in x.held
      BY <1>4, <1>6, <1>7, <1>11
    <3>2. Tidy(x)
      BY <1>6, <1>7
    <3> QED BY <1>8, <2>1, <3>1, <3>2, HandOverFacts
  <2>6. x.held \cap {"source"} \subseteq Text(t)
    BY <1>3, <1>6, <1>7, <1>11, ObjectNames
  <2>7. /\ DOMAIN m = Fields /\ m.heap = h.heap /\ m.held = h.held /\ m.touched = FALSE
        /\ m.code # 1 /\ m.stage = "create"
    BY <1>8, <2>3, <2>5 DEF Fields, Same
  <2>8. Tidy(m)
    BY <2>5, <2>7, TidyKept
  <2>9. LocalOK(t, m)
    BY <1>3, <2>5, <2>6, <2>7, <2>8 DEF LocalOK, Holds, Outcome
  <2> QED BY <1>2, <2>4, <2>9, BecomeFacts
<1> QED BY <1>9, <1>10, <1>11

LEMMA CreateStep ==
  ASSUME OwnInv, NEW t \in Tools, wvmCreate(t)
  PROVE  OwnInv'
<1>1. PICK l : l = local[t]
  OBVIOUS
<1>2. l.stage = "create" /\ scenario' = scenario
  BY <1>1 DEF wvmCreate, At
<1>3. /\ DOMAIN l = Fields /\ Tidy(l) /\ l.touched = FALSE /\ l.code # 1
      /\ l.held \subseteq Text(t) \cup (IF t = "wvm-run" THEN {} ELSE {"proto"})
  BY <1>1, <1>2, LocalFacts DEF Holds
<1>4. PICK stage : stage = IF t \in Compilers THEN "open" ELSE IF t = "wvm-run" THEN "size" ELSE "execute"
  OBVIOUS
<1>5. ASSUME Become(t, [Allocate(l, {"vm"}) EXCEPT !.stage = stage]) PROVE OwnInv'
  <2>1. PICK x : x = Allocate(l, {"vm"})
    OBVIOUS
  <2>2. Tidy(x) /\ Same(x, l) /\ x.held = l.held \cup {"vm"}
    <3>1. {"vm"} \subseteq Objects /\ {"vm"} \cap Owned(l.held) = {}
      <4>1. l.held \subseteq {"source", "proto"}
        BY <1>3 DEF Text
      <4> QED BY <4>1, ObjectNames DEF Owned, Pointee
    <3>2. \A a \in {"vm"} : \A b \in Objects : PointsInto(a, b) => b \in {"vm"} \cup Owned(l.held)
      BY DEF PointsInto
    <3>3. /\ Tidy(Allocate(l, {"vm"})) /\ Same(Allocate(l, {"vm"}), l)
          /\ Allocate(l, {"vm"}).held = l.held \cup {"vm"}
      BY <1>3, <3>1, <3>2, AllocateFacts
    <3> QED BY <2>1, <3>3
  <2>3. PICK m : m = [x EXCEPT !.stage = stage]
    OBVIOUS
  <2>4. /\ DOMAIN m = Fields /\ m.heap = x.heap /\ m.held = x.held /\ m.touched = l.touched
        /\ m.code = l.code /\ m.stage = stage
    BY <2>2, <2>3 DEF Same, Fields
  <2>5. Tidy(m)
    BY <2>2, <2>4, TidyKept
  <2>6. Holds(t, m)
    <3>1. CASE t \in Compilers
      BY <1>3, <1>4, <2>2, <2>4, <3>1 DEF Holds, Text
    <3>2. CASE t = "wvm-run"
      BY <1>3, <1>4, <2>2, <2>4, <3>2 DEF Holds, Compilers
    <3>3. CASE t \notin Compilers /\ t # "wvm-run"
      BY <1>3, <1>4, <2>2, <2>4, <3>3 DEF Holds
    <3> QED BY <3>1, <3>2, <3>3
  <2>7. Outcome(t, m)
    BY <1>3, <1>4, <2>4 DEF Outcome
  <2>8. LocalOK(t, m)
    BY <2>4, <2>5, <2>6, <2>7 DEF LocalOK
  <2> QED BY <1>2, <1>5, <2>1, <2>3, <2>8, BecomeFacts
<1>6. ASSUME Become(t, GiveUp(t, l)) PROVE OwnInv'
  <2>1. l.held \subseteq Text(t) \cup {"vm", "proto", "errorMessage"}
    BY <1>3
  <2>2. LocalOK(t, GiveUp(t, l))
    BY <1>3, <2>1, GiveUpFacts
  <2> QED BY <1>2, <1>6, <2>2, BecomeFacts
<1> QED BY <1>1, <1>4, <1>5, <1>6 DEF wvmCreate

LEMMA OpenStep ==
  ASSUME OwnInv, NEW t \in Tools, OpenOutput(t)
  PROVE  OwnInv'
<1>1. PICK l : l = local[t]
  OBVIOUS
<1>2. l.stage = "open" /\ scenario' = scenario
  BY <1>1 DEF OpenOutput, At
<1>3. /\ DOMAIN l = Fields /\ Tidy(l) /\ l.touched = FALSE /\ l.code # 1 /\ t \in Compilers
      /\ l.held \subseteq {"source", "vm", "proto"} \cup (Artifacts \ {"wrs", "mrs"})
  <2>1. /\ DOMAIN l = Fields /\ Tidy(l) /\ Holds(t, l) /\ Outcome(t, l)
        /\ l.stage \notin {"write", "done", "killed"} => l.touched = FALSE
        /\ l.stage # "done" => l.code # 1
    BY <1>1, LocalFacts
  <2> QED BY <1>2, <2>1 DEF Holds, Outcome
<1>4. ASSUME NEW bytes, Become(t, [l EXCEPT !.stage = "write", !.data = bytes, !.touched = TRUE]) PROVE OwnInv'
  <2>1. PICK m : m = [l EXCEPT !.stage = "write", !.data = bytes, !.touched = TRUE]
    OBVIOUS
  <2>2. /\ DOMAIN m = Fields /\ m.heap = l.heap /\ m.held = l.held /\ m.touched = TRUE
        /\ m.code = l.code /\ m.stage = "write"
    BY <1>3, <2>1 DEF Fields
  <2>3. Tidy(m)
    BY <1>3, <2>2, TidyKept
  <2>4. LocalOK(t, m)
    BY <1>3, <2>2, <2>3 DEF LocalOK, Holds, Outcome
  <2> QED BY <1>2, <1>4, <2>1, <2>4, BecomeFacts
<1>5. ASSUME Become(t, Exit(wirblePipelineArtifactsDestroy(l), 1)) PROVE OwnInv'
  <2>1. PICK d : d = wirblePipelineArtifactsDestroy(l)
    OBVIOUS
  <2>2. "wrs" \notin l.held
    BY <1>3
  <2>3. Tidy(d) /\ Same(d, l) /\ d.held = l.held \ (Artifacts \ {"wrs", "mrs"})
    BY <1>3, <2>1, <2>2, DestroyFacts
  <2>4. DOMAIN d = Fields /\ d.touched = FALSE /\ d.held \subseteq {"source", "errorMessage", "vm", "proto"}
    BY <1>3, <2>3 DEF Same
  <2>5. LocalOK(t, Exit(d, 1))
    BY <2>3, <2>4, ExitOK
  <2> QED BY <1>2, <1>5, <2>1, <2>5, BecomeFacts
<1> QED BY <1>1, <1>4, <1>5 DEF OpenOutput

LEMMA WriteStep ==
  ASSUME OwnInv, NEW t \in Tools, WriteOutput(t)
  PROVE  OwnInv'
<1>1. PICK l : l = local[t]
  OBVIOUS
<1>2. l.stage = "write" /\ scenario' = scenario
  BY <1>1 DEF WriteOutput, At
<1>3. /\ DOMAIN l = Fields /\ Tidy(l) /\ l.touched \in BOOLEAN
      /\ l.held \subseteq {"source", "vm", "proto"} \cup (Artifacts \ {"wrs", "mrs"})
  <2>1. /\ DOMAIN l = Fields /\ Tidy(l) /\ Holds(t, l) /\ Outcome(t, l)
        /\ l.stage \notin {"write", "done", "killed"} => l.touched = FALSE
        /\ l.stage # "done" => l.code # 1
    BY <1>1, LocalFacts
  <2> QED BY <1>2, <2>1 DEF Holds, Outcome
<1>4. PICK d : d = wirblePipelineArtifactsDestroy(l)
  OBVIOUS
<1>5. "wrs" \notin l.held
  BY <1>3
<1>6. Tidy(d) /\ Same(d, l) /\ d.held = l.held \ (Artifacts \ {"wrs", "mrs"})
  BY <1>3, <1>4, <1>5, DestroyFacts
<1>7. DOMAIN d = Fields /\ d.touched \in BOOLEAN /\ d.held \subseteq {"source", "errorMessage", "vm", "proto"}
  BY <1>3, <1>6 DEF Same
<1>8. LocalOK(t, Exit(d, 0))
  BY <1>6, <1>7, ExitOK
<1>9. Become(t, Exit(d, 0))
  BY <1>1, <1>4 DEF WriteOutput
<1> QED BY <1>2, <1>8, <1>9, BecomeFacts

LEMMA MeasureStep ==
  ASSUME OwnInv, NEW t \in Tools, MeasureFile(t)
  PROVE  OwnInv'
<1>1. PICK l : l = local[t]
  OBVIOUS
<1>2. l.stage = "size" /\ scenario' = scenario
  BY <1>1 DEF MeasureFile, At
<1>3. /\ DOMAIN l = Fields /\ Tidy(l) /\ l.touched = FALSE /\ l.code # 1 /\ t = "wvm-run"
      /\ l.held \subseteq Text(t) \cup {"vm"}
  <2>1. /\ DOMAIN l = Fields /\ Tidy(l) /\ Holds(t, l) /\ Outcome(t, l)
        /\ l.stage \notin {"write", "done", "killed"} => l.touched = FALSE
        /\ l.stage # "done" => l.code # 1
    BY <1>1, LocalFacts
  <2> QED BY <1>2, <2>1 DEF Holds, Outcome
<1>4. ASSUME NEW n, Become(t, [l EXCEPT !.stage = "fread", !.size = n]) PROVE OwnInv'
  <2>1. PICK m : m = [l EXCEPT !.stage = "fread", !.size = n]
    OBVIOUS
  <2>2. /\ DOMAIN m = Fields /\ m.heap = l.heap /\ m.held = l.held /\ m.touched = FALSE
        /\ m.code = l.code /\ m.stage = "fread"
    BY <1>3, <2>1 DEF Fields
  <2>3. Tidy(m)
    BY <1>3, <2>2, TidyKept
  <2>4. LocalOK(t, m)
    BY <1>3, <2>2, <2>3 DEF LocalOK, Holds, Outcome
  <2> QED BY <1>2, <1>4, <2>1, <2>4, BecomeFacts
<1>5. LocalOK(t, Exit(l, 1))
  <2>1. l.held \subseteq {"source", "errorMessage", "vm", "proto"}
    BY <1>3 DEF Text
  <2> QED BY <1>3, <2>1, ExitOK
<1> QED BY <1>1, <1>2, <1>4, <1>5, BecomeFacts DEF MeasureFile

LEMMA LoadStep ==
  ASSUME OwnInv, NEW t \in Tools, LoadFile(t)
  PROVE  OwnInv'
<1>1. PICK l : l = local[t]
  OBVIOUS
<1>2. l.stage = "fread" /\ scenario' = scenario
  BY <1>1 DEF LoadFile, At
<1>3. /\ DOMAIN l = Fields /\ Tidy(l) /\ l.touched = FALSE /\ l.code # 1 /\ t = "wvm-run"
      /\ l.held \subseteq Text(t) \cup {"vm"}
  <2>1. /\ DOMAIN l = Fields /\ Tidy(l) /\ Holds(t, l) /\ Outcome(t, l)
        /\ l.stage \notin {"write", "done", "killed"} => l.touched = FALSE
        /\ l.stage # "done" => l.code # 1
    BY <1>1, LocalFacts
  <2> QED BY <1>2, <2>1 DEF Holds, Outcome
<1>4. l.held \subseteq {"source", "errorMessage", "vm", "proto"}
  BY <1>3 DEF Text
<1>5. LocalOK(t, Exit(l, 1))
  BY <1>3, <1>4, ExitOK
<1>6. ASSUME NEW bytes, NEW p PROVE LocalOK(t, Loaded(l, bytes, p))
  <2>1. CASE p = Object!NoObject
    <3>1. PICK x : x = [l EXCEPT !.data = bytes]
      OBVIOUS
    <3>2. DOMAIN x = Fields /\ x.heap = l.heap /\ x.held = l.held /\ x.touched = FALSE
      BY <1>3, <3>1 DEF Fields
    <3>3. Tidy(x)
      BY <1>3, <3>2, TidyKept
    <3>4. LocalOK(t, Exit(x, 1))
      BY <1>4, <3>2, <3>3, ExitOK
    <3> QED BY <2>1, <3>1, <3>4 DEF Loaded
  <2>2. CASE p # Object!NoObject
    <3>1. PICK x : x = Allocate(l, {"wvmPrototype"})
      OBVIOUS
    <3>2. Tidy(x) /\ Same(x, l) /\ x.held = l.held \cup {"wvmPrototype"}
      <4>1. {"wvmPrototype"} \subseteq Objects /\ {"wvmPrototype"} \cap Owned(l.held) = {}
        <5>1. l.held \subseteq {"source", "vm"}
          BY <1>3 DEF Text
        <5> QED BY <5>1, ObjectNames DEF Owned, Pointee
      <4>2. \A a \in {"wvmPrototype"} : \A b \in Objects : PointsInto(a, b) => b \in {"wvmPrototype"} \cup Owned(l.held)
        BY DEF PointsInto
      <4>3. /\ Tidy(Allocate(l, {"wvmPrototype"})) /\ Same(Allocate(l, {"wvmPrototype"}), l)
            /\ Allocate(l, {"wvmPrototype"}).held = l.held \cup {"wvmPrototype"}
        BY <1>3, <4>1, <4>2, AllocateFacts
      <4> QED BY <3>1, <4>3
    <3>3. PICK held : held = (x.held \ {"wvmPrototype"}) \cup {"proto"}
      OBVIOUS
    <3>4. PICK m : m = [x EXCEPT !.held = held, !.stage = "execute", !.data = bytes, !.proto = p]
      OBVIOUS
    <3>5. Loaded(l, bytes, p) = m
      BY <2>2, <3>1, <3>3, <3>4 DEF Loaded
    <3>6. /\ DOMAIN m = Fields /\ m.heap = x.heap /\ m.held = held /\ m.touched = l.touched
          /\ m.code = l.code /\ m.stage = "execute"
      BY <3>2, <3>4 DEF Same, Fields
    <3>7. held \subseteq Text(t) \cup {"vm", "proto"} /\ "wvmPrototype" \notin held
      BY <1>3, <3>2, <3>3
    <3>8. held \subseteq Objects \cup {"proto"}
      BY <3>7, ObjectNames DEF Text
    <3>9. Owned(held) = Owned(x.held)
      <4>1. Pointee("proto") = "wvmPrototype" /\ Pointee("wvmPrototype") = "wvmPrototype"
        BY DEF Pointee
      <4>2. \A a : a \in Owned(held) => a \in Owned(x.held)
        BY <3>2, <3>3, <4>1 DEF Owned
      <4>3. \A a : a \in Owned(x.held) => a \in Owned(held)
        BY <3>3, <4>1 DEF Owned
      <4> QED BY <4>2, <4>3
    <3>10. Tidy(m)
      BY <3>2, <3>6, <3>7, <3>8, <3>9 DEF Tidy
    <3>11. LocalOK(t, m)
      BY <1>3, <3>6, <3>7, <3>10 DEF LocalOK, Holds, Outcome, Compilers
    <3> QED BY <3>5, <3>11
  <2> QED BY <2>1, <2>2
<1>7. \/ Become(t, Exit(l, 1))
      \/ Become(t, Loaded(l, SubSeq(disk, 1, l.size), Object!wvmReadObjectMemory(SubSeq(disk, 1, l.size))))
  BY <1>1 DEF LoadFile
<1> QED BY <1>2, <1>5, <1>6, <1>7, BecomeFacts

LEMMA FinishStep ==
  ASSUME OwnInv, NEW t \in Tools, Finish(t)
  PROVE  OwnInv'
<1>1. PICK l : l = local[t]
  OBVIOUS
<1>2. l.stage = "run" /\ scenario' = scenario
  BY <1>1 DEF Finish, At
<1>3. /\ DOMAIN l = Fields /\ Tidy(l) /\ l.touched = FALSE /\ l.code # 1
      /\ l.held \subseteq Text(t) \cup {"vm", "proto", "errorMessage"}
  BY <1>1, <1>2, LocalFacts DEF Holds
<1>4. LocalOK(t, GiveUp(t, l))
  BY <1>3, GiveUpFacts
<1>5. PICK w : w = <<[value |-> stack[0]]>>
  OBVIOUS
<1>6. PICK x : x = [l EXCEPT !.printed = w]
  OBVIOUS
<1>7. LocalOK(t, Exit(x, 0))
  <2>1. DOMAIN x = Fields /\ x.heap = l.heap /\ x.held = l.held /\ x.touched = FALSE
    BY <1>3, <1>6 DEF Fields
  <2>2. Tidy(x)
    BY <1>3, <2>1, TidyKept
  <2>3. x.held \subseteq {"source", "errorMessage", "vm", "proto"}
    BY <1>3, <2>1 DEF Text
  <2> QED BY <2>1, <2>2, <2>3, ExitOK
<1>8. LocalOK(t, Evaluated(t, l, stack[0]))
  <2>1. PICK m : m = Evaluated(t, l, stack[0])
    OBVIOUS
  <2>2. /\ DOMAIN m = Fields /\ Tidy(m) /\ m.held = {} /\ m.touched = l.touched /\ m.data = l.data
        /\ m.stage \in {"repl", "done"} /\ (m.code = 1 => m.stage = "done")
        /\ m.stage = "repl" => t = "iwirble"
    BY <1>3, <2>1, EvaluatedFacts
  <2>3. LocalOK(t, m)
    BY <1>3, <2>2 DEF LocalOK, Holds, Outcome
  <2> QED BY <2>1, <2>3
<1>9. \/ Become(t, GiveUp(t, l)) \/ Become(t, Evaluated(t, l, stack[0])) \/ Become(t, Exit(x, 0))
  BY <1>1, <1>5, <1>6 DEF Finish
<1> QED BY <1>2, <1>4, <1>7, <1>8, <1>9, BecomeFacts

LEMMA LineStep ==
  ASSUME OwnInv, NEW t \in Tools, iwirble_execute(t)
  PROVE  OwnInv'
<1>1. PICK l : l = local[t]
  OBVIOUS
<1>2. l.stage = "repl" /\ scenario' = scenario
  BY <1>1 DEF iwirble_execute, At
<1>3. /\ DOMAIN l = Fields /\ Tidy(l) /\ l.touched = FALSE /\ l.code # 1 /\ l.held = {} /\ t = "iwirble"
  <2>1. /\ DOMAIN l = Fields /\ Tidy(l) /\ Holds(t, l) /\ Outcome(t, l)
        /\ l.stage \notin {"write", "done", "killed"} => l.touched = FALSE
        /\ l.stage # "done" => l.code # 1
    BY <1>1, LocalFacts
  <2> QED BY <1>2, <2>1 DEF Holds, Outcome
<1>4. PICK line, level : line = l.line + 1 /\ level = Line(t).level
  OBVIOUS
<1>5. PICK m : /\ Become(t, m)
               /\ \/ m = [l EXCEPT !.stage = "done", !.code = 0]
                  \/ m = [l EXCEPT !.line = line]
                  \/ m = [l EXCEPT !.line = line, !.level = level]
                  \/ m = [l EXCEPT !.stage = "compile"]
  <2>1. PICK skip : skip = [l EXCEPT !.line = line]
    OBVIOUS
  <2>2. PICK m : /\ Become(t, m)
                 /\ \/ m = [l EXCEPT !.stage = "done", !.code = 0]
                    \/ m = skip
                    \/ m = [skip EXCEPT !.level = level]
                    \/ m = [l EXCEPT !.stage = "compile"]
    BY <1>1, <1>4, <2>1 DEF iwirble_execute
  <2>3. [skip EXCEPT !.level = level] = [l EXCEPT !.line = line, !.level = level]
    BY <2>1
  <2> QED BY <2>1, <2>2, <2>3
<1>6. /\ DOMAIN m = Fields /\ m.heap = l.heap /\ m.held = l.held /\ m.touched = FALSE
      /\ m.stage \in {"done", "repl", "compile"} /\ m.code # 1
  <2>1. CASE m = [l EXCEPT !.stage = "done", !.code = 0]
    BY <1>3, <2>1 DEF Fields
  <2>2. CASE m = [l EXCEPT !.line = line]
    BY <1>2, <1>3, <2>2 DEF Fields
  <2>3. CASE m = [l EXCEPT !.line = line, !.level = level]
    BY <1>2, <1>3, <2>3 DEF Fields
  <2>4. CASE m = [l EXCEPT !.stage = "compile"]
    BY <1>3, <2>4 DEF Fields
  <2> QED BY <1>5, <2>1, <2>2, <2>3, <2>4
<1>7. Tidy(m)
  BY <1>3, <1>6, TidyKept
<1>8. LocalOK(t, m)
  BY <1>3, <1>6, <1>7 DEF LocalOK, Holds, Outcome
<1> QED BY <1>2, <1>5, <1>8, BecomeFacts

\* The end of a process, at any moment.
LEMMA KilledStep ==
  ASSUME OwnInv, NEW t \in Tools, Kill(t) \/ CompileTraps(t)
  PROVE  OwnInv'
<1>1. PICK l : l = local[t]
  OBVIOUS
<1>2. /\ scenario' = scenario /\ l.stage # "done"
      /\ Become(t, [l EXCEPT !.stage = "killed"])
  BY <1>1 DEF Kill, CompileTraps, At
<1>3. DOMAIN l = Fields /\ Tidy(l) /\ Outcome(t, l) /\ l.code # 1
  BY <1>1, <1>2, LocalFacts
<1>4. PICK m : m = [l EXCEPT !.stage = "killed"]
  OBVIOUS
<1>5. /\ DOMAIN m = Fields /\ Tidy(m) /\ m.held = l.held /\ m.touched = l.touched /\ m.code = l.code
      /\ m.stage = "killed"
  BY <1>1, <1>4, MoveFacts
<1>6. LocalOK(t, m)
  BY <1>3, <1>5 DEF LocalOK, Holds, Outcome
<1> QED BY <1>2, <1>4, <1>6, BecomeFacts

LEMMA ExecuteStep ==
  ASSUME OwnInv, NEW t \in Tools, Execute(t)
  PROVE  OwnInv'
<1>1. PICK l : l = local[t]
  OBVIOUS
<1>2. l.stage = "execute" /\ scenario' = scenario /\ Become(t, [l EXCEPT !.stage = "run"])
  BY <1>1 DEF Execute, At
<1>3. /\ l.held \subseteq Text(t) \cup {"vm", "proto"} /\ l.touched = FALSE /\ l.code # 1
      /\ t \notin Compilers
  <2>1. Holds(t, l) /\ Outcome(t, l) /\ l.touched = FALSE /\ l.code # 1
    BY <1>1, <1>2, LocalFacts
  <2> QED BY <1>2, <2>1 DEF Holds, Outcome
<1>4. PICK m : m = [l EXCEPT !.stage = "run"]
  OBVIOUS
<1>5. /\ DOMAIN m = Fields /\ Tidy(m) /\ m.held = l.held /\ m.touched = l.touched /\ m.code = l.code
      /\ m.stage = "run"
  BY <1>1, <1>4, MoveFacts
<1>6. LocalOK(t, m)
  BY <1>3, <1>5 DEF LocalOK, Holds, Outcome
<1> QED BY <1>2, <1>4, <1>6, BecomeFacts

LEMMA StillStep ==
  ASSUME OwnInv, scenario' = scenario, local' = local
  PROVE  OwnInv'
<1>1. Tools' = Tools
  BY DEF Tools
<1>2. \A u, x : LocalOK(u, x)' <=> LocalOK(u, x)
  <2>1. \A u : Interactive(u)' <=> Interactive(u)
    BY DEF Interactive, Job
  <2>2. \A u : Text(u)' = Text(u)
    BY <2>1 DEF Text
  <2> QED BY <2>1, <2>2 DEF LocalOK, Holds, Outcome
<1> QED BY <1>1, <1>2 DEF OwnInv

LEMMA InitOwn == Init => OwnInv
<1> SUFFICES ASSUME Init PROVE OwnInv
  OBVIOUS
<1>1. scenario \in Scenarios /\ DOMAIN local = Tools
  BY DEF Init
<1>2. ASSUME NEW t \in Tools PROVE LocalOK(t, local[t])
  <2>1. PICK heap, p, level : heap = [a \in Objects |-> "none"] /\ p = Object!NoObject /\ level = Job(t).level
    OBVIOUS
  <2>2. PICK l : l = [stage |-> "args", heap |-> heap, held |-> {}, code |-> -1, proto |-> p, size |-> 0,
                      data |-> <<>>, touched |-> FALSE, line |-> 1, level |-> level, printed |-> <<>>]
    OBVIOUS
  <2>3. local[t] = l
    BY <2>1, <2>2 DEF Init
  <2>4. DOMAIN l = Fields /\ l.stage = "args" /\ l.heap = heap /\ l.held = {} /\ l.code = -1 /\ l.touched = FALSE
    BY <2>2 DEF Fields
  <2>5. Tidy(l)
    BY <2>1, <2>4 DEF Tidy, Owned
  <2>6. l.code # 1
    BY <2>4
  <2>7. Holds(t, l)
    BY <2>4 DEF Holds
  <2>8. Outcome(t, l)
    BY <2>4, <2>6 DEF Outcome
  <2>9. LocalOK(t, l)
    BY <2>4, <2>5, <2>7, <2>8 DEF LocalOK
  <2> QED BY <2>3, <2>9
<1> QED BY <1>1, <1>2 DEF OwnInv

LEMMA NextOwn == OwnInv /\ [Next]_vars => OwnInv'
<1>1. ASSUME OwnInv, UNCHANGED vars PROVE OwnInv'
  BY <1>1, StillStep DEF vars
<1>2. ASSUME OwnInv, NEW t \in Tools, Proceed(t) PROVE OwnInv'
  <2>1. ASSUME RunInstruction(t) PROVE OwnInv'
    BY <1>2, <2>1, StillStep DEF RunInstruction
  <2> QED BY <1>2, <2>1, ArgumentsStep, ReadStep, CompileStep, KilledStep, CreateStep, OpenStep, WriteStep,
             MeasureStep, LoadStep, ExecuteStep, FinishStep, LineStep DEF Proceed
<1>3. ASSUME OwnInv, NEW t \in Tools, Kill(t) PROVE OwnInv'
  BY <1>3, KilledStep
<1> QED BY <1>1, <1>2, <1>3 DEF Next, Ended

LEMMA InvOwn == Spec => []OwnInv
BY InitOwn, NextOwn, PTL DEF Spec

\* A compiler, and any other tool, that returns 1 has not opened its output:
\* whatever stopped it, the previous output file is still there.
THEOREM FailuresKeepOutput == Spec => []FailureKeepsOutput
<1>1. OwnInv => FailureKeepsOutput
  BY DEF OwnInv, LocalOK, Outcome, FailureKeepsOutput
<1> QED BY <1>1, InvOwn, PTL

\* Wherever wirbleBuildPipelineArtifacts stops and whatever main function called
\* it, each object is freed once, after all that points to it, and nothing is
\* left at the end of a tool or of a line of the interpreter.
THEOREM HeapIsSound == Spec => []HeapSound
<1>1. ASSUME OwnInv PROVE HeapSound
  <2> SUFFICES ASSUME NEW t \in Tools, NEW a \in Objects
               PROVE  /\ local[t].heap[a] # "bad"
                      /\ local[t].stage \in {"done", "repl"} => local[t].heap[a] # "live"
    BY DEF HeapSound
  <2>1. Tidy(local[t]) /\ Holds(t, local[t])
    BY <1>1 DEF OwnInv, LocalOK
  <2>2. local[t].heap[a] = IF a \in Owned(local[t].held) THEN "live" ELSE "none"
    BY <2>1 DEF Tidy
  <2>3. local[t].stage \in {"done", "repl"} => local[t].held = {}
    BY <2>1 DEF Holds
  <2> QED BY <2>2, <2>3 DEF Owned
<1> QED BY <1>1, InvOwn, PTL

-----------------------------------------------------------------------------
(* What the interpreter prints.                                            *)

\* The source in hand, by the number of its line.
SourceAt(l) ==
  IF Interactive("iwirble") THEN Job("iwirble").lines[l.line].source ELSE Job("iwirble").source

\* It is an expression.
Asked(l) ==
  IF Interactive("iwirble") THEN l.line \in ExprLines(Job("iwirble"))
  ELSE Job("iwirble").source.kind # "MISSING"

Hampered == scenario.oom \/ Job("iwirble").target = "unknown"
Right(e, v) == HasValue(e) => v \in Meaning(e) \/ (v = VM!Nil /\ Hampered)

\* What has been printed is right, and so is the prototype in hand.
ReplInv(l) ==
  /\ l.line \in Nat \ {0}
  /\ IsSeq(l.printed) /\ \A i \in DOMAIN l.printed : Right(l.printed[i].source, l.printed[i].value)
  /\ l.stage \in {"compile", "create", "execute", "run"} => Asked(l)
  /\ l.stage \in {"create", "execute", "run"} =>
       \E c : /\ l.proto = ConstantPrototype(c)
              /\ HasValue(SourceAt(l)) => c \in ExactValues(SourceAt(l))

\* What the prototype of a constant computes.
ValueOf(p) == IF p.consts = <<>> THEN VM!FromInt(p.instrs[1].k) ELSE p.consts[1]

\* The machine before a run, and in one of the prototype p.
Fresh == stackCap = 4 /\ stackSize = 0 /\ status = "idle" /\ result = 1
Runs(p) ==
  /\ result = 1 /\ stackCap \in Nat /\ stackCap >= 2 /\ DOMAIN stack = 0..(stackCap - 1)
  /\ \/ /\ status = "running" /\ proto = p /\ pc \in {0, 1, 2}
        /\ pc # 0 => stack[1] = ValueOf(p)
        /\ pc = 2 => stack[0] = ValueOf(p)
     \/ status = "idle" /\ stack[0] = ValueOf(p)

\* One tool at a time has the machine, and finds it new.
MachineInv ==
  /\ \A t, u \in Tools : At(t, "run") /\ At(u, "run") => t = u
  /\ (\A t \in Tools : ~At(t, "run")) => Fresh
  /\ "iwirble" \in Tools /\ At("iwirble", "run") => Runs(local["iwirble"].proto)

PrintInv == ("iwirble" \in Tools => ReplInv(local["iwirble"])) /\ MachineInv

\* Only what is named is different.
Keep(m, l, changed) == DOMAIN m = Fields /\ \A f \in Fields \ changed : m[f] = l[f]

LEMMA KeepAllocate ==
  ASSUME NEW l, DOMAIN l = Fields, NEW objects
  PROVE  Keep(Allocate(l, objects), l, {"heap", "held"})
<1>1. PICK heap, held : Allocate(l, objects) = [l EXCEPT !.heap = heap, !.held = held]
  BY DEF Allocate
<1> QED BY <1>1 DEF Keep, Fields

LEMMA KeepFree ==
  ASSUME NEW l, DOMAIN l = Fields, NEW pointers
  PROVE  Keep(Free(l, pointers), l, {"heap", "held"})
<1>1. PICK heap, held : Free(l, pointers) = [l EXCEPT !.heap = heap, !.held = held]
  BY DEF Free
<1> QED BY <1>1 DEF Keep, Fields

LEMMA KeepError ==
  ASSUME NEW l, DOMAIN l = Fields, NEW m \in wirble_set_error(l)
  PROVE  Keep(m, l, {"heap", "held"})
<1>1. PICK f : f = Free(l, <<"errorMessage">>)
  OBVIOUS
<1>2. Keep(f, l, {"heap", "held"})
  BY <1>1, KeepFree
<1>3. CASE m = Allocate(f, {"errorMessage"})
  BY <1>2, <1>3, KeepAllocate DEF Keep
<1>4. CASE m = f
  BY <1>2, <1>4
<1> QED BY <1>1, <1>3, <1>4 DEF wirble_set_error

LEMMA KeepExit ==
  ASSUME NEW l, DOMAIN l = Fields, NEW code
  PROVE  /\ Keep(Exit(l, code), l, {"heap", "held", "stage", "code"})
         /\ Exit(l, code).stage = "done"
<1>1. PICK f : f = Free(l, <<"source", "errorMessage", "vm", "proto">>)
  OBVIOUS
<1>2. Keep(f, l, {"heap", "held"})
  BY <1>1, KeepFree
<1>3. PICK m : m = [f EXCEPT !.stage = "done", !.code = code]
  OBVIOUS
<1>4. Keep(m, f, {"stage", "code"}) /\ m.stage = "done"
  BY <1>2, <1>3 DEF Keep, Fields
<1>5. Exit(l, code) = m
  BY <1>1, <1>3 DEF Exit
<1> QED BY <1>2, <1>4, <1>5 DEF Keep

\* A build touches the heap; it fails, and has a value, for the reasons named.
LEMMA KeepBuild ==
  ASSUME NEW l, DOMAIN l = Fields, NEW e, NEW options, NEW level,
         NEW b \in wirbleBuildPipelineArtifacts(l, e, options, level)
  PROVE  /\ Keep(b.l, l, {"heap", "held"}) /\ b.built \in BOOLEAN
         /\ ~b.built => Stops(e, options, level) # {}
         /\ b.built => /\ options.target # "unknown" /\ e.kind # "MALFORMED"
                       /\ b.value \in Compiled(Folded(e), level)
<1>1. ASSUME NEW n, NEW skipped
      PROVE  Keep(Made(l, level, n, skipped), l, {"heap", "held"})
  BY KeepAllocate DEF Made
<1>2. CASE \E n \in Stops(e, options, level), skipped \in Optional :
             \E m \in wirble_set_error(Cleanup(Made(l, level, n, skipped))) :
               b = [built |-> FALSE, l |-> m, value |-> 0]
  <2>1. PICK n \in Stops(e, options, level), skipped \in Optional :
             \E m \in wirble_set_error(Cleanup(Made(l, level, n, skipped))) :
               b = [built |-> FALSE, l |-> m, value |-> 0]
    BY <1>2
  <2>2. PICK made : made = Made(l, level, n, skipped)
    OBVIOUS
  <2>3. Keep(made, l, {"heap", "held"})
    BY <1>1, <2>2
  <2>4. PICK f : f = Free(made, <<"wrs", "mrs">>)
    OBVIOUS
  <2>5. Keep(f, made, {"heap", "held"})
    BY <2>3, <2>4, KeepFree DEF Keep
  <2>6. PICK d : d = wirblePipelineArtifactsDestroy(f)
    OBVIOUS
  <2>7. Keep(d, f, {"heap", "held"})
    BY <2>5, <2>6, KeepFree DEF Keep, wirblePipelineArtifactsDestroy
  <2>8. PICK m \in wirble_set_error(d) : b = [built |-> FALSE, l |-> m, value |-> 0]
    BY <2>1, <2>2, <2>4, <2>6 DEF Cleanup
  <2>9. Keep(m, d, {"heap", "held"})
    BY <2>7, <2>8, KeepError DEF Keep
  <2>10. Keep(m, l, {"heap", "held"})
    BY <2>3, <2>5, <2>7, <2>9 DEF Keep
  <2>11. b.l = m /\ b.built = FALSE
    BY <2>8
  <2> QED BY <2>1, <2>10, <2>11
<1>3. CASE \E c \in IF options.target = "unknown" \/ e.kind = "MALFORMED" THEN {} ELSE Compiled(Folded(e), level) :
             \E skipped \in {o \in Optional : ~RulesFail(options, level, o)} :
               b = [built |-> TRUE, value |-> c, l |-> Free(Made(l, level, Len(Plan), skipped), <<"wrs", "mrs">>)]
  <2>1. PICK c, skipped :
          /\ c \in IF options.target = "unknown" \/ e.kind = "MALFORMED" THEN {} ELSE Compiled(Folded(e), level)
          /\ b = [built |-> TRUE, value |-> c, l |-> Free(Made(l, level, Len(Plan), skipped), <<"wrs", "mrs">>)]
    BY <1>3
  <2>2. PICK made : made = Made(l, level, Len(Plan), skipped)
    OBVIOUS
  <2>3. Keep(made, l, {"heap", "held"})
    BY <1>1, <2>2
  <2>4. PICK f : f = Free(made, <<"wrs", "mrs">>)
    OBVIOUS
  <2>5. Keep(f, made, {"heap", "held"})
    BY <2>3, <2>4, KeepFree DEF Keep
  <2>6. b = [built |-> TRUE, value |-> c, l |-> f]
    BY <2>1, <2>2, <2>4
  <2>7. b.built = TRUE /\ b.value = c /\ b.l = f
    BY <2>6
  <2>8. Keep(f, l, {"heap", "held"})
    BY <2>3, <2>5 DEF Keep
  <2> QED BY <2>1, <2>7, <2>8
<1> QED BY <1>2, <1>3 DEF wirbleBuildPipelineArtifacts

LEMMA KeepHandOver ==
  ASSUME NEW l, DOMAIN l = Fields
  PROVE  Keep(HandOver(l), l, {"heap", "held"})
<1>1. PICK m : m = [l EXCEPT !.held = (@ \ {"wvmPrototype"}) \cup {"proto"}]
  OBVIOUS
<1>2. Keep(m, l, {"heap", "held"})
  BY <1>1 DEF Keep, Fields
<1>3. PICK d : d = wirblePipelineArtifactsDestroy(m)
  OBVIOUS
<1>4. Keep(d, m, {"heap", "held"})
  BY <1>2, <1>3, KeepFree DEF Keep, wirblePipelineArtifactsDestroy
<1>5. HandOver(l) = d
  BY <1>1, <1>3 DEF HandOver
<1> QED BY <1>2, <1>4, <1>5 DEF Keep

\* A prototype of a constant computes its low bits.
LEMMA ConstantFacts ==
  ASSUME NEW c, NEW p, p = ConstantPrototype(c)
  PROVE  /\ ValueOf(p) = VM!FromInt(Narrow(c)) /\ p.regCount = 2
         /\ Len(p.instrs) = 3 /\ p.instrs[1].a = 1
         /\ p.instrs[2] = Op("MOVE", 0, 1, 0) /\ p.instrs[3] = Op("RETURN", 0, 0, 0)
         /\ \/ p.instrs[1].op = "LOAD_IMM" /\ VM!FromInt(p.instrs[1].k) = ValueOf(p)
            \/ p.instrs[1].op = "LOAD_CONST" /\ p.consts[p.instrs[1].k + 1] = ValueOf(p)
<1>1. CASE c \in Word
  <2>1. PICK i, j, k : i = Op("LOAD_IMM", 1, 0, c) /\ j = Op("MOVE", 0, 1, 0) /\ k = Op("RETURN", 0, 0, 0)
    OBVIOUS
  <2>2. p = [regCount |-> 2, consts |-> <<>>, instrs |-> <<i, j, k>>]
    BY <1>1, <2>1 DEF ConstantPrototype
  <2>3. p.regCount = 2 /\ p.consts = <<>> /\ p.instrs = <<i, j, k>>
    BY <2>2
  <2>4. i.op = "LOAD_IMM" /\ i.a = 1 /\ i.k = c
    BY <2>1 DEF Op
  <2>5. Narrow(c) = c
    BY <1>1, FoldingAssumption
  <2> QED BY <2>1, <2>3, <2>4, <2>5 DEF ValueOf
<1>2. CASE c \notin Word
  <2>1. PICK i, j, k, v : /\ i = Op("LOAD_CONST", 1, 0, 0) /\ j = Op("MOVE", 0, 1, 0) /\ k = Op("RETURN", 0, 0, 0)
                          /\ v = VM!FromInt(Narrow(c))
    OBVIOUS
  <2>2. p = [regCount |-> 2, consts |-> <<v>>, instrs |-> <<i, j, k>>]
    BY <1>2, <2>1 DEF ConstantPrototype
  <2>3. p.regCount = 2 /\ p.consts = <<v>> /\ p.instrs = <<i, j, k>>
    BY <2>2
  <2>4. i.op = "LOAD_CONST" /\ i.a = 1 /\ i.k = 0
    BY <2>1 DEF Op
  <2>5. p.consts # <<>> /\ p.consts[1] = v
    BY <2>3
  <2> QED BY <2>1, <2>3, <2>4, <2>5 DEF ValueOf
<1> QED BY <1>1, <1>2

\* What holds of the interpreter's state depends on the scenario only.
LEMMA ReplPrimed ==
  ASSUME scenario' = scenario
  PROVE  /\ Tools' = Tools
         /\ \A x : ReplInv(x)' <=> ReplInv(x)
<1>1. Tools' = Tools /\ Job("iwirble")' = Job("iwirble")
  BY DEF Tools, Job
<1>2. (Interactive("iwirble")' <=> Interactive("iwirble")) /\ (Hampered' <=> Hampered)
  BY <1>1 DEF Interactive, Hampered
<1>3. \A x : SourceAt(x)' = SourceAt(x) /\ (Asked(x)' <=> Asked(x))
  BY <1>1, <1>2 DEF SourceAt, Asked
<1>4. \A e, v : Right(e, v)' <=> Right(e, v)
  BY <1>2 DEF Right
<1> QED BY <1>1, <1>3, <1>4 DEF ReplInv

\* A step of a tool that neither takes nor leaves the machine.
LEMMA QuietStep ==
  ASSUME OwnInv, PrintInv, scenario' = scenario, UNCHANGED machine, NEW t \in Tools, NEW l, Become(t, l),
         local[t].stage # "run", l.stage # "run", t = "iwirble" => ReplInv(l)
  PROVE  PrintInv'
<1>1. Tools' = Tools /\ \A x : ReplInv(x)' <=> ReplInv(x)
  BY ReplPrimed
<1>2. DOMAIN local = Tools /\ local' = [local EXCEPT ![t] = l]
  BY DEF OwnInv, Become
<1>3. \A u \in Tools : local'[u] = IF u = t THEN l ELSE local[u]
  BY <1>2
<1>4. \A u \in Tools : At(u, "run")' <=> At(u, "run")
  BY <1>3 DEF At
<1>5. "iwirble" \in Tools => ReplInv(local'["iwirble"])
  BY <1>3 DEF PrintInv
<1>6. (Fresh' <=> Fresh) /\ \A p : Runs(p)' <=> Runs(p)
  BY DEF Fresh, Runs, machine
<1>7. MachineInv
  BY DEF PrintInv
<1>8. \A v, u \in Tools : local'[v].stage = "run" /\ local'[u].stage = "run" => v = u
  BY <1>4, <1>7 DEF MachineInv, At
<1>9. (\A v \in Tools : local'[v].stage # "run") => Fresh'
  BY <1>4, <1>6, <1>7 DEF MachineInv, At
<1>10. "iwirble" \in Tools /\ local'["iwirble"].stage = "run" => Runs(local'["iwirble"].proto)
  BY <1>3, <1>7 DEF MachineInv, At
<1>11. MachineInv'
  BY <1>1, <1>6, <1>8, <1>9, <1>10 DEF MachineInv, At
<1>12. ("iwirble" \in Tools => ReplInv(local["iwirble"]))'
  BY <1>1, <1>5
<1> QED BY <1>11, <1>12 DEF PrintInv

LEMMA ReplKept ==
  ASSUME NEW l, ReplInv(l), NEW m, m.line = l.line, m.printed = l.printed,
         m.stage \notin {"compile", "create", "execute", "run"}
  PROVE  ReplInv(m)
BY DEF ReplInv

\* A line is over, with a value that is right.
LEMMA EvaluatedInv ==
  ASSUME NEW l, DOMAIN l = Fields, ReplInv(l), l.line = local["iwirble"].line,
         NEW v, Right(SourceAt(l), v), NEW m, m = Evaluated("iwirble", l, v)
  PROVE  ReplInv(m) /\ m.stage \in {"repl", "done"}
<1>1. PICK f : f = Free(l, <<"vm", "proto", "errorMessage">>)
  OBVIOUS
<1>2. Keep(f, l, {"heap", "held"})
  BY <1>1, KeepFree
<1>3. DOMAIN f = Fields /\ f.line = l.line /\ f.printed = l.printed
  BY <1>2 DEF Keep, Fields
<1>4. PICK r : r = [source |-> Source("iwirble"), value |-> v]
  OBVIOUS
<1>5. r.source = SourceAt(l) /\ r.value = v
  BY <1>4 DEF Source, SourceAt, Line
<1>6. PICK w : w = Append(f.printed, r)
  OBVIOUS
<1>7. IsSeq(w) /\ \A i \in DOMAIN w : Right(w[i].source, w[i].value)
  <2>1. IsSeq(l.printed) /\ \A i \in DOMAIN l.printed : Right(l.printed[i].source, l.printed[i].value)
    BY DEF ReplInv
  <2>2. Len(l.printed) \in Nat /\ DOMAIN l.printed = 1..Len(l.printed)
    BY <2>1, SeqFacts
  <2>3. /\ IsSeq(w) /\ Len(w) = Len(l.printed) + 1 /\ w[Len(l.printed) + 1] = r
        /\ \A i \in 1..Len(l.printed) : w[i] = l.printed[i]
    BY <1>3, <1>6, <2>1, AppendSeq
  <2>4. DOMAIN w = 1..(Len(l.printed) + 1)
    BY <2>3, SeqFacts
  <2>5. \A i \in DOMAIN w : i \in 1..Len(l.printed) \/ i = Len(l.printed) + 1
    BY <2>2, <2>4
  <2> QED BY <1>5, <2>1, <2>2, <2>3, <2>5
<1>8. PICK s : s = [f EXCEPT !.printed = w]
  OBVIOUS
<1>9. DOMAIN s = Fields /\ s.printed = w /\ s.line = l.line
  BY <1>3, <1>8 DEF Fields
<1>10. l.line \in Nat \ {0}
  BY DEF ReplInv
<1>11. m = IF Interactive("iwirble") THEN [s EXCEPT !.stage = "repl", !.line = s.line + 1]
           ELSE Exit(s, IF v = VM!Nil THEN 1 ELSE 0)
  BY <1>1, <1>4, <1>6, <1>8 DEF Evaluated
<1>12. m.stage \in {"repl", "done"} /\ m.printed = w /\ m.line \in Nat \ {0}
  <2>1. CASE Interactive("iwirble")
    <3>1. PICK k : k = s.line + 1
      OBVIOUS
    <3>2. m = [s EXCEPT !.stage = "repl", !.line = k]
      BY <1>11, <2>1, <3>1
    <3>3. m.stage = "repl" /\ m.printed = w /\ m.line = k
      BY <1>9, <3>2 DEF Fields
    <3>4. k \in Nat \ {0}
      BY <1>9, <1>10, <3>1
    <3> QED BY <3>3, <3>4
  <2>2. CASE ~Interactive("iwirble")
    <3>1. PICK c : c = IF v = VM!Nil THEN 1 ELSE 0
      OBVIOUS
    <3>2. m = Exit(s, c)
      BY <1>11, <2>2, <3>1
    <3>3. Keep(m, s, {"heap", "held", "stage", "code"}) /\ m.stage = "done"
      BY <1>9, <3>2, KeepExit
    <3> QED BY <1>9, <1>10, <3>3 DEF Keep, Fields
  <2> QED BY <2>1, <2>2
<1> QED BY <1>7, <1>12 DEF ReplInv

\* A failure, which needs a reason if the source has a value.
LEMMA GiveUpInv ==
  ASSUME NEW t, NEW l, DOMAIN l = Fields, NEW m, m = GiveUp(t, l),
         t = "iwirble" => /\ ReplInv(l) /\ l.line = local["iwirble"].line
                          /\ HasValue(SourceAt(l)) => Hampered
  PROVE  m.stage # "run" /\ (t = "iwirble" => ReplInv(m))
<1>1. CASE t = "iwirble"
  <2>1. m = Evaluated("iwirble", l, VM!Nil)
    BY <1>1 DEF GiveUp
  <2>2. Right(SourceAt(l), VM!Nil)
    BY <1>1 DEF Right
  <2> QED BY <1>1, <2>1, <2>2, EvaluatedInv
<1>2. CASE t # "iwirble"
  <2>1. m = Exit(l, 1)
    BY <1>2 DEF GiveUp
  <2> QED BY <1>2, <2>1, KeepExit
<1> QED BY <1>1, <1>2

\* What the invariants say of one tool.
LEMMA ReplNow ==
  ASSUME OwnInv, PrintInv, NEW t \in Tools, NEW l, l = local[t]
  PROVE  /\ DOMAIN l = Fields /\ Outcome(t, l)
         /\ t = "iwirble" => ReplInv(l) /\ l.line = local["iwirble"].line
BY LocalFacts DEF PrintInv

LEMMA ArgumentsPrint ==
  ASSUME OwnInv, PrintInv, NEW t \in Tools, ParseArguments(t)
  PROVE  PrintInv'
<1>1. PICK l : l = local[t]
  OBVIOUS
<1>2. l.stage = "args" /\ scenario' = scenario /\ UNCHANGED machine
  BY <1>1 DEF ParseArguments, At
<1>3. DOMAIN l = Fields /\ (t = "iwirble" => ReplInv(l))
  BY <1>1, ReplNow
<1>4. PICK m : m = Exit(l, 1)
  OBVIOUS
<1>5. Keep(m, l, {"heap", "held", "stage", "code"}) /\ m.stage = "done"
  BY <1>3, <1>4, KeepExit
<1>6. PICK stage : stage = IF t = "wvm-run" THEN "create" ELSE IF Interactive(t) THEN "repl" ELSE "read"
  OBVIOUS
<1>7. PICK x : x = [l EXCEPT !.stage = stage]
  OBVIOUS
<1>8. x.stage = stage /\ x.line = l.line /\ x.printed = l.printed /\ m.line = l.line /\ m.printed = l.printed
  BY <1>3, <1>5, <1>7 DEF Keep, Fields
<1>9. stage # "run" /\ (t = "iwirble" => stage \in {"repl", "read"})
  BY <1>6
<1>10. t = "iwirble" => ReplInv(m) /\ ReplInv(x)
  BY <1>3, <1>5, <1>8, <1>9, ReplKept
<1>11. Become(t, m) \/ Become(t, x)
  BY <1>1, <1>4, <1>6, <1>7 DEF ParseArguments
<1> QED BY <1>1, <1>2, <1>5, <1>8, <1>9, <1>10, <1>11, QuietStep

LEMMA ReadPrint ==
  ASSUME OwnInv, PrintInv, NEW t \in Tools, wirbleReadFile(t)
  PROVE  PrintInv'
<1>1. PICK l : l = local[t]
  OBVIOUS
<1>2. l.stage = "read" /\ scenario' = scenario /\ UNCHANGED machine
  BY <1>1 DEF wirbleReadFile, At
<1>3. DOMAIN l = Fields /\ (t = "iwirble" => ReplInv(l)) /\ ~Interactive(t)
  <2>1. DOMAIN l = Fields /\ Outcome(t, l) /\ (t = "iwirble" => ReplInv(l))
    BY <1>1, ReplNow
  <2> QED BY <1>2, <2>1 DEF Outcome
<1>4. CASE Job(t).source.kind # "MISSING" /\ Become(t, [Allocate(l, {"source"}) EXCEPT !.stage = "compile"])
  <2>1. PICK x : x = Allocate(l, {"source"})
    OBVIOUS
  <2>2. Keep(x, l, {"heap", "held"})
    BY <1>3, <2>1, KeepAllocate
  <2>3. PICK m : m = [x EXCEPT !.stage = "compile"]
    OBVIOUS
  <2>4. m.stage = "compile" /\ m.line = l.line /\ m.printed = l.printed
    BY <2>2, <2>3 DEF Keep, Fields
  <2>5. t = "iwirble" => Asked(m)
    BY <1>3, <1>4 DEF Asked
  <2>6. t = "iwirble" => ReplInv(m)
    BY <1>3, <2>4, <2>5 DEF ReplInv
  <2> QED BY <1>1, <1>2, <1>4, <2>1, <2>3, <2>4, <2>6, QuietStep
<1>5. CASE \E m \in wirble_set_error(l) : Become(t, Exit(m, 1))
  <2>1. PICK m \in wirble_set_error(l) : Become(t, Exit(m, 1))
    BY <1>5
  <2>2. Keep(m, l, {"heap", "held"})
    BY <1>3, KeepError
  <2>3. PICK x : x = Exit(m, 1)
    OBVIOUS
  <2>4. Keep(x, m, {"heap", "held", "stage", "code"}) /\ x.stage = "done"
    BY <2>2, <2>3, KeepExit DEF Keep
  <2>5. x.line = l.line /\ x.printed = l.printed
    BY <2>2, <2>4 DEF Keep, Fields
  <2>6. t = "iwirble" => ReplInv(x)
    BY <1>3, <2>4, <2>5, ReplKept
  <2> QED BY <1>1, <1>2, <2>1, <2>3, <2>4, <2>6, QuietStep
<1> QED BY <1>1, <1>4, <1>5 DEF wirbleReadFile

\* An expression the interpreter is asked for is one of its sources.
LEMMA AskedSource ==
  ASSUME OwnInv, "iwirble" \in Tools, NEW l, Asked(l), HasValue(SourceAt(l))
  PROVE  Folded(SourceAt(l)).kind = "INT" /\ Folded(SourceAt(l)).value \in ExactValues(SourceAt(l))
<1>1. PICK job, e : job = Job("iwirble") /\ e = SourceAt(l)
  OBVIOUS
<1>2. scenario \in Scenarios /\ "iwirble" \in DOMAIN scenario.jobs /\ job = scenario.jobs["iwirble"]
  BY <1>1 DEF OwnInv, Tools, Job
<1>3. e \in SourcesOf(job) /\ e.kind # "MISSING"
  <2>1. CASE Interactive("iwirble")
    <3>1. l.line \in ExprLines(job) /\ e = job.lines[l.line].source
      BY <1>1, <2>1 DEF Asked, SourceAt
    <3>2. \A i \in ExprLines(job) : job.lines[i].source.kind # "MISSING"
      BY <1>2, ScenariosAssumption
    <3> QED BY <3>1, <3>2 DEF SourcesOf
  <2>2. CASE ~Interactive("iwirble")
    <3>1. e = job.source /\ job.source.kind # "MISSING"
      BY <1>1, <2>2 DEF Asked, SourceAt
    <3> QED BY <3>1 DEF SourcesOf
  <2> QED BY <2>1, <2>2
<1>4. HasValue(e)
  BY <1>1
<1>5. Folded(e).kind = "INT" /\ Folded(e).value \in ExactValues(e)
  BY <1>2, <1>3, <1>4, FoldingAssumption
<1> QED BY <1>1, <1>5

LEMMA CompilePrint ==
  ASSUME OwnInv, PrintInv, NEW t \in Tools, Compile(t)
  PROVE  PrintInv'
<1>1. PICK l : l = local[t]
  OBVIOUS
<1>2. l.stage = "compile" /\ scenario' = scenario /\ UNCHANGED machine
  BY <1>1 DEF Compile, At
<1>3. DOMAIN l = Fields /\ (t = "iwirble" => ReplInv(l) /\ l.line = local["iwirble"].line)
  BY <1>1, ReplNow
<1>4. PICK b \in wirbleBuildPipelineArtifacts(l, Source(t), Job(t), l.level) :
        Become(t, IF ~b.built THEN GiveUp(t, b.l)
                  ELSE IF Job(t).symbolic THEN [b.l EXCEPT !.stage = "open"]
                  ELSE [HandOver(b.l) EXCEPT !.stage = "create", !.proto = ConstantPrototype(b.value)])
  BY <1>1 DEF Compile
<1>5. PICK x : x = b.l
  OBVIOUS
<1>6. /\ Keep(x, l, {"heap", "held"}) /\ b.built \in BOOLEAN
      /\ ~b.built => Stops(Source(t), Job(t), l.level) # {}
      /\ b.built => b.value \in Compiled(Folded(Source(t)), l.level)
  BY <1>3, <1>4, <1>5, KeepBuild
<1>7. /\ DOMAIN x = Fields /\ x.stage = "compile" /\ x.line = l.line /\ x.printed = l.printed
      /\ x.proto = l.proto
  BY <1>2, <1>6 DEF Keep, Fields
<1>8. t = "iwirble" => /\ Source(t) = SourceAt(l) /\ Asked(l)
                       /\ \A m : m.line = l.line => SourceAt(m) = SourceAt(l) /\ (Asked(m) <=> Asked(l))
  BY <1>1, <1>2, <1>3 DEF Source, SourceAt, Line, Asked, ReplInv
<1>9. t = "iwirble" => ReplInv(x)
  BY <1>3, <1>7, <1>8 DEF ReplInv
<1>10. t = "iwirble" /\ HasValue(SourceAt(l)) =>
         Folded(SourceAt(l)).kind = "INT" /\ Folded(SourceAt(l)).value \in ExactValues(SourceAt(l))
  BY <1>8, AskedSource
<1>11. CASE ~b.built
  <2>1. PICK m : m = GiveUp(t, x)
    OBVIOUS
  <2>2. Become(t, m)
    BY <1>4, <1>5, <1>11, <2>1
  <2>3. t = "iwirble" /\ HasValue(SourceAt(x)) => Hampered
    <3> SUFFICES ASSUME t = "iwirble", HasValue(SourceAt(x)), ~Hampered PROVE FALSE
      OBVIOUS
    <3>1. SourceAt(x) = SourceAt(l) /\ Source(t) = SourceAt(l)
      BY <1>7, <1>8
    <3>2. ~scenario.oom /\ Job(t).target # "unknown"
      BY DEF Hampered
    <3>3. Folded(Source(t)).kind = "INT" /\ Source(t).kind # "MALFORMED"
      BY <1>10, <3>1 DEF HasValue
    <3>4. ~Job(t).noRules
      BY ScenariosAssumption DEF OwnInv, Tools, Job
    <3>5. Stops(Source(t), Job(t), l.level) = {}
      BY <3>2, <3>3, <3>4 DEF Stops, RulesFail
    <3> QED BY <1>6, <1>11, <3>5
  <2>4. m.stage # "run" /\ (t = "iwirble" => ReplInv(m))
    BY <1>3, <1>7, <1>9, <2>1, <2>3, GiveUpInv
  <2> QED BY <1>1, <1>2, <2>2, <2>4, QuietStep
<1>12. CASE b.built /\ Job(t).symbolic
  <2>1. PICK m : m = [x EXCEPT !.stage = "open"]
    OBVIOUS
  <2>2. Become(t, m) /\ m.stage = "open"
    BY <1>4, <1>5, <1>7, <1>12, <2>1 DEF Fields
  <2>3. t # "iwirble"
    BY <1>12, ToolNames DEF Job
  <2> QED BY <1>1, <1>2, <2>2, <2>3, QuietStep
<1>13. CASE b.built /\ ~Job(t).symbolic
  <2>1. PICK h, p : h = HandOver(x) /\ p = ConstantPrototype(b.value)
    OBVIOUS
  <2>2. Keep(h, x, {"heap", "held"})
    BY <1>7, <2>1, KeepHandOver
  <2>3. PICK m : m = [h EXCEPT !.stage = "create", !.proto = p]
    OBVIOUS
  <2>4. Become(t, m)
    BY <1>4, <1>5, <1>13, <2>1, <2>3
  <2>5. m.stage = "create" /\ m.proto = p /\ m.line = l.line /\ m.printed = l.printed
    BY <1>7, <2>2, <2>3 DEF Keep, Fields
  <2>6. t = "iwirble" /\ HasValue(SourceAt(m)) => b.value \in ExactValues(SourceAt(m))
    <3> SUFFICES ASSUME t = "iwirble", HasValue(SourceAt(m)) PROVE b.value \in ExactValues(SourceAt(m))
      OBVIOUS
    <3>1. SourceAt(m) = SourceAt(l) /\ Source(t) = SourceAt(l)
      BY <1>8, <2>5
    <3>2. b.value = Folded(SourceAt(l)).value
      BY <1>6, <1>10, <1>13, <3>1 DEF Compiled
    <3> QED BY <1>10, <3>1, <3>2
  <2>7. t = "iwirble" => ReplInv(m)
    BY <1>3, <1>8, <2>1, <2>5, <2>6 DEF ReplInv
  <2> QED BY <1>1, <1>2, <2>4, <2>5, <2>7, QuietStep
<1> QED BY <1>6, <1>11, <1>12, <1>13

LEMMA KilledPrint ==
  ASSUME OwnInv, PrintInv, NEW t \in Tools, Kill(t) \/ CompileTraps(t)
  PROVE  PrintInv'
<1>1. PICK l : l = local[t]
  OBVIOUS
<1>2. DOMAIN l = Fields /\ Outcome(t, l) /\ (t = "iwirble" => ReplInv(l))
  BY <1>1, ReplNow
<1>3. PICK m : m = [l EXCEPT !.stage = "killed"]
  OBVIOUS
<1>4. scenario' = scenario /\ UNCHANGED machine /\ Become(t, m) /\ l.stage # "run"
  <2>1. CASE Kill(t)
    BY <1>1, <1>2, <1>3, <2>1 DEF Kill, Outcome
  <2>2. CASE CompileTraps(t)
    BY <1>1, <1>3, <2>2 DEF CompileTraps, At
  <2> QED BY <2>1, <2>2
<1>5. m.stage = "killed" /\ m.line = l.line /\ m.printed = l.printed
  BY <1>2, <1>3 DEF Fields
<1>6. t = "iwirble" => ReplInv(m)
  BY <1>2, <1>5, ReplKept
<1> QED BY <1>1, <1>4, <1>5, <1>6, QuietStep

LEMMA CreatePrint ==
  ASSUME OwnInv, PrintInv, NEW t \in Tools, wvmCreate(t)
  PROVE  PrintInv'
<1>1. PICK l : l = local[t]
  OBVIOUS
<1>2. l.stage = "create" /\ scenario' = scenario /\ UNCHANGED machine
  BY <1>1 DEF wvmCreate, At
<1>3. DOMAIN l = Fields /\ (t = "iwirble" => ReplInv(l) /\ l.line = local["iwirble"].line)
  BY <1>1, ReplNow
<1>4. PICK x, stage : /\ x = Allocate(l, {"vm"})
                      /\ stage = IF t \in Compilers THEN "open" ELSE IF t = "wvm-run" THEN "size" ELSE "execute"
  OBVIOUS
<1>5. Keep(x, l, {"heap", "held"})
  BY <1>3, <1>4, KeepAllocate
<1>6. PICK m : m = [x EXCEPT !.stage = stage]
  OBVIOUS
<1>7. m.stage = stage /\ m.line = l.line /\ m.printed = l.printed /\ m.proto = l.proto
  BY <1>5, <1>6 DEF Keep, Fields
<1>8. stage # "run" /\ (t = "iwirble" => stage = "execute")
  BY <1>4 DEF Compilers
<1>9. t = "iwirble" => ReplInv(m)
  BY <1>2, <1>3, <1>7, <1>8 DEF ReplInv, Asked, SourceAt
<1>10. PICK g : g = GiveUp(t, l)
  OBVIOUS
<1>11. scenario.oom => g.stage # "run" /\ (t = "iwirble" => ReplInv(g))
  BY <1>3, <1>10, GiveUpInv DEF Hampered
<1>12. Become(t, m) \/ (scenario.oom /\ Become(t, g))
  BY <1>1, <1>4, <1>6, <1>10 DEF wvmCreate
<1> QED BY <1>1, <1>2, <1>7, <1>8, <1>9, <1>11, <1>12, QuietStep

\* The steps on the output file are the compilers' and wvm-run's.
LEMMA FilePrint ==
  ASSUME OwnInv, PrintInv, NEW t \in Tools,
         OpenOutput(t) \/ WriteOutput(t) \/ MeasureFile(t) \/ LoadFile(t)
  PROVE  PrintInv'
<1>1. PICK l : l = local[t]
  OBVIOUS
<1>2. l.stage \in {"open", "write", "size", "fread"} /\ scenario' = scenario /\ UNCHANGED machine
  BY <1>1 DEF OpenOutput, WriteOutput, MeasureFile, LoadFile, At
<1>3. DOMAIN l = Fields /\ t # "iwirble"
  <2>1. DOMAIN l = Fields /\ Outcome(t, l)
    BY <1>1, ReplNow
  <2> QED BY <1>2, <2>1 DEF Outcome, Compilers
<1>4. \A x, code : DOMAIN x = Fields => Exit(x, code).stage # "run"
  BY KeepExit
<1>5. DOMAIN wirblePipelineArtifactsDestroy(l) = Fields
  BY <1>3, KeepFree DEF wirblePipelineArtifactsDestroy, Keep
<1>6. \E m : Become(t, m) /\ m.stage # "run"
  <2>1. CASE OpenOutput(t)
    <3>1. CASE \E bytes : Become(t, [l EXCEPT !.stage = "write", !.data = bytes, !.touched = TRUE])
      <4>1. PICK bytes : Become(t, [l EXCEPT !.stage = "write", !.data = bytes, !.touched = TRUE])
        BY <3>1
      <4>2. [l EXCEPT !.stage = "write", !.data = bytes, !.touched = TRUE].stage = "write"
        BY <1>3 DEF Fields
      <4> QED BY <4>1, <4>2
    <3>2. CASE Become(t, Exit(wirblePipelineArtifactsDestroy(l), 1))
      BY <1>4, <1>5, <3>2
    <3> QED BY <1>1, <2>1, <3>1, <3>2 DEF OpenOutput
  <2>2. CASE WriteOutput(t)
    BY <1>1, <1>4, <1>5, <2>2 DEF WriteOutput
  <2>3. CASE MeasureFile(t)
    <3>1. PICK n : n = Len(disk)
      OBVIOUS
    <3>2. CASE Become(t, [l EXCEPT !.stage = "fread", !.size = n])
      <4>1. [l EXCEPT !.stage = "fread", !.size = n].stage = "fread"
        BY <1>3 DEF Fields
      <4> QED BY <3>2, <4>1
    <3>3. CASE Become(t, Exit(l, 1))
      BY <1>3, <1>4, <3>3
    <3> QED BY <1>1, <2>3, <3>1, <3>2, <3>3 DEF MeasureFile
  <2>4. CASE LoadFile(t)
    <3>1. ASSUME NEW bytes, NEW p PROVE Loaded(l, bytes, p).stage # "run"
      <4>1. PICK x : x = [l EXCEPT !.data = bytes]
        OBVIOUS
      <4>2. DOMAIN x = Fields
        BY <1>3, <4>1
      <4>3. PICK y : y = Allocate(l, {"wvmPrototype"})
        OBVIOUS
      <4>4. DOMAIN y = Fields
        BY <1>3, <4>3, KeepAllocate DEF Keep
      <4>5. PICK h : h = (y.held \ {"wvmPrototype"}) \cup {"proto"}
        OBVIOUS
      <4>6. PICK z : z = [y EXCEPT !.held = h, !.stage = "execute", !.data = bytes, !.proto = p]
        OBVIOUS
      <4>7. z.stage = "execute"
        BY <4>4, <4>6 DEF Fields
      <4>8. Loaded(l, bytes, p) = Exit(x, 1) \/ Loaded(l, bytes, p) = z
        BY <4>1, <4>3, <4>5, <4>6 DEF Loaded
      <4> QED BY <1>4, <4>2, <4>7, <4>8
    <3>2. \/ Become(t, Exit(l, 1))
          \/ Become(t, Loaded(l, SubSeq(disk, 1, l.size), Object!wvmReadObjectMemory(SubSeq(disk, 1, l.size))))
      BY <1>1, <2>4 DEF LoadFile
    <3> QED BY <1>3, <1>4, <3>1, <3>2
  <2> QED BY <2>1, <2>2, <2>3, <2>4
<1> QED BY <1>1, <1>2, <1>3, <1>6, QuietStep

LEMMA LinePrint ==
  ASSUME OwnInv, PrintInv, NEW t \in Tools, iwirble_execute(t)
  PROVE  PrintInv'
<1>1. PICK l : l = local[t]
  OBVIOUS
<1>2. l.stage = "repl" /\ scenario' = scenario /\ UNCHANGED machine
  BY <1>1 DEF iwirble_execute, At
<1>3. DOMAIN l = Fields /\ t = "iwirble" /\ ReplInv(l)
  <2>1. DOMAIN l = Fields /\ Outcome(t, l) /\ (t = "iwirble" => ReplInv(l))
    BY <1>1, ReplNow
  <2> QED BY <1>2, <2>1 DEF Outcome
<1>4. PICK line, level : line = l.line + 1 /\ level = Line(t).level
  OBVIOUS
<1>5. l.line \in Nat \ {0} /\ line \in Nat \ {0} /\ Len(Job(t).lines) \in Nat
  <2>1. scenario \in Scenarios /\ t \in DOMAIN scenario.jobs
    BY DEF OwnInv, Tools
  <2>2. Len(Job(t).lines) \in Nat
    BY <2>1, ScenariosAssumption DEF Job
  <2>3. l.line \in Nat \ {0}
    BY <1>3 DEF ReplInv
  <2> QED BY <1>4, <2>2, <2>3
<1>6. \/ Become(t, [l EXCEPT !.stage = "done", !.code = 0])
      \/ Become(t, [l EXCEPT !.line = line])
      \/ Become(t, [[l EXCEPT !.line = line] EXCEPT !.level = level])
      \/ /\ Become(t, [l EXCEPT !.stage = "compile"])
         /\ ~(l.line > Len(Job(t).lines)) /\ Job(t).lines[l.line].command \notin Commands
  BY <1>1, <1>4 DEF iwirble_execute, Line, Commands
<1>7. CASE Become(t, [l EXCEPT !.stage = "done", !.code = 0])
  <2>1. PICK m : m = [l EXCEPT !.stage = "done", !.code = 0]
    OBVIOUS
  <2>2. m.stage = "done" /\ m.line = l.line /\ m.printed = l.printed
    BY <1>3, <2>1 DEF Fields
  <2>3. ReplInv(m)
    BY <1>3, <2>2, ReplKept
  <2> QED BY <1>1, <1>2, <1>7, <2>1, <2>2, <2>3, QuietStep
<1>8. ASSUME NEW m, m.stage = "repl", m.line = line, m.printed = l.printed, Become(t, m) PROVE PrintInv'
  <2>1. ReplInv(m)
    BY <1>3, <1>5, <1>8 DEF ReplInv
  <2> QED BY <1>1, <1>2, <1>8, <2>1, QuietStep
<1>9. CASE Become(t, [l EXCEPT !.line = line])
  <2>1. PICK m : m = [l EXCEPT !.line = line]
    OBVIOUS
  <2>2. m.stage = "repl" /\ m.line = line /\ m.printed = l.printed
    BY <1>2, <1>3, <2>1 DEF Fields
  <2> QED BY <1>8, <1>9, <2>1, <2>2
<1>10. CASE Become(t, [[l EXCEPT !.line = line] EXCEPT !.level = level])
  <2>1. PICK m : m = [[l EXCEPT !.line = line] EXCEPT !.level = level]
    OBVIOUS
  <2>2. m.stage = "repl" /\ m.line = line /\ m.printed = l.printed
    BY <1>2, <1>3, <2>1 DEF Fields
  <2> QED BY <1>8, <1>10, <2>1, <2>2
<1>11. CASE /\ Become(t, [l EXCEPT !.stage = "compile"])
            /\ ~(l.line > Len(Job(t).lines)) /\ Job(t).lines[l.line].command \notin Commands
  <2>1. PICK m : m = [l EXCEPT !.stage = "compile"]
    OBVIOUS
  <2>2. m.stage = "compile" /\ m.line = l.line /\ m.printed = l.printed
    BY <1>3, <2>1 DEF Fields
  <2>3. l.line \in 1..Len(Job(t).lines)
    BY <1>5, <1>11
  <2>4. l.line \in ExprLines(Job(t))
    BY <1>11, <2>3 DEF ExprLines
  <2>5. Interactive(t)
    <3>1. Job(t).lines # <<>>
      BY <2>3
    <3> QED BY <1>3, <3>1 DEF Interactive
  <2>6. Asked(m)
    BY <1>3, <2>2, <2>4, <2>5 DEF Asked
  <2>7. ReplInv(m)
    BY <1>3, <1>5, <2>2, <2>6 DEF ReplInv
  <2> QED BY <1>1, <1>2, <1>11, <2>1, <2>2, <2>7, QuietStep
<1> QED BY <1>6, <1>7, <1>9, <1>10, <1>11

-----------------------------------------------------------------------------
(* The machine.                                                            *)

\* A new machine is large enough for a constant, whatever it is.
LEMMA ExecutePrint ==
  ASSUME OwnInv, PrintInv, NEW t \in Tools, Execute(t)
  PROVE  PrintInv'
<1>1. PICK l : l = local[t]
  OBVIOUS
<1>2. PICK m : m = [l EXCEPT !.stage = "run"]
  OBVIOUS
<1>3. /\ l.stage = "execute" /\ scenario' = scenario /\ Become(t, m) /\ VM!wvmExecute(l.proto)
      /\ \A u \in Tools : ~At(u, "run")
  BY <1>1, <1>2 DEF Execute, At
<1>4. DOMAIN l = Fields /\ (t = "iwirble" => ReplInv(l))
  BY <1>1, ReplNow
<1>5. m.stage = "run" /\ m.line = l.line /\ m.printed = l.printed /\ m.proto = l.proto
  BY <1>2, <1>4 DEF Fields
<1>6. t = "iwirble" => ReplInv(m)
  BY <1>3, <1>4, <1>5 DEF ReplInv, Asked, SourceAt
<1>7. Tools' = Tools /\ \A x : ReplInv(x)' <=> ReplInv(x)
  BY <1>3, ReplPrimed
<1>8. \A u \in Tools : local'[u] = IF u = t THEN m ELSE local[u]
  BY <1>3 DEF OwnInv, Become
<1>9. "iwirble" \in Tools => ReplInv(local'["iwirble"])
  BY <1>6, <1>8 DEF PrintInv
<1>10. \A u \in Tools : local'[u].stage = "run" <=> u = t
  BY <1>3, <1>5, <1>8 DEF At
<1>11. t = "iwirble" => Runs(l.proto)'
  <2> SUFFICES ASSUME t = "iwirble" PROVE Runs(l.proto)'
    OBVIOUS
  <2>1. PICK c : l.proto = ConstantPrototype(c)
    BY <1>3, <1>4 DEF ReplInv
  <2>2. l.proto.regCount = 2
    BY <2>1, ConstantFacts
  <2>3. Fresh
    BY <1>3 DEF PrintInv, MachineInv
  <2>4. PICK cap \in VM!NewCaps(stackCap, stackSize + l.proto.regCount) :
          stackCap' = cap /\ stack' = VM!EntryStack(cap, l.proto.regCount)
    BY <1>3 DEF VM!wvmExecute
  <2>5. cap \in Nat /\ cap >= 2
    <3>1. stackCap = 4 /\ stackSize + l.proto.regCount = 2
      BY <2>2, <2>3 DEF Fresh
    <3> QED BY <2>4, <3>1 DEF VM!NewCaps
  <2>6. DOMAIN stack' = 0..(stackCap' - 1)
    BY <2>4 DEF VM!EntryStack
  <2>7. status' = "running" /\ proto' = l.proto /\ pc' = 0 /\ result' = 1
    BY <1>3, <2>3 DEF VM!wvmExecute, Fresh
  <2> QED BY <2>4, <2>5, <2>6, <2>7 DEF Runs
<1>12. t = "iwirble" => local'["iwirble"].proto = l.proto
  BY <1>5, <1>8
<1>13. ("iwirble" \in Tools /\ At("iwirble", "run") => Runs(local["iwirble"].proto))'
  BY <1>7, <1>10, <1>11, <1>12 DEF At, Runs
<1>14. MachineInv'
  BY <1>7, <1>10, <1>13 DEF MachineInv, At
<1>15. ("iwirble" \in Tools => ReplInv(local["iwirble"]))'
  BY <1>7, <1>9
<1> QED BY <1>14, <1>15 DEF PrintInv

\* The three instructions of a constant.
LEMMA RunsStep ==
  ASSUME NEW c, NEW p, p = ConstantPrototype(c), Runs(p), VM!Step
  PROVE  Runs(p)'
<1>1. status = "running"
  BY DEF VM!Step, VM!OpNop, VM!OpHalt, VM!OpReturn, VM!OpMove, VM!OpLoad, VM!OpUnary, VM!OpBinary, VM!OpTrap,
         VM!OpBinaryTypeError, VM!OpJump, VM!OpJumpIf, VM!OpUnimplemented, VM!EndOfCode, VM!AtOp
<1>2. /\ result = 1 /\ stackCap \in Nat /\ stackCap >= 2 /\ DOMAIN stack = 0..(stackCap - 1)
      /\ proto = p /\ pc \in {0, 1, 2} /\ (pc # 0 => stack[1] = ValueOf(p)) /\ (pc = 2 => stack[0] = ValueOf(p))
  BY <1>1 DEF Runs
<1>3. PICK v : v = ValueOf(p)
  OBVIOUS
<1>4. /\ Len(p.instrs) = 3 /\ p.instrs[1].a = 1
      /\ p.instrs[2] = Op("MOVE", 0, 1, 0) /\ p.instrs[3] = Op("RETURN", 0, 0, 0)
      /\ \/ p.instrs[1].op = "LOAD_IMM" /\ VM!FromInt(p.instrs[1].k) = v
         \/ p.instrs[1].op = "LOAD_CONST" /\ p.consts[p.instrs[1].k + 1] = v
  BY <1>3, ConstantFacts
<1>5. /\ p.instrs[2].op = "MOVE" /\ p.instrs[2].a = 0 /\ p.instrs[2].b = 1
      /\ p.instrs[3].op = "RETURN" /\ p.instrs[3].a = 0
  BY <1>4 DEF Op
<1>6. VM!instr = p.instrs[pc + 1] /\ pc < Len(proto.instrs)
  BY <1>2, <1>4 DEF VM!instr
<1>7. 0 \in DOMAIN stack /\ 1 \in DOMAIN stack
  BY <1>2
<1>8. CASE pc = 0
  <2>1. VM!instr.op \in {"LOAD_IMM", "LOAD_CONST"} /\ VM!instr = p.instrs[1] /\ VM!instr.a = 1
    BY <1>4, <1>6, <1>8
  <2>2. VM!OpLoad
    <3>1. \A ops : VM!AtOp(ops) => VM!instr.op \in ops
      BY DEF VM!AtOp
    <3>2. ~VM!EndOfCode
      BY <1>2, <1>4, <1>8 DEF VM!EndOfCode
    <3>3. /\ VM!instr.op \notin {"NOP"} /\ VM!instr.op \notin {"HALT"} /\ VM!instr.op \notin {"RETURN"}
          /\ VM!instr.op \notin {"MOVE"} /\ VM!instr.op \notin VM!UnaryOps /\ VM!instr.op \notin VM!BinaryOps
          /\ VM!instr.op \notin {"JUMP"} /\ VM!instr.op \notin {"JUMP_IF_TRUE"}
          /\ VM!instr.op \notin {"JUMP_IF_FALSE"} /\ VM!instr.op \notin VM!Opcodes \ VM!Implemented
      BY <2>1 DEF VM!UnaryOps, VM!BinaryOps, VM!ArithOps, VM!CompareOps, VM!Implemented
    <3> QED BY <3>1, <3>2, <3>3 DEF VM!Step, VM!OpNop, VM!OpHalt, VM!OpReturn, VM!OpMove, VM!OpUnary, VM!OpBinary,
               VM!OpTrap, VM!OpBinaryTypeError, VM!OpJump, VM!OpJumpIf, VM!OpUnimplemented
  <2>3. VM!Store(v)
    BY <1>2, <1>4, <2>1, <2>2 DEF VM!OpLoad, VM!AtOp
  <2>4. /\ stack' = [stack EXCEPT ![1] = v] /\ pc' = 1 /\ stackCap' = stackCap /\ status' = "running"
        /\ proto' = p /\ result' = 1
    BY <1>1, <1>2, <1>8, <2>1, <2>3 DEF VM!Store
  <2>5. DOMAIN stack' = 0..(stackCap - 1) /\ stack'[1] = v
    BY <1>2, <1>7, <2>4
  <2> QED BY <1>2, <1>3, <2>4, <2>5 DEF Runs
<1>9. CASE pc = 1
  <2>1. VM!instr.op = "MOVE" /\ VM!instr.a = 0 /\ VM!instr.b = 1
    BY <1>5, <1>6, <1>9
  <2>2. VM!OpMove
    <3>1. \A ops : VM!AtOp(ops) => VM!instr.op \in ops
      BY DEF VM!AtOp
    <3>2. ~VM!EndOfCode
      BY <1>2, <1>4, <1>9 DEF VM!EndOfCode
    <3>3. /\ VM!instr.op \notin {"NOP"} /\ VM!instr.op \notin {"HALT"} /\ VM!instr.op \notin {"RETURN"}
          /\ VM!instr.op \notin VM!UnaryOps /\ VM!instr.op \notin VM!BinaryOps
          /\ VM!instr.op \notin {"LOAD_IMM"} /\ VM!instr.op \notin {"LOAD_CONST"} /\ VM!instr.op \notin {"LOAD_NIL"}
          /\ VM!instr.op \notin {"LOAD_TRUE"} /\ VM!instr.op \notin {"LOAD_FALSE"}
          /\ VM!instr.op \notin {"JUMP"} /\ VM!instr.op \notin {"JUMP_IF_TRUE"}
          /\ VM!instr.op \notin {"JUMP_IF_FALSE"} /\ VM!instr.op \notin VM!Opcodes \ VM!Implemented
      BY <2>1 DEF VM!UnaryOps, VM!BinaryOps, VM!ArithOps, VM!CompareOps, VM!Implemented
    <3> QED BY <3>1, <3>2, <3>3 DEF VM!Step, VM!OpNop, VM!OpHalt, VM!OpReturn, VM!OpLoad, VM!OpUnary, VM!OpBinary,
               VM!OpTrap, VM!OpBinaryTypeError, VM!OpJump, VM!OpJumpIf, VM!OpUnimplemented
  <2>3. VM!Store(v)
    BY <1>2, <1>3, <1>9, <2>1, <2>2 DEF VM!OpMove
  <2>4. /\ stack' = [stack EXCEPT ![0] = v] /\ pc' = 2 /\ stackCap' = stackCap /\ status' = "running"
        /\ proto' = p /\ result' = 1
    BY <1>1, <1>2, <1>9, <2>1, <2>3 DEF VM!Store
  <2>5. DOMAIN stack' = 0..(stackCap - 1) /\ stack'[0] = v /\ stack'[1] = v
    BY <1>2, <1>3, <1>7, <1>9, <2>4
  <2> QED BY <1>2, <1>3, <2>4, <2>5 DEF Runs
<1>10. CASE pc = 2
  <2>1. VM!instr.op = "RETURN" /\ VM!instr.a = 0
    BY <1>5, <1>6, <1>10
  <2>2. VM!OpReturn
    <3>1. \A ops : VM!AtOp(ops) => VM!instr.op \in ops
      BY DEF VM!AtOp
    <3>2. ~VM!EndOfCode
      BY <1>2, <1>4, <1>10 DEF VM!EndOfCode
    <3>3. /\ VM!instr.op \notin {"NOP"} /\ VM!instr.op \notin {"HALT"} /\ VM!instr.op \notin {"MOVE"}
          /\ VM!instr.op \notin VM!UnaryOps /\ VM!instr.op \notin VM!BinaryOps
          /\ VM!instr.op \notin {"LOAD_IMM"} /\ VM!instr.op \notin {"LOAD_CONST"} /\ VM!instr.op \notin {"LOAD_NIL"}
          /\ VM!instr.op \notin {"LOAD_TRUE"} /\ VM!instr.op \notin {"LOAD_FALSE"}
          /\ VM!instr.op \notin {"JUMP"} /\ VM!instr.op \notin {"JUMP_IF_TRUE"}
          /\ VM!instr.op \notin {"JUMP_IF_FALSE"} /\ VM!instr.op \notin VM!Opcodes \ VM!Implemented
      BY <2>1 DEF VM!UnaryOps, VM!BinaryOps, VM!ArithOps, VM!CompareOps, VM!Implemented
    <3> QED BY <3>1, <3>2, <3>3 DEF VM!Step, VM!OpNop, VM!OpHalt, VM!OpMove, VM!OpLoad, VM!OpUnary, VM!OpBinary,
               VM!OpTrap, VM!OpBinaryTypeError, VM!OpJump, VM!OpJumpIf, VM!OpUnimplemented
  <2>3. /\ stack' = [stack EXCEPT ![0] = stack[0]] /\ status' = "idle" /\ result' = 1 /\ stackCap' = stackCap
    BY <2>1, <2>2 DEF VM!OpReturn, VM!Leave
  <2>4. DOMAIN stack' = 0..(stackCap - 1) /\ stack'[0] = v
    BY <1>2, <1>3, <1>7, <1>10, <2>3
  <2> QED BY <1>2, <1>3, <2>3, <2>4 DEF Runs
<1> QED BY <1>2, <1>8, <1>9, <1>10

LEMMA InstructionPrint ==
  ASSUME OwnInv, PrintInv, NEW t \in Tools, RunInstruction(t)
  PROVE  PrintInv'
<1>1. At(t, "run") /\ VM!Step /\ scenario' = scenario /\ local' = local
  BY DEF RunInstruction
<1>2. Tools' = Tools /\ \A x : ReplInv(x)' <=> ReplInv(x)
  BY <1>1, ReplPrimed
<1>3. MachineInv
  BY DEF PrintInv
<1>4. ASSUME "iwirble" \in Tools, At("iwirble", "run") PROVE Runs(local["iwirble"].proto)'
  <2>1. PICK p : p = local["iwirble"].proto
    OBVIOUS
  <2>2. ReplInv(local["iwirble"]) /\ Runs(p)
    BY <1>3, <1>4, <2>1 DEF PrintInv, MachineInv
  <2>3. PICK c : p = ConstantPrototype(c)
    BY <1>4, <2>1, <2>2 DEF ReplInv, At
  <2>4. Runs(p)'
    BY <1>1, <2>2, <2>3, RunsStep
  <2> QED BY <1>1, <2>1, <2>4 DEF Runs
<1>5. \A u, stage : At(u, stage)' <=> At(u, stage)
  BY <1>1 DEF At
<1>6. \A v, u \in Tools : At(v, "run") /\ At(u, "run") => v = u
  BY <1>3 DEF MachineInv
<1>7. ("iwirble" \in Tools /\ At("iwirble", "run") => Runs(local["iwirble"].proto))'
  BY <1>1, <1>2, <1>4, <1>5
<1>8. MachineInv'
  BY <1>1, <1>2, <1>5, <1>6, <1>7 DEF MachineInv
<1>9. ("iwirble" \in Tools => ReplInv(local["iwirble"]))'
  BY <1>1, <1>2 DEF PrintInv
<1> QED BY <1>8, <1>9 DEF PrintInv

LEMMA FinishPrint ==
  ASSUME OwnInv, PrintInv, NEW t \in Tools, Finish(t)
  PROVE  PrintInv'
<1>1. PICK l : l = local[t]
  OBVIOUS
<1>2. l.stage = "run" /\ status = "idle" /\ scenario' = scenario /\ MachineNew
  BY <1>1 DEF Finish, At
<1>3. DOMAIN l = Fields /\ (t = "iwirble" => ReplInv(l) /\ l.line = local["iwirble"].line)
  BY <1>1, ReplNow
<1>4. PICK m : /\ Become(t, m)
               /\ m = IF result = 0 THEN GiveUp(t, l)
                      ELSE IF t = "iwirble" THEN Evaluated(t, l, stack[0])
                      ELSE Exit([l EXCEPT !.printed = <<[value |-> stack[0]]>>], 0)
  BY <1>1 DEF Finish
<1>5. m.stage # "run" /\ (t = "iwirble" => ReplInv(m))
  <2>1. CASE t = "iwirble"
    <3>1. Runs(l.proto)
      BY <1>1, <1>2, <2>1 DEF PrintInv, MachineInv, At
    <3>2. result = 1 /\ stack[0] = ValueOf(l.proto)
      BY <1>2, <3>1 DEF Runs
    <3>3. m = Evaluated("iwirble", l, stack[0])
      BY <1>4, <2>1, <3>2
    <3>4. PICK c : l.proto = ConstantPrototype(c) /\ (HasValue(SourceAt(l)) => c \in ExactValues(SourceAt(l)))
      BY <1>2, <1>3, <2>1 DEF ReplInv
    <3>5. stack[0] = VM!FromInt(Narrow(c))
      BY <3>2, <3>4, ConstantFacts
    <3>6. Right(SourceAt(l), stack[0])
      BY <3>4, <3>5 DEF Right, Meaning
    <3>7. ReplInv(m) /\ m.stage \in {"repl", "done"}
      BY <1>3, <2>1, <3>3, <3>6, EvaluatedInv
    <3> QED BY <3>7
  <2>2. CASE t # "iwirble"
    <3>1. PICK x : x = [l EXCEPT !.printed = <<[value |-> stack[0]]>>]
      OBVIOUS
    <3>2. DOMAIN x = Fields
      BY <1>3, <3>1
    <3>3. m = Exit(l, 1) \/ m = Exit(x, 0)
      BY <1>4, <2>2, <3>1 DEF GiveUp
    <3>4. m.stage = "done"
      BY <1>3, <3>2, <3>3, KeepExit
    <3> QED BY <2>2, <3>4
  <2> QED BY <2>1, <2>2
<1>6. Tools' = Tools /\ \A x : ReplInv(x)' <=> ReplInv(x)
  BY <1>2, ReplPrimed
<1>7. \A u \in Tools : local'[u] = IF u = t THEN m ELSE local[u]
  BY <1>4 DEF OwnInv, Become
<1>8. \A u \in Tools : local'[u].stage # "run"
  BY <1>1, <1>2, <1>5, <1>7 DEF PrintInv, MachineInv, At
<1>9. Fresh'
  BY <1>2 DEF MachineNew, Fresh
<1>10. MachineInv'
  BY <1>6, <1>8, <1>9 DEF MachineInv, At
<1>11. "iwirble" \in Tools => ReplInv(local'["iwirble"])
  BY <1>5, <1>7 DEF PrintInv
<1>12. ("iwirble" \in Tools => ReplInv(local["iwirble"]))'
  BY <1>6, <1>11
<1> QED BY <1>10, <1>12 DEF PrintInv

-----------------------------------------------------------------------------
LEMMA InitPrint == Init => PrintInv
<1> SUFFICES ASSUME Init PROVE PrintInv
  OBVIOUS
<1>1. ASSUME NEW t \in Tools
      PROVE  local[t].stage = "args" /\ local[t].line = 1 /\ local[t].printed = <<>>
  <2>1. PICK heap, p, level : heap = [a \in Objects |-> "none"] /\ p = Object!NoObject /\ level = Job(t).level
    OBVIOUS
  <2>2. local[t] = [stage |-> "args", heap |-> heap, held |-> {}, code |-> -1, proto |-> p, size |-> 0,
                    data |-> <<>>, touched |-> FALSE, line |-> 1, level |-> level, printed |-> <<>>]
    BY <2>1 DEF Init
  <2> QED BY <2>2
<1>2. Fresh
  BY DEF Init, VM!Init, Fresh
<1>3. MachineInv
  BY <1>1, <1>2 DEF MachineInv, At
<1>4. DOMAIN <<>> = {}
  OBVIOUS
<1>5. "iwirble" \in Tools => ReplInv(local["iwirble"])
  BY <1>1, <1>4, NothingSeq DEF ReplInv
<1> QED BY <1>3, <1>5 DEF PrintInv

LEMMA NextPrint == OwnInv /\ PrintInv /\ [Next]_vars => PrintInv'
<1>1. ASSUME OwnInv, PrintInv, UNCHANGED vars PROVE PrintInv'
  <2>1. scenario' = scenario /\ local' = local /\ UNCHANGED machine
    BY <1>1 DEF vars
  <2>2. Tools' = Tools /\ \A x : ReplInv(x)' <=> ReplInv(x)
    BY <2>1, ReplPrimed
  <2>3. (Fresh' <=> Fresh) /\ \A p : Runs(p)' <=> Runs(p)
    BY <2>1 DEF Fresh, Runs, machine
  <2>4. \A u, stage : At(u, stage)' <=> At(u, stage)
    BY <2>1 DEF At
  <2>5. MachineInv'
    BY <1>1, <2>1, <2>2, <2>3, <2>4 DEF PrintInv, MachineInv
  <2>6. ("iwirble" \in Tools => ReplInv(local["iwirble"]))'
    BY <1>1, <2>1, <2>2 DEF PrintInv
  <2> QED BY <2>5, <2>6 DEF PrintInv
<1>2. ASSUME OwnInv, PrintInv, NEW t \in Tools, Proceed(t) PROVE PrintInv'
  BY <1>2, ArgumentsPrint, ReadPrint, CompilePrint, KilledPrint, CreatePrint, FilePrint, ExecutePrint,
     InstructionPrint, FinishPrint, LinePrint DEF Proceed
<1>3. ASSUME OwnInv, PrintInv, NEW t \in Tools, Kill(t) PROVE PrintInv'
  BY <1>3, KilledPrint
<1> QED BY <1>1, <1>2, <1>3 DEF Next, Ended

\* Whatever the lines, the levels, the failures and the other tools on the
\* same disk, iwirble prints the value of each expression that has one, or,
\* without memory or with an unknown target, an error.
THEOREM InterpreterIsRight == Spec => []InterpreterRight
<1>1. Init => OwnInv /\ PrintInv
  BY InitOwn, InitPrint
<1>2. OwnInv /\ PrintInv /\ [Next]_vars => OwnInv' /\ PrintInv'
  BY NextOwn, NextPrint
<1>3. OwnInv /\ PrintInv => InterpreterRight
  BY DEF PrintInv, ReplInv, Right, Hampered, InterpreterRight
<1> QED BY <1>1, <1>2, <1>3, PTL DEF Spec

-----------------------------------------------------------------------------
(* What the writer of an object file puts where.                           *)

\* The buffers of the writer, one after each chunk.
Buffers(f, n, chunk, oom, cap) ==
  /\ f \in [0..n -> Seq(Int)] /\ f[0] = <<>>
  /\ \A i \in 1..n : f[i] = Object!wvmBufferWriteBytes(f[i - 1], chunk[i], oom, cap)

LEMMA BuffersExist ==
  ASSUME NEW n \in Nat, NEW chunk \in [1..n -> Seq(Int)], NEW oom, NEW cap
  PROVE  \E f : Buffers(f, n, chunk, oom, cap)
<1> DEFINE Good(k) ==
             \E f \in [0..k -> Seq(Int)] :
               /\ f[0] = <<>>
               /\ \A i \in 1..k : f[i] = Object!wvmBufferWriteBytes(f[i - 1], chunk[i], oom, cap)
           Bad == {k \in 0..n : ~Good(k)}
<1>1. ASSUME Bad # {} PROVE FALSE
  <2>1. Bad \in SUBSET Nat
    OBVIOUS
  <2>2. PICK m \in Bad : \A k \in Bad : m <= k
    BY <1>1, <2>1, SmallestNat
  <2> HIDE DEF Good
  <2>3. m \in 0..n /\ ~Good(m)
    OBVIOUS
  <2>4. CASE m = 0
    <3>1. PICK f : f = [i \in 0..0 |-> <<>>]
      OBVIOUS
    <3>2. f \in [0..0 -> Seq(Int)] /\ f[0] = <<>>
      BY <3>1
    <3>3. \A i \in 1..0 : f[i] = Object!wvmBufferWriteBytes(f[i - 1], chunk[i], oom, cap)
      OBVIOUS
    <3>4. Good(0)
      BY <3>2, <3>3 DEF Good
    <3> QED BY <2>3, <2>4, <3>4
  <2>5. CASE m # 0
    <3>1. m - 1 \in 0..n /\ m - 1 < m /\ m \in 1..n
      BY <2>3, <2>5
    <3>2. Good(m - 1)
      BY <2>2, <3>1
    <3>3. PICK f \in [0..(m - 1) -> Seq(Int)] :
            /\ f[0] = <<>>
            /\ \A i \in 1..(m - 1) : f[i] = Object!wvmBufferWriteBytes(f[i - 1], chunk[i], oom, cap)
      BY <3>2 DEF Good
    <3>4. PICK x : x = Object!wvmBufferWriteBytes(f[m - 1], chunk[m], oom, cap)
      OBVIOUS
    <3>5. f[m - 1] \in Seq(Int) /\ chunk[m] \in Seq(Int)
      BY <3>1, <3>3
    <3>6. f[m - 1] \o chunk[m] \in Seq(Int)
      BY <3>5
    <3>7. x \in Seq(Int)
      BY <3>4, <3>5, <3>6 DEF Object!wvmBufferWriteBytes
    <3>8. PICK g : g = [i \in 0..m |-> IF i < m THEN f[i] ELSE x]
      OBVIOUS
    <3>9. g \in [0..m -> Seq(Int)] /\ g[0] = <<>>
      BY <2>5, <3>1, <3>3, <3>7, <3>8
    <3>10. \A i \in 1..m : g[i] = Object!wvmBufferWriteBytes(g[i - 1], chunk[i], oom, cap)
      <4>1. \A i \in 1..(m - 1) : g[i] = f[i] /\ g[i - 1] = f[i - 1]
        BY <3>1, <3>8
      <4>2. g[m] = x /\ g[m - 1] = f[m - 1]
        BY <3>1, <3>8
      <4>3. \A i \in 1..m : i \in 1..(m - 1) \/ i = m
        BY <3>1
      <4> QED BY <3>3, <3>4, <4>1, <4>2, <4>3
    <3> QED BY <2>3, <3>9, <3>10 DEF Good
  <2> QED BY <2>4, <2>5
<1>2. n \in 0..n
  OBVIOUS
<1>3. Good(n)
  BY <1>1, <1>2
<1> QED BY <1>3 DEF Buffers

\* Four bytes, and two.
LEMMA UnsignedFour ==
  ASSUME NEW b \in Seq(Int), Len(b) = 4
  PROVE  Object!Unsigned(b) = b[1] + b[2] * Base + b[3] * (Base * Base) + b[4] * (Base * Base * Base)
<1>1. PICK place : place = Object!Place
  OBVIOUS
<1>2. /\ Base \in Int /\ Base * Base \in Int /\ Base * Base * Base \in Int
      /\ place[1] = 1 /\ place[2] = Base /\ place[3] = Base * Base /\ place[4] = Base * Base * Base
  BY <1>1, SizesAssumption DEF Object!Place
<1>3. b[1] \in Int /\ b[2] \in Int /\ b[3] \in Int /\ b[4] \in Int
  BY ElementOfSeq
<1>4. PICK x1, x2, x3, x4 : /\ x1 = b[1] /\ x2 = x1 + b[2] * Base /\ x3 = x2 + b[3] * (Base * Base)
                            /\ x4 = x3 + b[4] * (Base * Base * Base)
  OBVIOUS
<1>5. x1 + 0 = x1
  BY <1>3, <1>4
<1>6. PICK F : F = [i \in 0..4 |-> CASE i = 0 -> 0 [] i = 1 -> x1 [] i = 2 -> x2 [] i = 3 -> x3 [] i = 4 -> x4]
  OBVIOUS
<1>7. F[0] = 0 /\ F[1] = x1 /\ F[2] = x2 /\ F[3] = x3 /\ F[4] = x4
  BY <1>6
<1>8. F = [i \in 0..4 |-> IF i = 0 THEN 0 ELSE F[i - 1] + b[i] * place[i]]
  <2>1. \A i \in 0..4 : i = 0 \/ i = 1 \/ i = 2 \/ i = 3 \/ i = 4
    OBVIOUS
  <2>2. F[1] = F[0] + b[1] * place[1]
    <3>1. b[1] * 1 = b[1] /\ 0 + b[1] = b[1]
      BY <1>3
    <3> QED BY <3>1, <1>7, <1>2, <1>4
  <2>3. F[2] = F[1] + b[2] * place[2]
    BY <1>7, <1>2, <1>4
  <2>4. F[3] = F[2] + b[3] * place[3]
    BY <1>7, <1>2, <1>4
  <2>5. F[4] = F[3] + b[4] * place[4]
    BY <1>7, <1>2, <1>4
  <2>6. \A i \in 0..4 : F[i] = IF i = 0 THEN 0 ELSE F[i - 1] + b[i] * place[i]
    BY <2>1, <2>2, <2>3, <2>4, <2>5, <1>7
  <2> QED BY <1>6, <2>6
<1>9. PICK G : /\ G = [i \in 0..4 |-> IF i = 0 THEN 0 ELSE G[i - 1] + b[i] * place[i]]
               /\ Object!Unsigned(b) = G[4]
  <2>1. Object!Unsigned(b) = (CHOOSE g : g = [i \in 0..4 |-> IF i = 0 THEN 0 ELSE g[i - 1] + b[i] * place[i]])[4]
    BY <1>1 DEF Object!Unsigned
  <2> QED BY <1>8, <2>1
<1>10. G[0] = 0
  BY <1>9
<1>11. G[1] = b[1]
  BY <1>9, <1>10, <1>2, <1>3
<1>12. G[2] = G[1] + b[2] * Base
  BY <1>9, <1>2
<1>13. G[3] = G[2] + b[3] * (Base * Base)
  BY <1>9, <1>2
<1>14. G[4] = G[3] + b[4] * (Base * Base * Base)
  BY <1>9, <1>2
<1> QED BY <1>9, <1>11, <1>12, <1>13, <1>14

\* One buffer after the other, and what the last one has.
LEMMA BufferSteps ==
  ASSUME NEW chunks \in Seq(Seq(Int)), NEW oom, NEW cap
  PROVE  \E g : Buffers(g, Len(chunks), chunks, oom, cap) /\ Object!WriteAll(chunks, oom, cap) = g[Len(chunks)]
<1>1. PICK n : n = Len(chunks) /\ n \in Nat
  OBVIOUS
<1>2. chunks \in [1..n -> Seq(Int)]
  BY <1>1
<1>3. PICK f \in [0..n -> Seq(Int)] :
        /\ f[0] = <<>>
        /\ \A i \in 1..n : f[i] = Object!wvmBufferWriteBytes(f[i - 1], chunks[i], oom, cap)
  <2>1. PICK f : Buffers(f, n, chunks, oom, cap)
    BY <1>1, <1>2, BuffersExist
  <2> QED BY <2>1 DEF Buffers
<1>4. f = [i \in 0..n |-> IF i = 0 THEN <<>> ELSE Object!wvmBufferWriteBytes(f[i - 1], chunks[i], oom, cap)]
  <2>1. \A i \in 0..n : i = 0 \/ i \in 1..n
    BY <1>1
  <2>2. \A i \in 0..n : f[i] = IF i = 0 THEN <<>> ELSE Object!wvmBufferWriteBytes(f[i - 1], chunks[i], oom, cap)
    BY <1>3, <2>1
  <2> QED BY <1>3, <2>2
<1>5. PICK g : /\ g = [i \in 0..n |-> IF i = 0 THEN <<>> ELSE Object!wvmBufferWriteBytes(g[i - 1], chunks[i], oom, cap)]
               /\ Object!WriteAll(chunks, oom, cap) = g[n]
  <2>1. Object!WriteAll(chunks, oom, cap)
          = (CHOOSE g : g = [i \in 0..n |-> IF i = 0 THEN <<>> ELSE Object!wvmBufferWriteBytes(g[i - 1], chunks[i], oom, cap)])[n]
    BY <1>1 DEF Object!WriteAll
  <2> QED BY <1>4, <2>1
<1>6. g[0] = <<>>
  BY <1>1, <1>5
<1>7. ASSUME NEW i \in 1..n PROVE g[i] = Object!wvmBufferWriteBytes(g[i - 1], chunks[i], oom, cap)
  <2>1. i \in 0..n /\ i # 0
    BY <1>1
  <2> QED BY <1>5, <2>1
<1> DEFINE Bad == {i \in 0..n : g[i] \notin Seq(Int)}
<1>8. ASSUME Bad # {} PROVE FALSE
  <2>1. Bad \in SUBSET Nat
    BY <1>1
  <2>2. PICK m \in Bad : \A k \in Bad : m <= k
    BY <1>8, <2>1, SmallestNat
  <2>3. m # 0
    <3>1. <<>> \in Seq(Int)
      OBVIOUS
    <3> QED BY <1>6, <3>1
  <2>4. m \in 1..n /\ m - 1 \in 0..n /\ m - 1 < m
    BY <1>1, <2>3
  <2>5. g[m - 1] \in Seq(Int)
    BY <2>2, <2>4
  <2>6. chunks[m] \in Seq(Int)
    BY <1>2, <2>4
  <2>7. g[m - 1] \o chunks[m] \in Seq(Int)
    BY <2>5, <2>6
  <2>8. g[m] = Object!wvmBufferWriteBytes(g[m - 1], chunks[m], oom, cap)
    BY <1>7, <2>4
  <2>9. g[m] \in Seq(Int)
    BY <2>5, <2>7, <2>8 DEF Object!wvmBufferWriteBytes
  <2> QED BY <2>9
<1>9. \A i \in 0..n : g[i] \in Seq(Int)
  BY <1>8
<1>10. g \in [0..n -> Seq(Int)]
  BY <1>5, <1>9
<1>11. Buffers(g, n, chunks, oom, cap)
  BY <1>6, <1>7, <1>10 DEF Buffers
<1> QED BY <1>1, <1>5, <1>11

\* The chunk c is appended to a, or left out.
Appends(a, b, c, oom, cap) ==
  /\ Len(a) <= Len(b)
  /\ \A j \in 1..Len(a) : b[j] = a[j]
  /\ \/ oom /\ Len(a) + Len(c) > cap /\ Len(b) = Len(a)
     \/ /\ (oom => Len(b) <= cap) /\ Len(b) = Len(a) + Len(c)
        /\ \A j \in 1..Len(c) : b[Len(a) + j] = c[j]

LEMMA WriteCases ==
  ASSUME NEW a \in Seq(Int), NEW c \in Seq(Int), NEW oom \in BOOLEAN, NEW cap \in Nat, NEW b,
         b = Object!wvmBufferWriteBytes(a, c, oom, cap)
  PROVE  Appends(a, b, c, oom, cap)
<1>1. Len(a) \in Nat /\ Len(c) \in Nat
  OBVIOUS
<1>2. CASE oom /\ Len(a) + Len(c) > cap
  <2>1. b = a
    BY <1>2 DEF Object!wvmBufferWriteBytes
  <2>2. Len(b) = Len(a) /\ Len(a) <= Len(b)
    BY <1>1, <2>1
  <2>3. \A j \in 1..Len(a) : b[j] = a[j]
    BY <2>1
  <2> QED BY <1>2, <2>2, <2>3 DEF Appends
<1>3. CASE ~(oom /\ Len(a) + Len(c) > cap)
  <2>1. b = a \o c
    BY <1>3 DEF Object!wvmBufferWriteBytes
  <2>2. Len(b) = Len(a) + Len(c)
    BY <2>1
  <2>3. \A j \in 1..Len(a) : b[j] = a[j]
    BY <2>1
  <2>4. \A j \in 1..Len(c) : b[Len(a) + j] = c[j]
    BY <2>1, <1>1
  <2>5. Len(a) <= Len(b) /\ (oom => Len(b) <= cap)
    BY <1>1, <1>3, <2>2
  <2> QED BY <2>2, <2>3, <2>4, <2>5 DEF Appends
<1> QED BY <1>2, <1>3

\* Where the chunks are in what was written: each follows the one before it, or
\* it was left out because the buffer could not take it.
Placed(data, chunks, oom, cap, pos) ==
  /\ pos \in [0..Len(chunks) -> Nat] /\ pos[0] = 0
  /\ \A i \in 0..Len(chunks) : pos[i] <= Len(data)
  /\ \A i \in 1..Len(chunks) :
       \/ oom /\ pos[i - 1] + Len(chunks[i]) > cap /\ pos[i] = pos[i - 1]
       \/ /\ pos[i] = pos[i - 1] + Len(chunks[i])
          /\ \A j \in 1..Len(chunks[i]) : data[pos[i - 1] + j] = chunks[i][j]

LEMMA Positions ==
  ASSUME NEW chunks \in Seq(Seq(Int)), NEW oom \in BOOLEAN, NEW cap \in Nat, NEW data,
         data = Object!WriteAll(chunks, oom, cap)
  PROVE  /\ data \in Seq(Int) /\ (oom => Len(data) <= cap)
         /\ \E pos : Placed(data, chunks, oom, cap, pos)
<1>1. PICK n : n = Len(chunks) /\ n \in Nat
  OBVIOUS
<1>2. chunks \in [1..n -> Seq(Int)]
  BY <1>1
<1>3. PICK g \in [0..n -> Seq(Int)] :
        /\ g[0] = <<>> /\ data = g[n]
        /\ \A i \in 1..n : g[i] = Object!wvmBufferWriteBytes(g[i - 1], chunks[i], oom, cap)
  <2>1. PICK g : Buffers(g, n, chunks, oom, cap) /\ data = g[n]
    BY <1>1, BufferSteps
  <2> QED BY <2>1 DEF Buffers
<1>4. ASSUME NEW i \in 1..n
      PROVE  g[i] \in Seq(Int) /\ g[i - 1] \in Seq(Int) /\ chunks[i] \in Seq(Int)
  <2>1. i \in 0..n /\ i - 1 \in 0..n
    BY <1>1
  <2> QED BY <1>2, <1>3, <2>1
<1>5. ASSUME NEW i \in 1..n
      PROVE  /\ Len(g[i - 1]) <= Len(g[i])
             /\ \A j \in 1..Len(g[i - 1]) : g[i][j] = g[i - 1][j]
             /\ \/ oom /\ Len(g[i - 1]) + Len(chunks[i]) > cap /\ Len(g[i]) = Len(g[i - 1])
                \/ /\ (oom => Len(g[i]) <= cap) /\ Len(g[i]) = Len(g[i - 1]) + Len(chunks[i])
                   /\ \A j \in 1..Len(chunks[i]) : g[i][Len(g[i - 1]) + j] = chunks[i][j]
  <2>1. g[i] = Object!wvmBufferWriteBytes(g[i - 1], chunks[i], oom, cap)
    BY <1>3
  <2>2. PICK a, b, c : a = g[i - 1] /\ b = g[i] /\ c = chunks[i]
    OBVIOUS
  <2>3. a \in Seq(Int) /\ c \in Seq(Int) /\ b = Object!wvmBufferWriteBytes(a, c, oom, cap)
    BY <1>4, <2>1, <2>2
  <2>4. /\ Len(a) <= Len(b)
        /\ \A j \in 1..Len(a) : b[j] = a[j]
        /\ \/ oom /\ Len(a) + Len(c) > cap /\ Len(b) = Len(a)
           \/ /\ (oom => Len(b) <= cap) /\ Len(b) = Len(a) + Len(c)
              /\ \A j \in 1..Len(c) : b[Len(a) + j] = c[j]
    <3>1. Appends(a, b, c, oom, cap)
      BY <2>3, WriteCases
    <3> QED BY <3>1 DEF Appends
  <2> QED BY <2>2, <2>4
<1>6. \A i \in 0..n : Len(g[i]) \in Nat
  BY <1>3
<1> DEFINE Kept(i) == Len(g[i]) <= Len(data) /\ \A j \in 1..Len(g[i]) : data[j] = g[i][j]
           Bad == {i \in 0..n : ~Kept(n - i)}
           Big == {i \in 0..n : oom /\ ~(Len(g[i]) <= cap)}
<1>7. ASSUME Bad # {} PROVE FALSE
  <2>1. Bad \in SUBSET Nat
    BY <1>1
  <2>2. PICK m \in Bad : \A k \in Bad : m <= k
    BY <1>7, <2>1, SmallestNat
  <2>3. m # 0
    <3>1. Kept(n)
      <4>1. n \in 0..n
        BY <1>1
      <4>2. Len(data) \in Nat
        BY <1>3, <1>6, <4>1
      <4> QED BY <1>3, <4>2
    <3>2. n - 0 = n
      BY <1>1
    <3>3. m \in 0..n /\ ~Kept(n - m)
      OBVIOUS
    <3> HIDE DEF Kept
    <3> QED BY <3>1, <3>2, <3>3
  <2>4. m - 1 \in 0..n /\ n - m \in 0..n /\ n - m + 1 \in 1..n /\ n - (m - 1) = n - m + 1 /\ m - 1 < m
        /\ m \in Nat
    BY <1>1, <2>3
  <2>5. PICK i : i = n - m + 1
    OBVIOUS
  <2>6. i \in 1..n /\ i \in 0..n /\ i - 1 = n - m /\ i - 1 \in 0..n
    BY <1>1, <2>4, <2>5
  <2>7. Kept(i)
    <3>1. m - 1 \notin Bad
      <4> HIDE DEF Bad
      <4> QED BY <2>2, <2>4
    <3>2. Kept(n - (m - 1))
      <4> HIDE DEF Kept
      <4> QED BY <3>1, <2>4
    <3> HIDE DEF Kept
    <3> QED BY <2>4, <2>5, <3>2
  <2>8. Kept(i - 1)
    <3>1. Len(g[i - 1]) \in Nat /\ Len(g[i]) \in Nat /\ Len(g[i - 1]) <= Len(g[i])
      BY <1>5, <1>6, <2>6
    <3>2. \A j \in 1..Len(g[i - 1]) : g[i][j] = g[i - 1][j]
      BY <1>5, <2>6
    <3>3. Len(data) \in Nat
      BY <1>1, <1>3, <1>6
    <3> QED BY <2>7, <3>1, <3>2, <3>3
  <2>9. ~Kept(n - m)
    OBVIOUS
  <2> HIDE DEF Kept
  <2> QED BY <2>6, <2>8, <2>9
<1>8. \A i \in 0..n : Kept(i)
  <2>1. ASSUME NEW i \in 0..n PROVE Kept(i)
    <3>1. n - i \in 0..n /\ n - (n - i) = i
      BY <1>1
    <3>2. n - i \notin Bad
      BY <1>7
    <3>3. Kept(n - (n - i))
      <4> HIDE DEF Kept
      <4> QED BY <3>1, <3>2
    <3> HIDE DEF Kept
    <3> QED BY <3>1, <3>3
  <2> HIDE DEF Kept
  <2> QED BY <2>1
<1>9. ASSUME Big # {} PROVE FALSE
  <2>1. Big \in SUBSET Nat
    BY <1>1
  <2>2. PICK m \in Big : \A k \in Big : m <= k
    BY <1>9, <2>1, SmallestNat
  <2>3. m \in 0..n /\ oom /\ ~(Len(g[m]) <= cap)
    OBVIOUS
  <2>4. m # 0
    BY <1>3, <2>3
  <2>5. m \in 1..n /\ m - 1 \in 0..n /\ m - 1 < m
    BY <1>1, <2>3, <2>4
  <2>6. Len(g[m - 1]) <= cap
    BY <2>2, <2>3, <2>5
  <2> QED BY <1>5, <2>3, <2>5, <2>6
<1>10. oom => Len(data) <= cap
  BY <1>1, <1>3, <1>9
<1>11. data \in Seq(Int)
  BY <1>1, <1>3
<1>12. PICK pos : pos = [i \in 0..n |-> Len(g[i])]
  OBVIOUS
<1>13. pos \in [0..n -> Nat] /\ pos[0] = 0 /\ pos[n] = Len(data)
  BY <1>1, <1>3, <1>6, <1>12
<1>14. \A i \in 0..n : pos[i] <= Len(data)
  BY <1>8, <1>12
<1>15. ASSUME NEW i \in 1..n
       PROVE  \/ oom /\ pos[i - 1] + Len(chunks[i]) > cap /\ pos[i] = pos[i - 1]
              \/ /\ pos[i] = pos[i - 1] + Len(chunks[i])
                 /\ \A j \in 1..Len(chunks[i]) : data[pos[i - 1] + j] = chunks[i][j]
  <2>1. i \in 0..n /\ i - 1 \in 0..n
    BY <1>1
  <2>2. pos[i] = Len(g[i]) /\ pos[i - 1] = Len(g[i - 1])
    BY <1>12, <2>1
  <2>3. CASE oom /\ Len(g[i - 1]) + Len(chunks[i]) > cap /\ Len(g[i]) = Len(g[i - 1])
    BY <2>2, <2>3
  <2>4. CASE /\ Len(g[i]) = Len(g[i - 1]) + Len(chunks[i])
             /\ \A j \in 1..Len(chunks[i]) : g[i][Len(g[i - 1]) + j] = chunks[i][j]
    <3>1. Kept(i)
      BY <1>8, <2>1
    <3>2. Len(g[i]) \in Nat /\ Len(g[i - 1]) \in Nat /\ Len(chunks[i]) \in Nat
      BY <1>4, <1>6, <2>1
    <3>3. ASSUME NEW j \in 1..Len(chunks[i]) PROVE data[pos[i - 1] + j] = chunks[i][j]
      <4>1. Len(g[i]) = Len(g[i - 1]) + Len(chunks[i])
        BY <2>4
      <4>2. \A x, y, z \in Nat : z = x + y => \A k \in 1..y : x + k \in 1..z
        OBVIOUS
      <4>3. Len(g[i - 1]) + j \in 1..Len(g[i])
        BY <3>2, <4>1, <4>2
      <4> QED BY <2>2, <2>4, <3>1, <4>3
    <3> QED BY <2>2, <2>4, <3>3
  <2> QED BY <1>5, <2>3, <2>4
<1>16. Placed(data, chunks, oom, cap, pos)
  BY <1>1, <1>13, <1>14, <1>15 DEF Placed
<1> QED BY <1>10, <1>11, <1>16

-----------------------------------------------------------------------------
(* Bytes and numbers.                                                      *)

LEMMA DivMod ==
  ASSUME NEW n \in Int, NEW b \in Nat, b > 0
  PROVE  n \div b \in Int /\ n % b \in 0..(b - 1) /\ b * (n \div b) = n - (n % b)
<1>1. n \div b \in Int /\ n % b \in Int
  OBVIOUS
<1>2. n % b >= 0 /\ n % b < b
  OBVIOUS
<1>3. b * (n \div b) = n - (n % b)
  OBVIOUS
<1>4. n % b \in 0..(b - 1)
  BY <1>1, <1>2
<1> QED BY <1>1, <1>3, <1>4

LEMMA DivUnique ==
  ASSUME NEW n \in Int, NEW b \in Nat, b > 0, NEW q \in Int, NEW r \in 0..(b - 1), n = b * q + r
  PROVE  n \div b = q /\ n % b = r
<1>1. PICK p, s : p = n \div b /\ s = n % b
  OBVIOUS
<1>2. p \in Int /\ s \in 0..(b - 1) /\ n = b * p + s
  BY <1>1, DivMod
<1>3. b * (p - q) = r - s
  BY <1>2
<1>4. ASSUME p - q >= 1 PROVE FALSE
  <2>1. b * (p - q) >= b
    BY <1>2, <1>4
  <2> QED BY <1>2, <1>3, <2>1
<1>5. ASSUME p - q <= -1 PROVE FALSE
  <2>1. b * (p - q) <= -b
    BY <1>2, <1>5
  <2> QED BY <1>2, <1>3, <2>1
<1>6. p = q
  BY <1>2, <1>4, <1>5
<1> QED BY <1>1, <1>2, <1>6

LEMMA DivDiv ==
  ASSUME NEW n \in Int, NEW a \in Nat, a > 0, NEW b \in Nat, b > 0
  PROVE  n \div (a * b) = (n \div a) \div b
<1>1. PICK q, r : q = n \div a /\ r = n % a
  OBVIOUS
<1>2. q \in Int /\ r \in 0..(a - 1) /\ n = a * q + r
  BY <1>1, DivMod
<1>3. PICK p, s : p = q \div b /\ s = q % b
  OBVIOUS
<1>4. p \in Int /\ s \in 0..(b - 1) /\ q = b * p + s
  BY <1>2, <1>3, DivMod
<1>5. a * b \in Nat /\ a * b > 0
  OBVIOUS
<1>6. a * s + r \in 0..(a * b - 1)
  <2>1. a * s >= 0
    BY <1>4
  <2>2. a * s <= a * (b - 1)
    BY <1>4
  <2>3. a * (b - 1) = a * b - a
    OBVIOUS
  <2>4. a * s \in Int
    BY <1>4
  <2> QED BY <1>2, <1>5, <2>1, <2>2, <2>3, <2>4
<1>7. n = (a * b) * p + (a * s + r)
  <2>1. a * (b * p + s) = (a * b) * p + a * s
    BY <1>4
  <2> QED BY <1>2, <1>4, <2>1
<1>8. n \div (a * b) = p
  BY <1>4, <1>5, <1>6, <1>7, DivUnique
<1> QED BY <1>1, <1>3, <1>8

\* The four digits of a number.
LEMMA FourDigits ==
  ASSUME NEW n \in Int, NEW b \in Nat, b > 0
  PROVE  /\ b * b \in Nat /\ b * b * b \in Nat /\ b * b * b * b \in Nat /\ b * b > 0 /\ b * b * b * b > 0
         /\ (n % b) + ((n \div b) % b) * b = n % (b * b)
         /\ (n % b) + ((n \div b) % b) * b + ((n \div (b * b)) % b) * (b * b)
              + ((n \div (b * b * b)) % b) * (b * b * b) = n % (b * b * b * b)
<1>1. PICK q1, q2, q3, q4, r0, r1, r2, r3 :
        /\ q1 = n \div b /\ q2 = q1 \div b /\ q3 = q2 \div b /\ q4 = q3 \div b
        /\ r0 = n % b /\ r1 = q1 % b /\ r2 = q2 % b /\ r3 = q3 % b
  OBVIOUS
<1>2. q1 \in Int /\ r0 \in 0..(b - 1) /\ n = b * q1 + r0
  BY <1>1, DivMod
<1>3. q2 \in Int /\ r1 \in 0..(b - 1) /\ q1 = b * q2 + r1
  BY <1>1, <1>2, DivMod
<1>4. q3 \in Int /\ r2 \in 0..(b - 1) /\ q2 = b * q3 + r2
  BY <1>1, <1>3, DivMod
<1>5. q4 \in Int /\ r3 \in 0..(b - 1) /\ q3 = b * q4 + r3
  BY <1>1, <1>4, DivMod
<1>6. PICK b2, b3, b4 : b2 = b * b /\ b3 = b * b * b /\ b4 = b * b * b * b
  OBVIOUS
<1>7. b2 \in Nat /\ b2 > 0
  BY <1>6
<1>8. b3 = b2 * b /\ b3 \in Nat /\ b3 > 0
  BY <1>6, <1>7
<1>9. b4 = b3 * b /\ b4 \in Nat /\ b4 > 0
  BY <1>6, <1>8
<1>10. n \div b2 = q2
  BY <1>1, <1>6, DivDiv
<1>11. n \div b3 = q3
  BY <1>1, <1>7, <1>8, <1>10, DivDiv
<1>13. r0 + r1 * b \in 0..(b2 - 1) /\ n = b2 * q2 + (r0 + r1 * b)
  <2>1. r1 * b \in Int /\ r1 * b >= 0
    BY <1>3
  <2>2. r1 * b <= (b - 1) * b
    BY <1>3
  <2>3. (b - 1) * b = b2 - b
    BY <1>6
  <2>4. b * (b * q2 + r1) = b2 * q2 + r1 * b
    BY <1>3, <1>6
  <2>5. b2 * q2 \in Int
    BY <1>3, <1>7
  <2> QED BY <1>2, <1>3, <1>7, <2>1, <2>2, <2>3, <2>4, <2>5
<1>14. PICK u : u = r0 + r1 * b
  OBVIOUS
<1>15. PICK v : v = u + r2 * b2
  OBVIOUS
<1>16. v \in 0..(b3 - 1) /\ n = b3 * q3 + v
  <2>1. r2 * b2 \in Int /\ r2 * b2 >= 0
    BY <1>4, <1>7
  <2>2. r2 * b2 <= (b - 1) * b2
    BY <1>4, <1>7
  <2>3. (b - 1) * b2 = b3 - b2
    BY <1>7, <1>8
  <2>4. b2 * (b * q3 + r2) = b3 * q3 + r2 * b2
    BY <1>4, <1>7, <1>8
  <2>5. b3 * q3 \in Int
    BY <1>4, <1>8
  <2> QED BY <1>4, <1>13, <1>14, <1>15, <1>7, <1>8, <2>1, <2>2, <2>3, <2>4, <2>5
<1>17. PICK w : w = v + r3 * b3
  OBVIOUS
<1>18. w \in 0..(b4 - 1) /\ n = b4 * q4 + w
  <2>1. r3 * b3 \in Int /\ r3 * b3 >= 0
    BY <1>5, <1>8
  <2>2. r3 * b3 <= (b - 1) * b3
    BY <1>5, <1>8
  <2>3. (b - 1) * b3 = b4 - b3
    BY <1>8, <1>9
  <2>4. b3 * (b * q4 + r3) = b4 * q4 + r3 * b3
    BY <1>5, <1>8, <1>9
  <2>5. b4 * q4 \in Int
    BY <1>5, <1>9
  <2> QED BY <1>5, <1>16, <1>17, <1>8, <1>9, <2>1, <2>2, <2>3, <2>4, <2>5
<1>19. n % b2 = u
  BY <1>3, <1>7, <1>13, <1>14, DivUnique
<1>20. n % b4 = w
  BY <1>5, <1>9, <1>18, DivUnique
<1> QED BY <1>1, <1>6, <1>7, <1>8, <1>9, <1>10, <1>11, <1>14, <1>15, <1>17, <1>19, <1>20

LEMMA BaseFacts ==
  /\ Base \in Nat /\ Base > 1 /\ Base * Base \in Nat /\ Base * Base >= 4
  /\ Object!FourBytes \in Nat /\ Object!FourBytes >= 16
  /\ HeaderSize \in Nat /\ HeaderSize >= 4 /\ MaxCells \in Nat /\ MaxCells >= 3
  /\ Object!Place = <<1, Base, Base * Base, Base * Base * Base>>
<1>1. Base \in Nat /\ Base > 1
  BY SizesAssumption
<1>2. PICK b2 : b2 = Base * Base
  OBVIOUS
<1>3. b2 \in Nat /\ b2 >= 4
  BY <1>1, <1>2
<1>4. Object!FourBytes = b2 * b2
  BY <1>1, <1>2, SizesAssumption DEF Object!FourBytes
<1>5. b2 * b2 \in Nat /\ b2 * b2 >= 16
  BY <1>3
<1>6. HeaderSize \in Nat /\ HeaderSize >= 4 /\ MaxCells \in Nat /\ MaxCells >= 3
  BY SizesAssumption
<1> QED BY <1>1, <1>2, <1>3, <1>4, <1>5, <1>6 DEF Object!Place

\* Two bytes.
LEMMA UnsignedTwo ==
  ASSUME NEW b \in Seq(Int), Len(b) = 2
  PROVE  Object!Unsigned(b) = b[1] + b[2] * Base
<1>1. PICK place : place = Object!Place
  OBVIOUS
<1>2. Base \in Int /\ place[1] = 1 /\ place[2] = Base
  BY <1>1, SizesAssumption DEF Object!Place
<1>3. b[1] \in Int /\ b[2] \in Int
  BY ElementOfSeq
<1>4. PICK x1, x2 : x1 = b[1] /\ x2 = x1 + b[2] * Base
  OBVIOUS
<1>6. PICK F : F = [i \in 0..2 |-> CASE i = 0 -> 0 [] i = 1 -> x1 [] i = 2 -> x2]
  OBVIOUS
<1>7. F[0] = 0 /\ F[1] = x1 /\ F[2] = x2
  BY <1>6
<1>8. F = [i \in 0..2 |-> IF i = 0 THEN 0 ELSE F[i - 1] + b[i] * place[i]]
  <2>1. \A i \in 0..2 : i = 0 \/ i = 1 \/ i = 2
    OBVIOUS
  <2>2. F[1] = F[0] + b[1] * place[1]
    <3>1. b[1] * 1 = b[1] /\ 0 + b[1] = b[1]
      BY <1>3
    <3> QED BY <3>1, <1>7, <1>2, <1>4
  <2>3. F[2] = F[1] + b[2] * place[2]
    BY <1>7, <1>2, <1>4
  <2>6. \A i \in 0..2 : F[i] = IF i = 0 THEN 0 ELSE F[i - 1] + b[i] * place[i]
    BY <2>1, <2>2, <2>3, <1>7
  <2> QED BY <1>6, <2>6
<1>9. PICK G : /\ G = [i \in 0..2 |-> IF i = 0 THEN 0 ELSE G[i - 1] + b[i] * place[i]]
               /\ Object!Unsigned(b) = G[2]
  <2>1. Object!Unsigned(b) = (CHOOSE g : g = [i \in 0..2 |-> IF i = 0 THEN 0 ELSE g[i - 1] + b[i] * place[i]])[2]
    BY <1>1 DEF Object!Unsigned
  <2> QED BY <1>8, <2>1
<1>10. G[0] = 0
  BY <1>9
<1>11. G[1] = b[1]
  BY <1>9, <1>10, <1>2, <1>3
<1>12. G[2] = G[1] + b[2] * Base
  BY <1>9, <1>2
<1> QED BY <1>9, <1>11, <1>12

LEMMA BytesAre ==
  ASSUME NEW n \in Int, NEW w \in {1, 2, 4}
  PROVE  Object!Bytes(n, w) \in Seq(Int) /\ Len(Object!Bytes(n, w)) = w
<1>1. PICK place : place = Object!Place
  OBVIOUS
<1>2. place[1] \in Nat /\ place[1] > 0 /\ place[2] \in Nat /\ place[2] > 0 /\ place[3] \in Nat /\ place[3] > 0
      /\ place[4] \in Nat /\ place[4] > 0
  <2>1. PICK b2 : b2 = Base * Base
    OBVIOUS
  <2>2. b2 \in Nat /\ b2 > 0
    BY <2>1, BaseFacts
  <2>3. b2 * Base \in Nat /\ b2 * Base > 0
    BY <2>2, BaseFacts
  <2>4. b2 * Base = Base * Base * Base
    BY <2>1, BaseFacts
  <2> QED BY <1>1, <2>1, <2>2, <2>3, <2>4, BaseFacts
<1>3. \A i \in 1..w : i = 1 \/ i = 2 \/ i = 3 \/ i = 4
  OBVIOUS
<1>4. \A i \in 1..w : place[i] \in Nat /\ place[i] > 0
  BY <1>2, <1>3
<1>5. ASSUME NEW i \in 1..w PROVE (n \div place[i]) % Base \in Int
  <2>1. PICK p : p = place[i]
    OBVIOUS
  <2>2. p \in Nat /\ p > 0
    BY <1>4, <2>1
  <2>3. n \div p \in Int
    BY <2>2
  <2>4. (n \div p) % Base \in Int
    BY <2>3, BaseFacts
  <2> QED BY <2>1, <2>4
<1>6. Object!Bytes(n, w) = [i \in 1..w |-> (n \div place[i]) % Base]
  BY <1>1 DEF Object!Bytes
<1>7. w \in Nat
  OBVIOUS
<1> QED BY <1>5, <1>6, <1>7

LEMMA BytesTwo ==
  ASSUME NEW n \in Int
  PROVE  Object!Unsigned(Object!Bytes(n, 2)) = n % (Base * Base)
<1>1. PICK b : b = Object!Bytes(n, 2)
  OBVIOUS
<1>2. b \in Seq(Int) /\ Len(b) = 2
  BY <1>1, BytesAre
<1>3. b[1] = n % Base /\ b[2] = (n \div Base) % Base
  <2>1. Object!Place[1] = 1 /\ Object!Place[2] = Base
    BY BaseFacts
  <2>2. n \div 1 = n
    OBVIOUS
  <2> QED BY <1>1, <2>1, <2>2 DEF Object!Bytes
<1>4. Object!Unsigned(b) = b[1] + b[2] * Base
  BY <1>2, UnsignedTwo
<1>5. (n % Base) + ((n \div Base) % Base) * Base = n % (Base * Base)
  <2>1. Base \in Nat /\ Base > 0
    BY BaseFacts
  <2> QED BY <2>1, FourDigits, Zenon
<1> QED BY <1>1, <1>3, <1>4, <1>5

LEMMA BytesFour ==
  ASSUME NEW n \in Int
  PROVE  Object!Unsigned(Object!Bytes(n, 4)) = n % Object!FourBytes
<1>1. PICK b : b = Object!Bytes(n, 4)
  OBVIOUS
<1>2. b \in Seq(Int) /\ Len(b) = 4
  BY <1>1, BytesAre
<1>3. /\ b[1] = n % Base /\ b[2] = (n \div Base) % Base
      /\ b[3] = (n \div (Base * Base)) % Base /\ b[4] = (n \div (Base * Base * Base)) % Base
  <2>1. /\ Object!Place[1] = 1 /\ Object!Place[2] = Base
        /\ Object!Place[3] = Base * Base /\ Object!Place[4] = Base * Base * Base
    BY BaseFacts
  <2>2. n \div 1 = n
    OBVIOUS
  <2> QED BY <1>1, <2>1, <2>2 DEF Object!Bytes
<1>4. Object!Unsigned(b) = b[1] + b[2] * Base + b[3] * (Base * Base) + b[4] * (Base * Base * Base)
  BY <1>2, UnsignedFour
<1>5. (n % Base) + ((n \div Base) % Base) * Base + ((n \div (Base * Base)) % Base) * (Base * Base)
        + ((n \div (Base * Base * Base)) % Base) * (Base * Base * Base) = n % (Base * Base * Base * Base)
  <2>1. Base \in Nat /\ Base > 0
    BY BaseFacts
  <2> QED BY <2>1, FourDigits, Zenon
<1> QED BY <1>1, <1>3, <1>4, <1>5 DEF Object!FourBytes

\* A number that fits is read back.
LEMMA NumbersReadBack ==
  /\ \A n \in 0..3 : Object!Unsigned(Object!Bytes(n, 2)) = n
  /\ \A n \in 0..(Object!FourBytes - 1) : Object!Unsigned(Object!Bytes(n, 4)) = n
  /\ \A n \in Word : Object!Signed(Object!Unsigned(Object!Bytes(n, 4))) = n
<1>1. ASSUME NEW n \in 0..3 PROVE Object!Unsigned(Object!Bytes(n, 2)) = n
  <2>1. n = (Base * Base) * 0 + n /\ n \in 0..(Base * Base - 1)
    BY BaseFacts
  <2>2. n % (Base * Base) = n
    BY <2>1, BaseFacts, DivUnique
  <2> QED BY <2>2, BytesTwo
<1>2. ASSUME NEW n \in 0..(Object!FourBytes - 1) PROVE Object!Unsigned(Object!Bytes(n, 4)) = n
  <2>1. n = Object!FourBytes * 0 + n
    BY BaseFacts
  <2>2. n % Object!FourBytes = n
    BY <2>1, BaseFacts, DivUnique
  <2> QED BY <2>2, BytesFour
<1>3. ASSUME NEW n \in Word PROVE Object!Signed(Object!Unsigned(Object!Bytes(n, 4))) = n
  <2>1. PICK N, h : N = Object!FourBytes /\ h = N \div 2
    OBVIOUS
  <2>2. N \in Nat /\ N >= 16
    BY <2>1, BaseFacts
  <2>3. h \in Nat /\ 2 * h <= N /\ N <= 2 * h + 1
    BY <2>1, <2>2
  <2>4. n \in (-h)..(h - 1)
    BY <2>1, SizesAssumption
  <2>5. CASE n >= 0
    <3>1. n \in 0..(N - 1) /\ n < h
      BY <2>2, <2>3, <2>4, <2>5
    <3>2. Object!Unsigned(Object!Bytes(n, 4)) = n
      BY <1>2, <2>1, <3>1
    <3> QED BY <2>1, <2>3, <3>1, <3>2 DEF Object!Signed
  <2>6. CASE n < 0
    <3>1. n + N \in 0..(N - 1) /\ n = N * (-1) + (n + N) /\ n + N >= h /\ n \in Int
      BY <2>2, <2>3, <2>4, <2>6
    <3>2. n % N = n + N
      BY <2>2, <3>1, DivUnique
    <3>3. Object!Unsigned(Object!Bytes(n, 4)) = n + N
      BY <2>1, <3>1, <3>2, BytesFour
    <3>4. (n + N) - N = n
      BY <2>2, <3>1
    <3> QED BY <2>1, <3>1, <3>3, <3>4 DEF Object!Signed
  <2> QED BY <2>4, <2>5, <2>6
<1> QED BY <1>1, <1>2, <1>3

-----------------------------------------------------------------------------
(* Words.                                                                  *)

LEMMA SubSeqIs ==
  ASSUME NEW d \in Seq(Int), NEW p \in Nat, NEW c \in Seq(Int), p + Len(c) <= Len(d),
         \A j \in 1..Len(c) : d[p + j] = c[j]
  PROVE  SubSeq(d, p + 1, p + Len(c)) = c
<1>1. PICK s, n, m : s = SubSeq(d, p + 1, p + Len(c)) /\ n = Len(c) /\ m = Len(d)
  OBVIOUS
<1>2. n \in Nat /\ m \in Nat /\ p + n <= m
  BY <1>1
<1>3. s = [j \in 1..n |-> d[p + j]]
  <2>1. (p + n) - (p + 1) + 1 = n
    BY <1>2
  <2>2. s = [j \in 1..((p + n) - (p + 1) + 1) |-> d[j + (p + 1) - 1]]
    BY <1>1 DEF SubSeq
  <2>3. \A j \in 1..n : j + (p + 1) - 1 = p + j
    BY <1>2
  <2> QED BY <2>1, <2>2, <2>3
<1>4. c = [j \in 1..n |-> c[j]]
  BY <1>1
<1>5. \A j \in 1..n : d[p + j] = c[j]
  BY <1>1
<1>6. s = c
  BY <1>3, <1>4, <1>5
<1> QED BY <1>1, <1>6

\* u consists of s and t.
Joins(S, u, s, t) ==
  /\ u \in Seq(S) /\ Len(u) = Len(s) + Len(t)
  /\ \A j \in 1..Len(s) : u[j] = s[j]
  /\ \A j \in 1..Len(t) : u[Len(s) + j] = t[j]

LEMMA Joined ==
  ASSUME NEW S, NEW s \in Seq(S), NEW t \in Seq(S), NEW u, u = s \o t
  PROVE  Joins(S, u, s, t)
<1>1. Len(s) \in Nat /\ Len(t) \in Nat
  OBVIOUS
<1>2. u \in Seq(S) /\ Len(u) = Len(s) + Len(t)
  OBVIOUS
<1>3. \A j \in 1..Len(s) : u[j] = s[j]
  OBVIOUS
<1>4. \A j \in 1..Len(t) : u[Len(s) + j] = t[j]
  BY <1>1
<1> QED BY <1>2, <1>3, <1>4 DEF Joins

\* The word of an opcode, a register and four more bytes.
IsWord(w, o, a, k) ==
  /\ w \in Seq(Int) /\ Len(w) = 8 /\ w[1] = o
  /\ SubSeq(w, 2, 3) = a /\ SubSeq(w, 4, 7) = k /\ \A j \in 1..4 : w[3 + j] = k[j]

LEMMA FourParts ==
  ASSUME NEW o \in Int, NEW a \in Seq(Int), Len(a) = 2, NEW k \in Seq(Int), Len(k) = 4, NEW w,
         w = <<o>> \o a \o k \o << 0 >>
  PROVE  IsWord(w, o, a, k)
<1>1. PICK x, y, u, v : x = <<o>> /\ y = << 0 >> /\ u = x \o a /\ v = u \o k
  OBVIOUS
<1>2. x \in Seq(Int) /\ Len(x) = 1 /\ x[1] = o /\ y \in Seq(Int) /\ Len(y) = 1
  BY <1>1
<1>3. w = v \o y
  BY <1>1
<1>4. /\ u \in Seq(Int) /\ Len(u) = 1 + 2
      /\ (\A j \in 1..1 : u[j] = x[j]) /\ (\A j \in 1..2 : u[1 + j] = a[j])
  <2>1. u = x \o a
    BY <1>1
  <2>2. Joins(Int, u, x, a)
    BY <1>2, <2>1, Joined, Zenon
  <2> QED BY <1>2, <2>2 DEF Joins
<1>5. /\ v \in Seq(Int) /\ Len(v) = 3 + 4
      /\ (\A j \in 1..3 : v[j] = u[j]) /\ (\A j \in 1..4 : v[3 + j] = k[j])
  <2>1. v = u \o k /\ Len(u) = 3
    BY <1>1, <1>4
  <2>2. Joins(Int, v, u, k)
    BY <1>4, <2>1, Joined, Zenon
  <2> QED BY <2>1, <2>2 DEF Joins
<1>6. w \in Seq(Int) /\ Len(w) = 7 + 1 /\ (\A j \in 1..7 : w[j] = v[j])
  <2>1. Len(v) = 7
    BY <1>5
  <2>2. Joins(Int, w, v, y)
    BY <1>2, <1>3, <1>5, Joined, Zenon
  <2> QED BY <1>2, <2>1, <2>2 DEF Joins
<1>7. w \in Seq(Int) /\ Len(w) = 8
  BY <1>6
<1>8. w[1] = o /\ \A j \in 1..2 : w[1 + j] = a[j]
  <2>1. w[1] = v[1] /\ v[1] = u[1] /\ u[1] = x[1]
    BY <1>4, <1>5, <1>6
  <2>2. ASSUME NEW j \in 1..2 PROVE w[1 + j] = a[j]
    <3>1. 1 + j \in 1..7 /\ 1 + j \in 1..3
      OBVIOUS
    <3> QED BY <1>4, <1>5, <1>6, <3>1
  <2> QED BY <1>2, <2>1, <2>2
<1>9. ASSUME NEW j \in 1..4 PROVE w[3 + j] = k[j]
  <2>1. 3 + j \in 1..7
    OBVIOUS
  <2> QED BY <1>5, <1>6, <2>1
<1>10. SubSeq(w, 2, 3) = a
  <2>1. SubSeq(w, 1 + 1, 1 + Len(a)) = a
    BY <1>7, <1>8, SubSeqIs
  <2> QED BY <2>1
<1>11. SubSeq(w, 4, 7) = k
  <2>1. \A j \in 1..Len(k) : w[3 + j] = k[j]
    BY <1>9
  <2>2. 3 + Len(k) <= Len(w)
    BY <1>7
  <2>3. SubSeq(w, 3 + 1, 3 + Len(k)) = k
    BY <1>7, <2>1, <2>2, SubSeqIs
  <2>4. 3 + 1 = 4 /\ 3 + Len(k) = 7
    OBVIOUS
  <2> QED BY <2>3, <2>4
<1> QED BY <1>7, <1>8, <1>9, <1>10, <1>11 DEF IsWord

LEMMA OpNumbers ==
  ASSUME NEW op \in {"LOAD_IMM", "LOAD_CONST", "MOVE", "RETURN"}
  PROVE  Object!OpNumber(op) \in Int /\ Object!OpName(Object!OpNumber(op)) = op
<1>1. \E n \in 0..(Len(OpOrder) - 1) : OpOrder[n + 1] = op
  BY SizesAssumption
<1>2. PICK m : m = Object!OpNumber(op)
  OBVIOUS
<1>3. m \in 0..(Len(OpOrder) - 1) /\ OpOrder[m + 1] = op
  BY <1>1, <1>2 DEF Object!OpNumber
<1>4. Len(OpOrder) \in Nat
  BY SizesAssumption
<1>5. m \in Int /\ m < Len(OpOrder)
  BY <1>3, <1>4
<1> QED BY <1>2, <1>3, <1>5 DEF Object!OpName

\* A load, and what it loads.
LEMMA LoadReadBack ==
  ASSUME NEW op \in {"LOAD_IMM", "LOAD_CONST"}, NEW k \in Word, op = "LOAD_CONST" => k = 0
  PROVE  LET w == Object!EncodeInstr(Op(op, 1, 0, k))
         IN w \in Seq(Int) /\ Len(w) = 8 /\ Object!DecodeInstr(w) = Op(op, 1, 0, k)
<1>1. PICK w, o, a, b : /\ w = Object!EncodeInstr(Op(op, 1, 0, k)) /\ o = Object!OpNumber(op)
                        /\ a = Object!Bytes(1, 2) /\ b = Object!Bytes(k, 4)
  OBVIOUS
<1>2. k \in Int
  <2>1. Object!FourBytes \div 2 \in Int
    BY BaseFacts
  <2> QED BY <2>1, SizesAssumption
<1>3. a \in Seq(Int) /\ Len(a) = 2 /\ b \in Seq(Int) /\ Len(b) = 4
  BY <1>1, <1>2, BytesAre
<1>4. o \in Int /\ Object!OpName(o) = op
  BY <1>1, OpNumbers
<1>5. w = <<o>> \o a \o b \o << 0 >>
  BY <1>1 DEF Object!EncodeInstr, Op, Object!WideOps
<1>6. /\ w \in Seq(Int) /\ Len(w) = 8 /\ w[1] = o
      /\ SubSeq(w, 2, 3) = a /\ SubSeq(w, 4, 7) = b
  <2>1. IsWord(w, o, a, b)
    BY <1>3, <1>4, <1>5, FourParts
  <2> QED BY <2>1 DEF IsWord
<1>7. Object!Unsigned(a) = 1
  BY <1>1, NumbersReadBack
<1>8. Object!Signed(Object!Unsigned(b)) = k
  BY <1>1, NumbersReadBack
<1>9. op = "LOAD_CONST" => Object!Unsigned(b) = 0
  <2>1. 0 \in 0..(Object!FourBytes - 1)
    BY BaseFacts
  <2> QED BY <1>1, <2>1, NumbersReadBack
<1>10. op \in Object!WideOps
  BY DEF Object!WideOps
<1>11. Object!DecodeInstr(w) = Op(op, 1, 0, k)
  <2>1. Object!DecodeInstr(w) = [op |-> op, a |-> 1, b |-> 0, c |-> 0,
          k |-> IF op = "LOAD_IMM" THEN k ELSE IF op = "LOAD_CONST" THEN Object!Unsigned(b) ELSE 0]
    BY <1>4, <1>6, <1>7, <1>8, <1>10 DEF Object!DecodeInstr
  <2> QED BY <1>9, <2>1 DEF Op
<1> QED BY <1>1, <1>6, <1>11

\* The two instructions after it.
LEMMA RegistersReadBack ==
  ASSUME NEW op \in {"MOVE", "RETURN"}, NEW r \in 0..3
  PROVE  LET w == Object!EncodeInstr(Op(op, 0, r, 0))
         IN w \in Seq(Int) /\ Len(w) = 8 /\ Object!DecodeInstr(w) = Op(op, 0, r, 0)
<1>1. PICK w, o, a, b, c, bc : /\ w = Object!EncodeInstr(Op(op, 0, r, 0)) /\ o = Object!OpNumber(op)
                               /\ a = Object!Bytes(0, 2) /\ b = Object!Bytes(r, 2) /\ c = Object!Bytes(0, 2)
                               /\ bc = b \o c
  OBVIOUS
<1>2. a \in Seq(Int) /\ Len(a) = 2 /\ b \in Seq(Int) /\ Len(b) = 2 /\ c \in Seq(Int) /\ Len(c) = 2
  BY <1>1, BytesAre
<1>3. bc \in Seq(Int) /\ Len(bc) = 4 /\ bc[1] = b[1] /\ bc[2] = b[2] /\ bc[3] = c[1] /\ bc[4] = c[2]
  <2>1. bc = b \o c
    BY <1>1
  <2>2. /\ bc \in Seq(Int) /\ Len(bc) = 2 + 2
        /\ (\A j \in 1..2 : bc[j] = b[j]) /\ (\A j \in 1..2 : bc[2 + j] = c[j])
    <3>1. Joins(Int, bc, b, c)
      BY <1>2, <2>1, Joined, Zenon
    <3> QED BY <1>2, <3>1 DEF Joins
  <2> QED BY <2>2
<1>4. o \in Int /\ Object!OpName(o) = op
  BY <1>1, OpNumbers
<1>5. w = <<o>> \o a \o bc \o << 0 >>
  BY <1>1 DEF Object!EncodeInstr, Op, Object!WideOps
<1>6. /\ w \in Seq(Int) /\ Len(w) = 8 /\ w[1] = o
      /\ SubSeq(w, 2, 3) = a /\ \A j \in 1..4 : w[3 + j] = bc[j]
  <2>1. IsWord(w, o, a, bc)
    BY <1>2, <1>3, <1>4, <1>5, FourParts
  <2> QED BY <2>1 DEF IsWord
<1>7. SubSeq(w, 4, 5) = b
  <2>1. \A j \in 1..2 : w[3 + j] = b[j]
    BY <1>3, <1>6
  <2>2. SubSeq(w, 3 + 1, 3 + Len(b)) = b
    BY <1>2, <1>6, <2>1, SubSeqIs
  <2> QED BY <1>2, <2>2
<1>8. SubSeq(w, 6, 7) = c
  <2>1. w[6] = bc[3] /\ w[7] = bc[4]
    BY <1>6
  <2>2. \A j \in 1..2 : w[5 + j] = c[j]
    BY <1>3, <2>1
  <2>3. SubSeq(w, 5 + 1, 5 + Len(c)) = c
    BY <1>2, <1>6, <2>2, SubSeqIs
  <2> QED BY <1>2, <2>3
<1>9. Object!Unsigned(a) = 0 /\ Object!Unsigned(b) = r /\ Object!Unsigned(c) = 0
  BY <1>1, NumbersReadBack
<1>10. op \notin Object!WideOps /\ op # "LOAD_IMM" /\ op # "LOAD_CONST"
  BY DEF Object!WideOps
<1>11. Object!DecodeInstr(w) = Op(op, 0, r, 0)
  BY <1>4, <1>6, <1>7, <1>8, <1>9, <1>10 DEF Object!DecodeInstr, Op
<1> QED BY <1>1, <1>6, <1>11

\* A constant of the pool.
LEMMA ValueReadBack ==
  ASSUME NEW x \in Word
  PROVE  LET w == Object!EncodeValue(VM!FromInt(x))
         IN w \in Seq(Int) /\ Len(w) = 8 /\ Object!DecodeValue(w) = VM!FromInt(x)
<1>1. PICK w, a, b : w = Object!EncodeValue(VM!FromInt(x)) /\ a = Object!Bytes(x, 4) /\ b = Object!IntTag
  OBVIOUS
<1>2. x \in Int
  <2>1. Object!FourBytes \div 2 \in Int
    BY BaseFacts
  <2> QED BY <2>1, SizesAssumption
<1>3. a \in Seq(Int) /\ Len(a) = 4
  BY <1>1, <1>2, BytesAre
<1>4. b \in Seq(Int) /\ Len(b) = 4
  BY <1>1 DEF Object!IntTag
<1>5. w = a \o b
  BY <1>1 DEF Object!EncodeValue, VM!FromInt
<1>6. Joins(Int, w, a, b)
  BY <1>3, <1>4, <1>5, Joined, Zenon
<1>7. /\ w \in Seq(Int) /\ Len(w) = 8
      /\ (\A j \in 1..4 : w[j] = a[j]) /\ (\A j \in 1..4 : w[4 + j] = b[j])
  BY <1>3, <1>4, <1>6 DEF Joins
<1>8. SubSeq(w, 1, 4) = a
  <2>1. \A j \in 1..Len(a) : w[0 + j] = a[j]
    BY <1>3, <1>7
  <2>2. 0 + Len(a) <= Len(w)
    BY <1>3, <1>7
  <2>3. SubSeq(w, 0 + 1, 0 + Len(a)) = a
    BY <1>3, <1>7, <2>1, <2>2, SubSeqIs
  <2>4. 0 + 1 = 1 /\ 0 + Len(a) = 4
    BY <1>3
  <2> QED BY <2>3, <2>4
<1>9. SubSeq(w, 5, 8) = b
  <2>1. \A j \in 1..Len(b) : w[4 + j] = b[j]
    BY <1>4, <1>7
  <2>2. 4 + Len(b) <= Len(w)
    BY <1>4, <1>7
  <2>3. SubSeq(w, 4 + 1, 4 + Len(b)) = b
    BY <1>4, <1>7, <2>1, <2>2, SubSeqIs
  <2>4. 4 + 1 = 5 /\ 4 + Len(b) = 8
    BY <1>4
  <2> QED BY <2>3, <2>4
<1>10. Object!Signed(Object!Unsigned(a)) = x
  BY <1>1, NumbersReadBack
<1>11. Object!DecodeValue(w) = VM!FromInt(x)
  BY <1>1, <1>8, <1>9, <1>10 DEF Object!DecodeValue, VM!FromInt
<1> QED BY <1>1, <1>7, <1>11

\* Cleared memory is NOPs, and values that are 0.0.
LEMMA ClearedWords ==
  /\ Object!DecodeInstr(Object!Zeros(8)) = Op("NOP", 0, 0, 0)
  /\ Object!DecodeValue(Object!Zeros(8)) = VM!Zeroed
<1>1. PICK z : z = Object!Zeros(8)
  OBVIOUS
<1>2. z \in Seq(Int) /\ Len(z) = 8 /\ \A j \in 1..8 : z[j] = 0
  <2>1. z = [i \in 1..8 |-> 0]
    BY <1>1 DEF Object!Zeros
  <2> QED BY <2>1
<1>3. \A w \in {2, 4} : Object!Zeros(w) \in Seq(Int) /\ Len(Object!Zeros(w)) = w /\ \A j \in 1..w : Object!Zeros(w)[j] = 0
  BY DEF Object!Zeros
<1>4. ASSUME NEW p \in 0..6, NEW w \in {2, 4}, p + w <= 8
      PROVE  SubSeq(z, p + 1, p + w) = Object!Zeros(w)
  <2>1. PICK c : c = Object!Zeros(w)
    OBVIOUS
  <2>2. c \in Seq(Int) /\ Len(c) = w /\ \A j \in 1..w : c[j] = 0
    BY <1>3, <2>1
  <2>3. \A j \in 1..Len(c) : z[p + j] = c[j]
    BY <1>2, <1>4, <2>2
  <2>4. p + Len(c) <= Len(z) /\ p \in Nat
    BY <1>2, <1>4, <2>2
  <2>5. SubSeq(z, p + 1, p + Len(c)) = c
    BY <1>2, <2>2, <2>3, <2>4, SubSeqIs
  <2> QED BY <2>1, <2>2, <2>5
<1>5. /\ SubSeq(z, 2, 3) = Object!Zeros(2) /\ SubSeq(z, 4, 5) = Object!Zeros(2) /\ SubSeq(z, 6, 7) = Object!Zeros(2)
      /\ SubSeq(z, 1, 4) = Object!Zeros(4) /\ SubSeq(z, 5, 8) = Object!Zeros(4)
  <2>1. SubSeq(z, 1 + 1, 1 + 2) = Object!Zeros(2)
    BY <1>4
  <2>2. SubSeq(z, 3 + 1, 3 + 2) = Object!Zeros(2)
    BY <1>4
  <2>3. SubSeq(z, 5 + 1, 5 + 2) = Object!Zeros(2)
    BY <1>4
  <2>4. SubSeq(z, 0 + 1, 0 + 4) = Object!Zeros(4)
    BY <1>4
  <2>5. SubSeq(z, 4 + 1, 4 + 4) = Object!Zeros(4)
    BY <1>4
  <2> QED BY <2>1, <2>2, <2>3, <2>4, <2>5
<1>6. Object!Unsigned(Object!Zeros(2)) = 0 /\ Object!Unsigned(Object!Zeros(4)) = 0
  <2>1. PICK a, b : a = Object!Zeros(2) /\ b = Object!Zeros(4)
    OBVIOUS
  <2>2. a \in Seq(Int) /\ Len(a) = 2 /\ a[1] = 0 /\ a[2] = 0
    BY <1>3, <2>1
  <2>3. b \in Seq(Int) /\ Len(b) = 4 /\ b[1] = 0 /\ b[2] = 0 /\ b[3] = 0 /\ b[4] = 0
    BY <1>3, <2>1
  <2>4. Object!Unsigned(a) = 0 + 0 * Base
    BY <2>2, UnsignedTwo
  <2>5. Object!Unsigned(b) = 0 + 0 * Base + 0 * (Base * Base) + 0 * (Base * Base * Base)
    BY <2>3, UnsignedFour
  <2>6. Base \in Int /\ Base * Base \in Int /\ Base * Base * Base \in Int
    BY BaseFacts
  <2>7. \A x, y, u \in Int : 0 + 0 * x = 0 /\ 0 + 0 * x + 0 * y + 0 * u = 0
    OBVIOUS
  <2>8. 0 + 0 * Base = 0 /\ 0 + 0 * Base + 0 * (Base * Base) + 0 * (Base * Base * Base) = 0
    BY <2>6, <2>7
  <2> QED BY <2>1, <2>4, <2>5, <2>8
<1>7. Object!OpName(z[1]) = "NOP"
  <2>1. PICK n \in 0..(Len(OpOrder) - 1) : OpOrder[n + 1] = "MOVE"
    BY SizesAssumption
  <2>2. 0 < Len(OpOrder) /\ OpOrder[0 + 1] = "NOP"
    BY <2>1, SizesAssumption
  <2> QED BY <1>2, <2>2 DEF Object!OpName
<1>8. "NOP" \notin Object!WideOps /\ "NOP" # "LOAD_IMM" /\ "NOP" # "LOAD_CONST"
  BY DEF Object!WideOps
<1>9. Object!DecodeInstr(z) = Op("NOP", 0, 0, 0)
  BY <1>5, <1>6, <1>7, <1>8 DEF Object!DecodeInstr, Op
<1>10. Object!Zeros(4) # Object!IntTag
  <2>1. Object!Zeros(4)[3] = 0
    BY <1>3
  <2>2. Object!IntTag[3] = 3
    BY DEF Object!IntTag
  <2> QED BY <2>1, <2>2
<1>11. Object!Signed(0) = 0
  <2>1. Object!FourBytes \div 2 > 0
    BY BaseFacts
  <2> QED BY <2>1, BaseFacts DEF Object!Signed
<1>12. Object!DecodeValue(z) = VM!Zeroed
  BY <1>5, <1>6, <1>10, <1>11 DEF Object!DecodeValue, VM!Zeroed
<1> QED BY <1>1, <1>9, <1>12

-----------------------------------------------------------------------------
(* The chunks of a file.                                                   *)

\* The prototype of a constant: what each of its words is read back as.
Codable(q) ==
  /\ q = [regCount |-> 2, instrs |-> q.instrs, consts |-> q.consts]
  /\ q.instrs = [i \in 1..3 |-> q.instrs[i]] /\ Len(q.instrs) = 3
  /\ Len(q.consts) \in {0, 1} /\ q.consts = [i \in 1..Len(q.consts) |-> q.consts[i]]
  /\ \A i \in 1..3 : LET w == Object!EncodeInstr(q.instrs[i])
                    IN w \in Seq(Int) /\ Len(w) = 8 /\ Object!DecodeInstr(w) = q.instrs[i]
  /\ \A i \in 1..Len(q.consts) : LET w == Object!EncodeValue(q.consts[i])
                                IN w \in Seq(Int) /\ Len(w) = 8 /\ Object!DecodeValue(w) = q.consts[i]

LEMMA ConstantCodable ==
  ASSUME NEW v, Narrow(v) \in Word
  PROVE  Codable(ConstantPrototype(v)) /\ VerifiedObject(ConstantPrototype(v))
<1>1. PICK q, first, consts :
        /\ q = ConstantPrototype(v)
        /\ first = IF v \in Word THEN Op("LOAD_IMM", 1, 0, v) ELSE Op("LOAD_CONST", 1, 0, 0)
        /\ consts = IF v \in Word THEN <<>> ELSE <<VM!FromInt(Narrow(v))>>
  OBVIOUS
<1>2. q = [regCount |-> 2, consts |-> consts, instrs |-> <<first, Op("MOVE", 0, 1, 0), Op("RETURN", 0, 0, 0)>>]
  BY <1>1 DEF ConstantPrototype
<1>3. /\ q = [regCount |-> 2, instrs |-> q.instrs, consts |-> q.consts] /\ q.consts = consts
      /\ q.instrs = <<first, Op("MOVE", 0, 1, 0), Op("RETURN", 0, 0, 0)>>
  BY <1>2
<1>4. /\ Len(q.instrs) = 3 /\ DOMAIN q.instrs = 1..3 /\ q.instrs = [i \in 1..3 |-> q.instrs[i]]
      /\ q.instrs[1] = first /\ q.instrs[2] = Op("MOVE", 0, 1, 0) /\ q.instrs[3] = Op("RETURN", 0, 0, 0)
  BY <1>3
<1>5. 0 \in Word
  <2>1. PICK h : h = Object!FourBytes \div 2
    OBVIOUS
  <2>2. h \in Int /\ h >= 1
    BY <2>1, BaseFacts
  <2> QED BY <2>1, <2>2, SizesAssumption
<1>6. LET w == Object!EncodeInstr(first) IN w \in Seq(Int) /\ Len(w) = 8 /\ Object!DecodeInstr(w) = first
  <2>1. CASE v \in Word
    BY <1>1, <2>1, LoadReadBack
  <2>2. CASE v \notin Word
    BY <1>1, <1>5, <2>2, LoadReadBack
  <2> QED BY <2>1, <2>2
<1>7. ASSUME NEW i \in 1..3
      PROVE  LET w == Object!EncodeInstr(q.instrs[i])
             IN w \in Seq(Int) /\ Len(w) = 8 /\ Object!DecodeInstr(w) = q.instrs[i]
  <2>1. LET w == Object!EncodeInstr(q.instrs[2])
        IN w \in Seq(Int) /\ Len(w) = 8 /\ Object!DecodeInstr(w) = q.instrs[2]
    BY <1>4, RegistersReadBack
  <2>2. LET w == Object!EncodeInstr(q.instrs[3])
        IN w \in Seq(Int) /\ Len(w) = 8 /\ Object!DecodeInstr(w) = q.instrs[3]
    BY <1>4, RegistersReadBack
  <2>3. i = 1 \/ i = 2 \/ i = 3
    OBVIOUS
  <2> QED BY <1>4, <1>6, <2>1, <2>2, <2>3
<1>8. /\ Len(q.consts) \in {0, 1} /\ q.consts = [i \in 1..Len(q.consts) |-> q.consts[i]]
      /\ \A i \in 1..Len(q.consts) : LET w == Object!EncodeValue(q.consts[i])
                                    IN w \in Seq(Int) /\ Len(w) = 8 /\ Object!DecodeValue(w) = q.consts[i]
  <2>1. CASE v \in Word
    <3>1. q.consts = <<>>
      BY <1>1, <1>3, <2>1
    <3>2. Len(q.consts) = 0 /\ 1..0 = {}
      BY <3>1
    <3>3. q.consts = [i \in 1..0 |-> q.consts[i]]
      BY <3>1
    <3> QED BY <3>2, <3>3
  <2>2. CASE v \notin Word
    <3>1. q.consts = <<VM!FromInt(Narrow(v))>>
      BY <1>1, <1>3, <2>2
    <3>2. Len(q.consts) = 1 /\ q.consts[1] = VM!FromInt(Narrow(v)) /\ q.consts = [i \in 1..1 |-> q.consts[i]]
      BY <3>1
    <3>3. LET w == Object!EncodeValue(q.consts[1])
          IN w \in Seq(Int) /\ Len(w) = 8 /\ Object!DecodeValue(w) = q.consts[1]
      BY <3>2, ValueReadBack
    <3> QED BY <3>2, <3>3
  <2> QED BY <2>1, <2>2
<1>9. Codable(q)
  BY <1>3, <1>4, <1>7, <1>8 DEF Codable
<1>10. VM!wvmVerifyPrototype(q)
  <2>1. q.instrs # <<>>
    BY <1>4
  <2>2. /\ {"LOAD_IMM", "LOAD_CONST", "MOVE", "RETURN"} \subseteq VM!Opcodes
        /\ "LOAD_IMM" \notin VM!OP_RR \cup VM!OP_RRR \cup VM!OP_R_CONST
        /\ "LOAD_CONST" \notin VM!OP_RR \cup VM!OP_RRR
        /\ "MOVE" \notin VM!OP_RRR \cup VM!OP_R_CONST
        /\ "RETURN" \notin VM!OP_RR \cup VM!OP_RRR \cup VM!OP_R_CONST
    BY DEF VM!Opcodes, VM!OP_R, VM!OP_RR, VM!OP_RRR, VM!OP_R_CONST, VM!OP_R_IMM32, VM!UnaryOps, VM!BinaryOps,
           VM!ArithOps, VM!CompareOps
  <2>3. VM!VerifyInstr(q, q.instrs[1])
    <3>1. q.regCount = 2
      BY <1>2
    <3>2. CASE v \in Word
      <4>1. q.instrs[1] = Op("LOAD_IMM", 1, 0, v)
        BY <1>1, <1>4, <3>2
      <4> QED BY <2>2, <3>1, <4>1 DEF VM!VerifyInstr, Op
    <3>3. CASE v \notin Word
      <4>1. q.instrs[1] = Op("LOAD_CONST", 1, 0, 0) /\ Len(q.consts) = 1
        BY <1>1, <1>3, <1>4, <3>3
      <4> QED BY <2>2, <3>1, <4>1 DEF VM!VerifyInstr, Op
    <3> QED BY <3>2, <3>3
  <2>5. VM!VerifyInstr(q, q.instrs[2]) /\ VM!VerifyInstr(q, q.instrs[3])
    <3>1. q.regCount = 2
      BY <1>2
    <3>2. VM!VerifyInstr(q, q.instrs[2])
      BY <1>4, <2>2, <3>1 DEF VM!VerifyInstr, Op
    <3>3. VM!VerifyInstr(q, q.instrs[3])
      BY <1>4, <2>2, <3>1 DEF VM!VerifyInstr, Op
    <3> QED BY <3>2, <3>3
  <2>4. \A i \in 1..3 : i = 1 \/ i = 2 \/ i = 3
    OBVIOUS
  <2> QED BY <1>4, <2>1, <2>3, <2>4, <2>5 DEF VM!wvmVerifyPrototype
<1> QED BY <1>1, <1>9, <1>10 DEF VerifiedObject

LEMMA HeaderIs ==
  /\ Object!Header \in Seq(Int) /\ Len(Object!Header) = HeaderSize
  /\ \A j \in 1..4 : Object!Header[j] = Object!Magic[j]
<1>1. PICK a, b, h : a = Object!Magic /\ b = Object!Zeros(HeaderSize - 4) /\ h = Object!Header
  OBVIOUS
<1>2. HeaderSize - 4 \in Nat /\ HeaderSize \in Nat
  BY SizesAssumption
<1>3. b \in Seq(Int) /\ Len(b) = HeaderSize - 4
  BY <1>1, <1>2 DEF Object!Zeros
<1>4. a \in Seq(Int) /\ Len(a) = 4
  BY <1>1 DEF Object!Magic
<1>5. h = a \o b
  BY <1>1 DEF Object!Header
<1>6. Joins(Int, h, a, b)
  BY <1>3, <1>4, <1>5, Joined, Zenon
<1>7. h \in Seq(Int) /\ Len(h) = Len(a) + Len(b) /\ \A j \in 1..Len(a) : h[j] = a[j]
  BY <1>6 DEF Joins
<1>8. Len(h) = HeaderSize /\ \A j \in 1..4 : h[j] = a[j]
  BY <1>2, <1>3, <1>4, <1>7
<1> QED BY <1>1, <1>7, <1>8

\* The object made of a prototype and the job's name and path.
FileFields(name, path, q) ==
  [name |-> name, source |-> path, regCount |-> q.regCount, instrs |-> q.instrs, consts |-> q.consts]

ChunksOf(name, path, q) == <<Object!Header>> \o Object!wvmSerializePrototype(FileFields(name, path, q))

\* The chunks, one by one.
Layout(chunks, name, path, q) ==
  /\ chunks \in Seq(Seq(Int)) /\ Len(chunks) = 20 + Len(q.consts)
  /\ chunks[1] = Object!Header
  /\ chunks[2] = Object!Bytes(Len(name), 4) /\ chunks[3] = name
  /\ chunks[4] = Object!Bytes(Len(path), 4) /\ chunks[5] = path
  /\ chunks[6] = Object!Bytes(2, 2) /\ chunks[7] = Object!Bytes(0, 2)
  /\ chunks[8] = Object!Bytes(0, 1) /\ chunks[9] = Object!Bytes(0, 1)
  /\ chunks[10] = Object!Bytes(3, 4) /\ chunks[11] = Object!Bytes(Len(q.consts), 4)
  /\ chunks[12] = Object!Bytes(0, 4) /\ chunks[13] = Object!Bytes(0, 4)
  /\ \A i \in 1..3 : chunks[13 + i] = Object!EncodeInstr(q.instrs[i])
  /\ \A i \in 1..Len(q.consts) : chunks[16 + i] = Object!EncodeValue(q.consts[i])
  /\ chunks[17 + Len(q.consts)] = Object!Bytes(3, 4)

LEMMA ChunksAre ==
  ASSUME NEW name \in Seq(Int), NEW path \in Seq(Int), NEW q, Codable(q)
  PROVE  Layout(ChunksOf(name, path, q), name, path, q)
<1>1. PICK m, S : m = Len(q.consts) /\ S = Seq(Int)
  OBVIOUS
<1>2. m \in {0, 1} /\ q.regCount = 2 /\ DOMAIN q.instrs = 1..3 /\ Len(q.instrs) = 3 /\ DOMAIN q.consts = 1..m
  BY <1>1 DEF Codable
<1>3. PICK h, s1, s2, s3, si, sc, sl, sz :
        /\ h = <<Object!Header>>
        /\ s1 = <<Object!Bytes(Len(name), 4), name>> /\ s2 = <<Object!Bytes(Len(path), 4), path>>
        /\ s3 = <<Object!Bytes(2, 2), Object!Bytes(0, 2), Object!Bytes(0, 1), Object!Bytes(0, 1),
                  Object!Bytes(3, 4), Object!Bytes(m, 4), Object!Bytes(0, 4), Object!Bytes(0, 4)>>
        /\ si = [i \in 1..3 |-> Object!EncodeInstr(q.instrs[i])]
        /\ sc = [i \in 1..m |-> Object!EncodeValue(q.consts[i])]
        /\ sl = <<Object!Bytes(3, 4)>> /\ sz = [i \in 1..3 |-> Object!Zeros(4)]
  OBVIOUS
<1>4. PICK u1, u2, u3, u4, u5, u6, u :
        /\ u1 = s1 \o s2 /\ u2 = u1 \o s3 /\ u3 = u2 \o si /\ u4 = u3 \o sc /\ u5 = u4 \o sl
        /\ u6 = u5 \o sz /\ u = h \o u6
  OBVIOUS
<1>5. u = ChunksOf(name, path, q)
  <2>1. PICK p : p = FileFields(name, path, q)
    OBVIOUS
  <2>2. p.name = name /\ p.source = path /\ p.regCount = 2 /\ p.instrs = q.instrs /\ p.consts = q.consts
    BY <1>2, <2>1 DEF FileFields
  <2>3. /\ s1 = Object!wvmBufferWriteString(p.name) /\ s2 = Object!wvmBufferWriteString(p.source)
        /\ s3 = <<Object!Bytes(p.regCount, 2), Object!Bytes(0, 2), Object!Bytes(0, 1), Object!Bytes(0, 1),
                  Object!Bytes(Len(p.instrs), 4), Object!Bytes(Len(p.consts), 4), Object!Bytes(0, 4), Object!Bytes(0, 4)>>
        /\ si = [i \in DOMAIN p.instrs |-> Object!EncodeInstr(p.instrs[i])]
        /\ sc = [i \in DOMAIN p.consts |-> Object!EncodeValue(p.consts[i])]
        /\ sl = <<Object!Bytes(Len(p.instrs), 4)>> /\ sz = [i \in DOMAIN p.instrs |-> Object!Zeros(4)]
    BY <1>1, <1>2, <1>3, <2>2 DEF Object!wvmBufferWriteString
  <2>4. u6 = Object!wvmSerializePrototype(p)
    BY <1>4, <2>3, Zenon DEF Object!wvmSerializePrototype
  <2> QED BY <1>3, <1>4, <2>1, <2>4 DEF ChunksOf
<1>6. \A n \in {0, 1, 2, 3} : \A w \in {1, 2, 4} : Object!Bytes(n, w) \in S
  BY <1>1, BytesAre
<1>7. h \in Seq(S) /\ Len(h) = 1 /\ h[1] = Object!Header
  BY <1>1, <1>3, HeaderIs
<1>8. /\ s1 \in Seq(S) /\ Len(s1) = 2 /\ s1[1] = Object!Bytes(Len(name), 4) /\ s1[2] = name
      /\ s2 \in Seq(S) /\ Len(s2) = 2 /\ s2[1] = Object!Bytes(Len(path), 4) /\ s2[2] = path
  <2>1. name \in S /\ path \in S
    BY <1>1
  <2>2. Object!Bytes(Len(name), 4) \in S /\ Object!Bytes(Len(path), 4) \in S
    BY <1>1, BytesAre
  <2> QED BY <1>3, <2>1, <2>2
<1>9. /\ s3 \in Seq(S) /\ Len(s3) = 8 /\ s3[1] = Object!Bytes(2, 2) /\ s3[2] = Object!Bytes(0, 2)
      /\ s3[3] = Object!Bytes(0, 1) /\ s3[4] = Object!Bytes(0, 1) /\ s3[5] = Object!Bytes(3, 4)
      /\ s3[6] = Object!Bytes(m, 4) /\ s3[7] = Object!Bytes(0, 4) /\ s3[8] = Object!Bytes(0, 4)
  BY <1>2, <1>3, <1>6
<1>10. si \in Seq(S) /\ Len(si) = 3 /\ \A i \in 1..3 : si[i] = Object!EncodeInstr(q.instrs[i])
  <2>1. \A i \in 1..3 : Object!EncodeInstr(q.instrs[i]) \in S
    BY <1>1 DEF Codable
  <2> QED BY <1>3, <2>1
<1>11. sc \in Seq(S) /\ Len(sc) = m /\ \A i \in 1..m : sc[i] = Object!EncodeValue(q.consts[i])
  <2>1. \A i \in 1..m : Object!EncodeValue(q.consts[i]) \in S
    BY <1>1 DEF Codable
  <2>2. m \in Nat
    BY <1>2
  <2>3. sc = [i \in 1..m |-> Object!EncodeValue(q.consts[i])]
    BY <1>3
  <2>4. sc \in [1..m -> S]
    BY <2>1, <2>3
  <2>5. sc \in Seq(S) /\ Len(sc) = m
    BY <2>2, <2>4
  <2> QED BY <2>3, <2>5
<1>12. sl \in Seq(S) /\ Len(sl) = 1 /\ sl[1] = Object!Bytes(3, 4)
  BY <1>3, <1>6
<1>13. sz \in Seq(S) /\ Len(sz) = 3
  <2>1. Object!Zeros(4) \in S
    BY <1>1 DEF Object!Zeros
  <2> QED BY <1>3, <2>1
<1>14. Joins(S, u1, s1, s2)
  BY <1>4, <1>8, Joined, Zenon
<1>15. /\ u1 \in Seq(S) /\ Len(u1) = 4
       /\ u1[1] = s1[1] /\ u1[2] = s1[2] /\ u1[3] = s2[1] /\ u1[4] = s2[2]
  BY <1>8, <1>14 DEF Joins
<1>16. Joins(S, u2, u1, s3)
  BY <1>4, <1>9, <1>15, Joined, Zenon
<1>17. u2 \in Seq(S) /\ Len(u2) = 12 /\ (\A j \in 1..4 : u2[j] = u1[j]) /\ (\A j \in 1..8 : u2[4 + j] = s3[j])
  BY <1>9, <1>15, <1>16 DEF Joins
<1>18. Joins(S, u3, u2, si)
  BY <1>4, <1>10, <1>17, Joined, Zenon
<1>19. u3 \in Seq(S) /\ Len(u3) = 15 /\ (\A j \in 1..12 : u3[j] = u2[j]) /\ (\A j \in 1..3 : u3[12 + j] = si[j])
  BY <1>10, <1>17, <1>18 DEF Joins
<1>20. Joins(S, u4, u3, sc)
  BY <1>4, <1>11, <1>19, Joined, Zenon
<1>21. u4 \in Seq(S) /\ Len(u4) = 15 + m /\ (\A j \in 1..15 : u4[j] = u3[j]) /\ (\A j \in 1..m : u4[15 + j] = sc[j])
  BY <1>11, <1>19, <1>20 DEF Joins
<1>22. Joins(S, u5, u4, sl)
  BY <1>4, <1>12, <1>21, Joined, Zenon
<1>23. u5 \in Seq(S) /\ Len(u5) = 16 + m /\ (\A j \in 1..(15 + m) : u5[j] = u4[j]) /\ u5[16 + m] = sl[1]
  <2>1. u5 \in Seq(S) /\ Len(u5) = (15 + m) + 1 /\ (\A j \in 1..(15 + m) : u5[j] = u4[j]) /\ u5[(15 + m) + 1] = sl[1]
    BY <1>2, <1>12, <1>21, <1>22 DEF Joins
  <2> QED BY <1>2, <2>1
<1>24. Joins(S, u6, u5, sz)
  BY <1>4, <1>13, <1>23, Joined, Zenon
<1>25. u6 \in Seq(S) /\ Len(u6) = 19 + m /\ (\A j \in 1..(16 + m) : u6[j] = u5[j])
  <2>1. u6 \in Seq(S) /\ Len(u6) = (16 + m) + 3 /\ (\A j \in 1..(16 + m) : u6[j] = u5[j])
    BY <1>13, <1>23, <1>24 DEF Joins
  <2> QED BY <1>2, <2>1
<1>26. Joins(S, u, h, u6)
  BY <1>4, <1>7, <1>25, Joined, Zenon
<1>27. u \in Seq(S) /\ Len(u) = 20 + m /\ u[1] = h[1] /\ (\A j \in 1..(19 + m) : u[1 + j] = u6[j])
  <2>1. u \in Seq(S) /\ Len(u) = 1 + (19 + m) /\ u[1] = h[1] /\ (\A j \in 1..(19 + m) : u[1 + j] = u6[j])
    BY <1>7, <1>25, <1>26 DEF Joins
  <2> QED BY <1>2, <2>1
<1>28. ASSUME NEW j \in 1..15 PROVE u[1 + j] = u3[j]
  <2>1. j \in 1..(19 + m) /\ j \in 1..(16 + m) /\ j \in 1..(15 + m)
    BY <1>2
  <2> QED BY <1>21, <1>23, <1>25, <1>27, <2>1
<1>29. ASSUME NEW j \in 1..12 PROVE u[1 + j] = u2[j]
  <2>1. j \in 1..15
    OBVIOUS
  <2> QED BY <1>19, <1>28, <2>1
<1>30. /\ u[2] = u2[1] /\ u[3] = u2[2] /\ u[4] = u2[3] /\ u[5] = u2[4] /\ u[6] = u2[5] /\ u[7] = u2[6] /\ u[8] = u2[7]
       /\ u[9] = u2[8] /\ u[10] = u2[9] /\ u[11] = u2[10] /\ u[12] = u2[11] /\ u[13] = u2[12]
  BY <1>29
<1>31. /\ u2[1] = s1[1] /\ u2[2] = s1[2] /\ u2[3] = s2[1] /\ u2[4] = s2[2]
       /\ u2[5] = s3[1] /\ u2[6] = s3[2] /\ u2[7] = s3[3] /\ u2[8] = s3[4] /\ u2[9] = s3[5] /\ u2[10] = s3[6]
       /\ u2[11] = s3[7] /\ u2[12] = s3[8]
  BY <1>15, <1>17
<1>32. ASSUME NEW i \in 1..3 PROVE u[13 + i] = Object!EncodeInstr(q.instrs[i])
  <2>1. 12 + i \in 1..15 /\ 1 + (12 + i) = 13 + i
    OBVIOUS
  <2> QED BY <1>10, <1>19, <1>28, <2>1
<1>33. ASSUME NEW i \in 1..m PROVE u[16 + i] = Object!EncodeValue(q.consts[i])
  <2>1. 15 + i \in 1..(19 + m) /\ 15 + i \in 1..(16 + m) /\ 15 + i \in 1..(15 + m) /\ 1 + (15 + i) = 16 + i
    BY <1>2
  <2>2. u[1 + (15 + i)] = u4[15 + i]
    BY <1>23, <1>25, <1>27, <2>1
  <2> QED BY <1>11, <1>21, <2>1, <2>2
<1>34. u[17 + m] = Object!Bytes(3, 4)
  <2>1. 16 + m \in 1..(19 + m) /\ 16 + m \in 1..(16 + m) /\ 1 + (16 + m) = 17 + m
    BY <1>2
  <2> QED BY <1>12, <1>23, <1>25, <1>27, <2>1
<1>35. Layout(u, name, path, q)
  <2>1. u \in Seq(Seq(Int)) /\ Len(u) = 20 + Len(q.consts) /\ u[1] = Object!Header
    BY <1>1, <1>7, <1>27
  <2> QED BY <1>1, <1>8, <1>9, <1>30, <1>31, <1>32, <1>33, <1>34, <2>1 DEF Layout
<1> QED BY <1>5, <1>35

-----------------------------------------------------------------------------
(* Reader and writer in step.                                              *)

\* A chunk that the file d has room for at p is there, and ends at n.
Found(d, p, c, n) ==
  p + Len(c) <= Len(d) => n = p + Len(c) /\ \A j \in 1..Len(c) : d[p + j] = c[j]

\* If there is no room for it, it is left out.
InStep(d, p, c, n) == Found(d, p, c, n) /\ (p + Len(c) > Len(d) => n = p)

\* The reader of d meets the chunks where the writer has put them.
Aligned(d, chunks, pos) ==
  /\ pos[0] = 0 /\ \A i \in 0..Len(chunks) : pos[i] \in Nat
  /\ \A i \in 1..13 : InStep(d, pos[i - 1], chunks[i], pos[i])
  /\ \A i \in 14..Len(chunks) : Found(d, pos[i - 1], chunks[i], pos[i])

\* The length of the chunks before the code.
FrontLength(name, path) == HeaderSize + 4 + Len(name) + 4 + Len(path) + 22

LEMMA FrontLengths ==
  ASSUME NEW name \in Seq(Int), NEW path \in Seq(Int), NEW q, Codable(q), NEW chunks,
         Layout(chunks, name, path, q)
  PROVE  /\ Len(chunks[1]) = HeaderSize /\ Len(chunks[2]) = 4 /\ Len(chunks[3]) = Len(name)
         /\ Len(chunks[4]) = 4 /\ Len(chunks[5]) = Len(path) /\ Len(chunks[6]) = 2 /\ Len(chunks[7]) = 2
         /\ Len(chunks[8]) = 1 /\ Len(chunks[9]) = 1 /\ Len(chunks[10]) = 4 /\ Len(chunks[11]) = 4
         /\ Len(chunks[12]) = 4 /\ Len(chunks[13]) = 4
<1>1. Len(name) \in Int /\ Len(path) \in Int
  OBVIOUS
<1>2. /\ Len(Object!Bytes(Len(name), 4)) = 4 /\ Len(Object!Bytes(Len(path), 4)) = 4
      /\ Len(Object!Bytes(2, 2)) = 2 /\ Len(Object!Bytes(0, 2)) = 2 /\ Len(Object!Bytes(0, 1)) = 1
      /\ Len(Object!Bytes(3, 4)) = 4 /\ Len(Object!Bytes(0, 4)) = 4
  BY <1>1, BytesAre
<1>3. Len(q.consts) \in Int
  BY DEF Codable
<1>4. Len(Object!Bytes(Len(q.consts), 4)) = 4
  BY <1>3, BytesAre
<1> QED BY <1>2, <1>4, HeaderIs DEF Layout

LEMMA ReaderInStep ==
  ASSUME NEW name \in Seq(Int), NEW path \in Seq(Int), NEW q, Codable(q), NEW chunks,
         Layout(chunks, name, path, q),
         NEW oom \in BOOLEAN, NEW cap \in Nat, NEW data, data = Object!WriteAll(chunks, oom, cap),
         NEW d \in Seq(Int), \A j \in 1..Len(d) : j <= Len(data) => d[j] = data[j],
         oom => Len(d) <= cap,
         Len(data) <= Len(d) \/ FrontLength(name, path) <= Len(d)
  PROVE  \E pos : /\ Aligned(d, chunks, pos)
                  /\ ~oom /\ Len(data) <= Len(d)
                       => \A i \in 1..Len(chunks) : pos[i - 1] + Len(chunks[i]) <= Len(d)
<1>1. chunks \in Seq(Seq(Int)) /\ Len(chunks) \in Nat /\ Len(chunks) >= 20
  BY DEF Layout, Codable
<1>2. PICK n : n = Len(chunks) /\ n \in Nat /\ n >= 20
  BY <1>1
<1>3. data \in Seq(Int) /\ \E pos : Placed(data, chunks, oom, cap, pos)
  BY <1>1, Positions
<1>4. PICK pos : Placed(data, chunks, oom, cap, pos)
  BY <1>3
<1>41. pos \in [0..n -> Nat] /\ pos[0] = 0
  BY <1>2, <1>4 DEF Placed
<1>42. \A i \in 0..n : pos[i] <= Len(data)
  BY <1>2, <1>4 DEF Placed
<1>43. \A i \in 1..n :
         \/ oom /\ pos[i - 1] + Len(chunks[i]) > cap /\ pos[i] = pos[i - 1]
         \/ /\ pos[i] = pos[i - 1] + Len(chunks[i])
            /\ \A j \in 1..Len(chunks[i]) : data[pos[i - 1] + j] = chunks[i][j]
  BY <1>2, <1>4 DEF Placed
<1>5. Len(d) \in Nat /\ Len(data) \in Nat
  BY <1>3
<1>6. ASSUME NEW i \in 1..n
      PROVE  i \in 0..n /\ i - 1 \in 0..n /\ pos[i] \in Nat /\ pos[i - 1] \in Nat /\ Len(chunks[i]) \in Nat
             /\ pos[i] <= Len(data)
  <2>1. i \in 0..n /\ i - 1 \in 0..n
    BY <1>2
  <2>2. chunks[i] \in Seq(Int)
    BY <1>1, <1>2
  <2>3. Len(chunks[i]) \in Nat
    BY <2>2
  <2> QED BY <1>41, <1>42, <2>1, <2>3
<1>7. ASSUME NEW i \in 1..n PROVE Found(d, pos[i - 1], chunks[i], pos[i])
  <2>1. PICK p, c, e, k : p = pos[i - 1] /\ c = chunks[i] /\ e = pos[i] /\ k = Len(c)
    OBVIOUS
  <2>2. p \in Nat /\ k \in Nat /\ e \in Nat /\ e <= Len(data)
    BY <1>6, <2>1
  <2>3. \/ oom /\ p + k > cap /\ e = p
        \/ e = p + k /\ \A j \in 1..k : data[p + j] = c[j]
    BY <1>43, <2>1
  <2>4. ASSUME p + k <= Len(d) PROVE e = p + k /\ \A j \in 1..k : d[p + j] = c[j]
    <3>1. ~(oom /\ p + k > cap)
      BY <1>5, <2>2, <2>4
    <3>2. e = p + k /\ \A j \in 1..k : data[p + j] = c[j]
      BY <2>3, <3>1
    <3>3. ASSUME NEW j \in 1..k PROVE d[p + j] = c[j]
      <4>1. p + j \in 1..Len(d) /\ p + j <= Len(data)
        BY <1>5, <2>2, <2>4, <3>2
      <4> QED BY <3>2, <4>1
    <3> QED BY <3>2, <3>3
  <2> QED BY <2>1, <2>4 DEF Found
<1>8. ASSUME NEW i \in 1..n PROVE pos[i] <= pos[i - 1] + Len(chunks[i])
  BY <1>43, <1>6
<1>9. ASSUME NEW i \in 1..13 PROVE pos[i] <= Len(d)
  <2>1. i \in 1..n
    BY <1>2
  <2>2. CASE Len(data) <= Len(d)
    BY <1>5, <1>6, <2>1, <2>2
  <2>3. CASE FrontLength(name, path) <= Len(d)
    <3>1. PICK p1, p2, p3, p4, p5, p6, p7, p8, p9, p10, p11, p12, p13 :
            /\ p1 = pos[1] /\ p2 = pos[2] /\ p3 = pos[3] /\ p4 = pos[4] /\ p5 = pos[5] /\ p6 = pos[6] /\ p7 = pos[7]
            /\ p8 = pos[8] /\ p9 = pos[9] /\ p10 = pos[10] /\ p11 = pos[11] /\ p12 = pos[12] /\ p13 = pos[13]
      OBVIOUS
    <3>2. \A k \in 1..13 : k \in 1..n
      BY <1>2
    <3>3. /\ p1 \in Nat /\ p2 \in Nat /\ p3 \in Nat /\ p4 \in Nat /\ p5 \in Nat /\ p6 \in Nat /\ p7 \in Nat
          /\ p8 \in Nat /\ p9 \in Nat /\ p10 \in Nat /\ p11 \in Nat /\ p12 \in Nat /\ p13 \in Nat
      <4>1. \A k \in 1..13 : pos[k] \in Nat
        BY <1>6, <3>2
      <4> QED BY <3>1, <4>1
    <3>4. \A k \in 1..13 : pos[k] <= pos[k - 1] + Len(chunks[k])
      BY <1>8, <3>2
    <3>5. Len(name) \in Nat /\ Len(path) \in Nat /\ HeaderSize \in Nat
      BY BaseFacts
    <3>6. /\ p1 <= HeaderSize /\ p2 <= p1 + 4 /\ p3 <= p2 + Len(name) /\ p4 <= p3 + 4 /\ p5 <= p4 + Len(path)
          /\ p6 <= p5 + 2 /\ p7 <= p6 + 2 /\ p8 <= p7 + 1 /\ p9 <= p8 + 1 /\ p10 <= p9 + 4 /\ p11 <= p10 + 4
          /\ p12 <= p11 + 4 /\ p13 <= p12 + 4
      <4>1. /\ pos[1] <= pos[0] + Len(chunks[1]) /\ pos[2] <= pos[1] + Len(chunks[2]) /\ pos[3] <= pos[2] + Len(chunks[3])
            /\ pos[4] <= pos[3] + Len(chunks[4]) /\ pos[5] <= pos[4] + Len(chunks[5]) /\ pos[6] <= pos[5] + Len(chunks[6])
            /\ pos[7] <= pos[6] + Len(chunks[7]) /\ pos[8] <= pos[7] + Len(chunks[8]) /\ pos[9] <= pos[8] + Len(chunks[9])
            /\ pos[10] <= pos[9] + Len(chunks[10]) /\ pos[11] <= pos[10] + Len(chunks[11])
            /\ pos[12] <= pos[11] + Len(chunks[12]) /\ pos[13] <= pos[12] + Len(chunks[13])
        BY <3>4
      <4>2. pos[0] + HeaderSize = HeaderSize
        BY <1>41, <3>5
      <4>3. /\ Len(chunks[1]) = HeaderSize /\ Len(chunks[2]) = 4 /\ Len(chunks[3]) = Len(name)
            /\ Len(chunks[4]) = 4 /\ Len(chunks[5]) = Len(path) /\ Len(chunks[6]) = 2 /\ Len(chunks[7]) = 2
            /\ Len(chunks[8]) = 1 /\ Len(chunks[9]) = 1 /\ Len(chunks[10]) = 4 /\ Len(chunks[11]) = 4
            /\ Len(chunks[12]) = 4 /\ Len(chunks[13]) = 4
        BY FrontLengths
      <4> QED BY <3>1, <4>1, <4>2, <4>3
    <3>7. i = 1 \/ i = 2 \/ i = 3 \/ i = 4 \/ i = 5 \/ i = 6 \/ i = 7 \/ i = 8 \/ i = 9 \/ i = 10 \/ i = 11 \/ i = 12 \/ i = 13
      OBVIOUS
    <3>8. /\ p1 <= Len(d) /\ p2 <= Len(d) /\ p3 <= Len(d) /\ p4 <= Len(d) /\ p5 <= Len(d) /\ p6 <= Len(d) /\ p7 <= Len(d)
          /\ p8 <= Len(d) /\ p9 <= Len(d) /\ p10 <= Len(d) /\ p11 <= Len(d) /\ p12 <= Len(d) /\ p13 <= Len(d)
      BY <1>5, <2>3, <3>3, <3>5, <3>6 DEF FrontLength
    <3> QED BY <3>1, <3>7, <3>8
  <2> QED BY <2>2, <2>3
<1>10. ASSUME NEW i \in 1..13 PROVE InStep(d, pos[i - 1], chunks[i], pos[i])
  <2>1. i \in 1..n
    BY <1>2
  <2>2. PICK p, k, e : p = pos[i - 1] /\ k = Len(chunks[i]) /\ e = pos[i]
    OBVIOUS
  <2>3. p \in Nat /\ k \in Nat /\ e \in Nat /\ e <= Len(d)
    BY <1>6, <1>9, <2>1, <2>2
  <2>4. e = p \/ e = p + k
    BY <1>43, <2>1, <2>2
  <2>5. p + k > Len(d) => e = p
    BY <1>5, <2>3, <2>4
  <2>6. Found(d, pos[i - 1], chunks[i], pos[i])
    BY <1>7, <2>1
  <2> QED BY <2>2, <2>5, <2>6 DEF InStep
<1>11. Aligned(d, chunks, pos)
  <2>1. \A i \in 0..Len(chunks) : pos[i] \in Nat
    BY <1>2, <1>41
  <2>2. \A i \in 14..Len(chunks) : i \in 1..n
    BY <1>2
  <2>3. \A i \in 14..Len(chunks) : Found(d, pos[i - 1], chunks[i], pos[i])
    BY <1>7, <2>2
  <2> QED BY <1>41, <1>10, <2>1, <2>3 DEF Aligned
<1>12. ASSUME ~oom, Len(data) <= Len(d), NEW i \in 1..n PROVE pos[i - 1] + Len(chunks[i]) <= Len(d)
  <2>1. pos[i] = pos[i - 1] + Len(chunks[i])
    BY <1>43, <1>12
  <2> QED BY <1>5, <1>6, <1>12, <2>1
<1> QED BY <1>2, <1>11, <1>12

-----------------------------------------------------------------------------
(* Reading.                                                                *)

LEMMA PullGrows ==
  ASSUME NEW d \in Seq(Int), NEW p \in Nat, NEW w \in Nat
  PROVE  Object!wvm_reader_pull(d, p, w) \in Nat /\ Object!wvm_reader_pull(d, p, w) >= p
BY DEF Object!wvm_reader_pull

LEMMA FieldInStep ==
  ASSUME NEW d \in Seq(Int), NEW p \in Nat, NEW c \in Seq(Int), NEW n, InStep(d, p, c, n)
  PROVE  /\ Object!wvm_reader_pull(d, p, Len(c)) = n
         /\ p + Len(c) <= Len(d) => Object!Field(d, p, Len(c)) = Object!Unsigned(c)
         /\ p + Len(c) > Len(d) => Object!Field(d, p, Len(c)) = 0
         /\ n \in Nat /\ n >= p /\ (p <= Len(d) => n <= Len(d))
<1>1. Len(d) \in Nat /\ Len(c) \in Nat
  OBVIOUS
<1>2. CASE p + Len(c) <= Len(d)
  <2>1. n = p + Len(c) /\ \A j \in 1..Len(c) : d[p + j] = c[j]
    BY <1>2 DEF InStep, Found
  <2>2. SubSeq(d, p + 1, p + Len(c)) = c
    BY <1>2, <2>1, SubSeqIs
  <2>3. Object!Field(d, p, Len(c)) = Object!Unsigned(c)
    BY <1>2, <2>2 DEF Object!Field
  <2>4. Object!wvm_reader_pull(d, p, Len(c)) = n
    BY <1>2, <2>1 DEF Object!wvm_reader_pull
  <2>5. n \in Nat /\ n >= p /\ n <= Len(d)
    BY <1>1, <1>2, <2>1
  <2>6. ~(p + Len(c) > Len(d))
    BY <1>1, <1>2
  <2> QED BY <2>3, <2>4, <2>5, <2>6
<1>3. CASE p + Len(c) > Len(d)
  <2>1. n = p
    BY <1>3 DEF InStep
  <2>2. ~(p + Len(c) <= Len(d))
    BY <1>1, <1>3
  <2> QED BY <1>1, <2>1, <2>2 DEF Object!Field, Object!wvm_reader_pull
<1> QED BY <1>1, <1>2, <1>3

\* Without instructions nothing is verified.
LEMMA NoInstructions ==
  ASSUME NEW d, NEW p, NEW regs, NEW m
  PROVE  ~VerifiedObject(Object!ReadArrays(d, p, regs, 0, m))
<1>1. PICK r : r = Object!ReadArrays(d, p, regs, 0, m)
  OBVIOUS
<1>2. r = Object!NoObject \/ r.instrs = [i \in 1..0 |-> Object!DecodeInstr(Object!Words(d, p, 0)[i])]
  BY <1>1 DEF Object!ReadArrays
<1>3. Object!NoObject.instrs = <<>>
  BY DEF Object!NoObject
<1>4. ASSUME NEW f, f = [i \in 1..0 |-> Object!DecodeInstr(Object!Words(d, p, 0)[i])] PROVE f = <<>>
  BY <1>4
<1>5. r.instrs = <<>>
  BY <1>2, <1>3, <1>4
<1> QED BY <1>1, <1>5 DEF VerifiedObject, VM!wvmVerifyPrototype

\* A reader that has less than four bytes left finds no instructions.
LEMMA NearTheEnd ==
  ASSUME NEW d \in Seq(Int), NEW p \in Nat, p + 4 > Len(d)
  PROVE  Object!AfterString(d, p) = p /\ ~VerifiedObject(Object!ReadFields(d, p))
<1>1. Len(d) \in Nat
  OBVIOUS
<1>2. \A x \in Nat : x >= p => ~(x + 4 <= Len(d))
  BY <1>1
<1>3. Object!wvm_reader_pull(d, p, 4) = p /\ Object!Field(d, p, 4) = 0
  BY <1>2 DEF Object!wvm_reader_pull, Object!Field
<1>4. Object!AfterString(d, p) = p
  <2>1. Object!wvm_reader_pull(d, p, 0) = p
    BY DEF Object!wvm_reader_pull
  <2> QED BY <1>3, <2>1 DEF Object!AfterString
<1>5. PICK params, vararg, pad, instrs :
        /\ params = Object!wvm_reader_pull(d, p, 2) /\ vararg = Object!wvm_reader_pull(d, params, 2)
        /\ pad = Object!wvm_reader_pull(d, vararg, 1) /\ instrs = Object!wvm_reader_pull(d, pad, 1)
  OBVIOUS
<1>6. params \in Nat /\ params >= p
  BY <1>5, PullGrows
<1>7. vararg \in Nat /\ vararg >= p
  BY <1>5, <1>6, PullGrows
<1>8. pad \in Nat /\ pad >= p
  BY <1>5, <1>7, PullGrows
<1>9. instrs \in Nat /\ instrs >= p
  BY <1>5, <1>8, PullGrows
<1>10. Object!Field(d, instrs, 4) = 0
  BY <1>2, <1>9 DEF Object!Field
<1>11. PICK e, regs, m : Object!ReadFields(d, p) = Object!ReadArrays(d, e, regs, Object!Field(d, instrs, 4), m)
  BY <1>5 DEF Object!ReadFields
<1> QED BY <1>4, <1>10, <1>11, NoInstructions

\* What the reader makes of the chunks before the code.
LEMMA FrontRead ==
  ASSUME NEW name \in Seq(Int), Len(name) < Object!FourBytes, NEW path \in Seq(Int), Len(path) < Object!FourBytes,
         NEW q, Codable(q), NEW chunks, Layout(chunks, name, path, q),
         NEW d \in Seq(Int), NEW pos, Aligned(d, chunks, pos), HeaderSize <= Len(d)
  PROVE  /\ SubSeq(d, 1, 4) = Object!Magic
         /\ pos[9] + 4 > Len(d) => ~VerifiedObject(Object!wvmDeserializePrototype(d))
         /\ pos[9] + 4 <= Len(d) =>
              \E m \in Nat :
                /\ Object!wvmDeserializePrototype(d) = Object!ReadArrays(d, pos[13], 2, 3, m)
                /\ pos[10] + 4 <= Len(d) => m = Len(q.consts)
                /\ pos[10] + 4 > Len(d) => m = 0
         /\ pos[10] <= pos[13] /\ pos[13] <= Len(d)
<1>0. Len(d) \in Nat /\ Len(name) \in Nat /\ Len(path) \in Nat
  BY LenProperties
<1>1. PICK N : N = Len(d) /\ N \in Nat
  BY <1>0
<1>2. Len(name) \in Nat /\ Len(path) \in Nat /\ HeaderSize \in Nat /\ Len(q.consts) \in {0, 1}
  <2>1. Len(q.consts) \in {0, 1}
    BY DEF Codable
  <2> QED BY <1>0, <2>1, BaseFacts
<1>3. /\ Len(chunks[1]) = HeaderSize /\ Len(chunks[2]) = 4 /\ Len(chunks[3]) = Len(name)
      /\ Len(chunks[4]) = 4 /\ Len(chunks[5]) = Len(path) /\ Len(chunks[6]) = 2 /\ Len(chunks[7]) = 2
      /\ Len(chunks[8]) = 1 /\ Len(chunks[9]) = 1 /\ Len(chunks[10]) = 4 /\ Len(chunks[11]) = 4
      /\ Len(chunks[12]) = 4 /\ Len(chunks[13]) = 4
  BY FrontLengths
<1>4. ASSUME NEW i \in 1..13
      PROVE  /\ pos[i - 1] \in Nat
             /\ Object!wvm_reader_pull(d, pos[i - 1], Len(chunks[i])) = pos[i]
             /\ pos[i - 1] + Len(chunks[i]) <= N => Object!Field(d, pos[i - 1], Len(chunks[i])) = Object!Unsigned(chunks[i])
             /\ pos[i - 1] + Len(chunks[i]) > N => Object!Field(d, pos[i - 1], Len(chunks[i])) = 0
             /\ pos[i] \in Nat /\ pos[i] >= pos[i - 1] /\ (pos[i - 1] <= N => pos[i] <= N)
  <2>1. chunks \in Seq(Seq(Int)) /\ Len(chunks) \in Nat /\ Len(chunks) >= 20
    BY <1>2 DEF Layout
  <2>2. i \in 1..Len(chunks) /\ i - 1 \in 0..Len(chunks)
    BY <2>1
  <2>3. chunks[i] \in Seq(Int)
    BY <2>1, <2>2
  <2>4. pos[i - 1] \in Nat
    BY <2>2 DEF Aligned
  <2>5. InStep(d, pos[i - 1], chunks[i], pos[i])
    BY DEF Aligned
  <2> QED BY <1>1, <2>3, <2>4, <2>5, FieldInStep
<1>5. PICK p1, p2, p3, p4, p5, p6, p7, p8, p9, p10, p11, p12, p13 :
        /\ p1 = pos[1] /\ p2 = pos[2] /\ p3 = pos[3] /\ p4 = pos[4] /\ p5 = pos[5] /\ p6 = pos[6] /\ p7 = pos[7]
        /\ p8 = pos[8] /\ p9 = pos[9] /\ p10 = pos[10] /\ p11 = pos[11] /\ p12 = pos[12] /\ p13 = pos[13]
  OBVIOUS
<1>6. pos[0] = 0
  BY DEF Aligned
<1>7. p1 = HeaderSize
  <2>1. InStep(d, pos[1 - 1], chunks[1], pos[1])
    BY DEF Aligned
  <2>2. InStep(d, 0, chunks[1], p1)
    BY <1>5, <1>6, <2>1
  <2>3. 0 + HeaderSize = HeaderSize
    BY <1>2
  <2> QED BY <1>3, <2>2, <2>3 DEF InStep, Found
<1>8. /\ p1 \in Nat /\ p2 \in Nat /\ p3 \in Nat /\ p4 \in Nat /\ p5 \in Nat /\ p6 \in Nat /\ p7 \in Nat
      /\ p8 \in Nat /\ p9 \in Nat /\ p10 \in Nat /\ p11 \in Nat /\ p12 \in Nat /\ p13 \in Nat
  <2>1. \A i \in 1..13 : pos[i] \in Nat
    BY <1>4
  <2> QED BY <1>5, <2>1
<1>9. /\ p1 <= p2 /\ p2 <= p3 /\ p3 <= p4 /\ p4 <= p5 /\ p5 <= p6 /\ p6 <= p7 /\ p7 <= p8
      /\ p8 <= p9 /\ p9 <= p10 /\ p10 <= p11 /\ p11 <= p12 /\ p12 <= p13
  <2>1. \A i \in 1..13 : pos[i] >= pos[i - 1]
    BY <1>4
  <2>2. /\ pos[2] >= pos[1] /\ pos[3] >= pos[2] /\ pos[4] >= pos[3] /\ pos[5] >= pos[4] /\ pos[6] >= pos[5] /\ pos[7] >= pos[6]
        /\ pos[8] >= pos[7] /\ pos[9] >= pos[8] /\ pos[10] >= pos[9] /\ pos[11] >= pos[10] /\ pos[12] >= pos[11]
        /\ pos[13] >= pos[12]
    BY <2>1
  <2> QED BY <1>5, <1>8, <2>2
<1>10. p13 <= N
  <2>1. \A i \in 1..13 : pos[i - 1] <= N => pos[i] <= N
    BY <1>4
  <2>2. /\ (p1 <= N => p2 <= N) /\ (p2 <= N => p3 <= N) /\ (p3 <= N => p4 <= N) /\ (p4 <= N => p5 <= N)
        /\ (p5 <= N => p6 <= N) /\ (p6 <= N => p7 <= N) /\ (p7 <= N => p8 <= N) /\ (p8 <= N => p9 <= N)
        /\ (p9 <= N => p10 <= N) /\ (p10 <= N => p11 <= N) /\ (p11 <= N => p12 <= N) /\ (p12 <= N => p13 <= N)
    <3>1. /\ (pos[1] <= N => pos[2] <= N) /\ (pos[2] <= N => pos[3] <= N) /\ (pos[3] <= N => pos[4] <= N)
          /\ (pos[4] <= N => pos[5] <= N) /\ (pos[5] <= N => pos[6] <= N) /\ (pos[6] <= N => pos[7] <= N)
          /\ (pos[7] <= N => pos[8] <= N) /\ (pos[8] <= N => pos[9] <= N) /\ (pos[9] <= N => pos[10] <= N)
          /\ (pos[10] <= N => pos[11] <= N) /\ (pos[11] <= N => pos[12] <= N) /\ (pos[12] <= N => pos[13] <= N)
      BY <2>1
    <3> QED BY <1>5, <3>1
  <2> QED BY <1>1, <1>7, <2>2
<1>11. SubSeq(d, 1, 4) = Object!Magic
  <2>1. InStep(d, pos[1 - 1], chunks[1], pos[1])
    BY DEF Aligned
  <2>2. InStep(d, 0, chunks[1], p1) /\ chunks[1] = Object!Header
    BY <1>5, <1>6, <2>1 DEF Layout
  <2>3. \A j \in 1..HeaderSize : d[0 + j] = Object!Header[j]
    <3>1. 0 + HeaderSize = HeaderSize
      BY <1>2
    <3> QED BY <1>3, <2>2, <3>1 DEF InStep, Found
  <2>4. \A j \in 1..4 : j \in 1..HeaderSize
    BY BaseFacts
  <2>5. PICK c : c = Object!Magic
    OBVIOUS
  <2>6. c \in Seq(Int) /\ Len(c) = 4
    BY <2>5 DEF Object!Magic
  <2>7. \A j \in 1..Len(c) : d[0 + j] = c[j]
    BY <2>3, <2>4, <2>5, <2>6, HeaderIs
  <2>8. 0 + Len(c) <= Len(d)
    BY <2>6, BaseFacts
  <2>9. SubSeq(d, 0 + 1, 0 + Len(c)) = c
    BY <2>6, <2>7, <2>8, SubSeqIs
  <2>10. 0 + 1 = 1 /\ 0 + Len(c) = 4
    BY <2>6
  <2> QED BY <2>5, <2>9, <2>10
<1>12. /\ Object!wvm_reader_pull(d, p1, 4) = p2 /\ Object!wvm_reader_pull(d, p2, Len(name)) = p3
       /\ Object!wvm_reader_pull(d, p3, 4) = p4 /\ Object!wvm_reader_pull(d, p4, Len(path)) = p5
       /\ Object!wvm_reader_pull(d, p5, 2) = p6 /\ Object!wvm_reader_pull(d, p6, 2) = p7
       /\ Object!wvm_reader_pull(d, p7, 1) = p8 /\ Object!wvm_reader_pull(d, p8, 1) = p9
       /\ Object!wvm_reader_pull(d, p9, 4) = p10 /\ Object!wvm_reader_pull(d, p10, 4) = p11
       /\ Object!wvm_reader_pull(d, p11, 4) = p12 /\ Object!wvm_reader_pull(d, p12, 4) = p13
  <2>1. \A i \in 1..13 : Object!wvm_reader_pull(d, pos[i - 1], Len(chunks[i])) = pos[i]
    BY <1>4
  <2>2. /\ Object!wvm_reader_pull(d, pos[1], Len(chunks[2])) = pos[2] /\ Object!wvm_reader_pull(d, pos[2], Len(chunks[3])) = pos[3]
        /\ Object!wvm_reader_pull(d, pos[3], Len(chunks[4])) = pos[4] /\ Object!wvm_reader_pull(d, pos[4], Len(chunks[5])) = pos[5]
        /\ Object!wvm_reader_pull(d, pos[5], Len(chunks[6])) = pos[6] /\ Object!wvm_reader_pull(d, pos[6], Len(chunks[7])) = pos[7]
        /\ Object!wvm_reader_pull(d, pos[7], Len(chunks[8])) = pos[8] /\ Object!wvm_reader_pull(d, pos[8], Len(chunks[9])) = pos[9]
        /\ Object!wvm_reader_pull(d, pos[9], Len(chunks[10])) = pos[10] /\ Object!wvm_reader_pull(d, pos[10], Len(chunks[11])) = pos[11]
        /\ Object!wvm_reader_pull(d, pos[11], Len(chunks[12])) = pos[12] /\ Object!wvm_reader_pull(d, pos[12], Len(chunks[13])) = pos[13]
    BY <2>1
  <2> QED BY <1>3, <1>5, <2>2
<1>13. /\ p1 + 4 <= N => Object!Field(d, p1, 4) = Len(name)
       /\ p3 + 4 <= N => Object!Field(d, p3, 4) = Len(path)
       /\ p5 + 2 <= N => Object!Field(d, p5, 2) = 2
       /\ p9 + 4 <= N => Object!Field(d, p9, 4) = 3
       /\ p10 + 4 <= N => Object!Field(d, p10, 4) = Len(q.consts)
       /\ p10 + 4 > N => Object!Field(d, p10, 4) = 0
  <2>1. \A i \in 1..13 : pos[i - 1] + Len(chunks[i]) <= N => Object!Field(d, pos[i - 1], Len(chunks[i])) = Object!Unsigned(chunks[i])
    BY <1>4
  <2>2. /\ pos[1] + Len(chunks[2]) <= N => Object!Field(d, pos[1], Len(chunks[2])) = Object!Unsigned(chunks[2])
        /\ pos[3] + Len(chunks[4]) <= N => Object!Field(d, pos[3], Len(chunks[4])) = Object!Unsigned(chunks[4])
        /\ pos[5] + Len(chunks[6]) <= N => Object!Field(d, pos[5], Len(chunks[6])) = Object!Unsigned(chunks[6])
        /\ pos[9] + Len(chunks[10]) <= N => Object!Field(d, pos[9], Len(chunks[10])) = Object!Unsigned(chunks[10])
        /\ pos[10] + Len(chunks[11]) <= N => Object!Field(d, pos[10], Len(chunks[11])) = Object!Unsigned(chunks[11])
    BY <2>1
  <2>3. pos[10] + Len(chunks[11]) > N => Object!Field(d, pos[10], Len(chunks[11])) = 0
    <3>1. \A i \in 1..13 : pos[i - 1] + Len(chunks[i]) > N => Object!Field(d, pos[i - 1], Len(chunks[i])) = 0
      BY <1>4
    <3> QED BY <3>1
  <2>4. /\ Object!Unsigned(chunks[2]) = Len(name) /\ Object!Unsigned(chunks[4]) = Len(path)
        /\ Object!Unsigned(chunks[6]) = 2 /\ Object!Unsigned(chunks[10]) = 3
        /\ Object!Unsigned(chunks[11]) = Len(q.consts)
    <3>1. /\ Len(name) \in 0..(Object!FourBytes - 1) /\ Len(path) \in 0..(Object!FourBytes - 1)
          /\ 3 \in 0..(Object!FourBytes - 1) /\ Len(q.consts) \in 0..(Object!FourBytes - 1)
      <4>1. PICK F, a, b, c : F = Object!FourBytes /\ a = Len(name) /\ b = Len(path) /\ c = Len(q.consts)
        OBVIOUS
      <4>2. F \in Nat /\ F >= 16 /\ a \in Nat /\ a < F /\ b \in Nat /\ b < F /\ c \in {0, 1}
        BY <1>2, <4>1, BaseFacts
      <4>3. a \in 0..(F - 1) /\ b \in 0..(F - 1) /\ 3 \in 0..(F - 1) /\ c \in 0..(F - 1)
        BY <4>2
      <4> QED BY <4>1, <4>3
    <3>2. /\ chunks[2] = Object!Bytes(Len(name), 4) /\ chunks[4] = Object!Bytes(Len(path), 4)
          /\ chunks[6] = Object!Bytes(2, 2) /\ chunks[10] = Object!Bytes(3, 4)
          /\ chunks[11] = Object!Bytes(Len(q.consts), 4)
      BY DEF Layout
    <3> QED BY <3>1, <3>2, NumbersReadBack
  <2> QED BY <1>3, <1>5, <2>2, <2>3, <2>4
<1>14. CASE p1 + 4 > N
  <2>1. Object!AfterString(d, p1) = p1 /\ ~VerifiedObject(Object!ReadFields(d, p1))
    BY <1>1, <1>8, <1>14, NearTheEnd
  <2>2. ~VerifiedObject(Object!wvmDeserializePrototype(d))
    BY <1>7, <2>1 DEF Object!wvmDeserializePrototype
  <2>3. p9 + 4 > N
    BY <1>1, <1>8, <1>9, <1>14
  <2>4. ~(p9 + 4 <= N)
    BY <1>1, <1>8, <2>3
  <2>5. p10 <= p13
    BY <1>8, <1>9
  <2> QED BY <1>1, <1>5, <1>10, <1>11, <2>2, <2>4, <2>5
<1>15. CASE p1 + 4 <= N
  <2>1. Object!AfterString(d, HeaderSize) = p3
    BY <1>7, <1>12, <1>13, <1>15 DEF Object!AfterString
  <2>2. CASE p3 + 4 > N
    <3>1. Object!AfterString(d, p3) = p3 /\ ~VerifiedObject(Object!ReadFields(d, p3))
      BY <1>1, <1>8, <2>2, NearTheEnd
    <3>2. ~VerifiedObject(Object!wvmDeserializePrototype(d))
      BY <2>1, <3>1 DEF Object!wvmDeserializePrototype
    <3>3. p9 + 4 > N
      BY <1>1, <1>8, <1>9, <2>2
    <3>4. ~(p9 + 4 <= N)
      BY <1>1, <1>8, <3>3
    <3>5. p10 <= p13
      BY <1>8, <1>9
    <3> QED BY <1>1, <1>5, <1>10, <1>11, <3>2, <3>4, <3>5
  <2>3. CASE p3 + 4 <= N
    <3>1. Object!AfterString(d, p3) = p5
      BY <1>12, <1>13, <2>3 DEF Object!AfterString
    <3>2. Object!wvmDeserializePrototype(d)
            = Object!ReadArrays(d, p13, Object!Field(d, p5, 2), Object!Field(d, p9, 4), Object!Field(d, p10, 4))
      BY <1>12, <2>1, <3>1 DEF Object!wvmDeserializePrototype, Object!ReadFields
    <3>3. CASE p9 + 4 > N
      <4>1. Object!Field(d, p9, 4) = 0
        <5>1. ~(p9 + 4 <= Len(d))
          BY <1>1, <1>8, <3>3
        <5> QED BY <5>1 DEF Object!Field
      <4>2. ~VerifiedObject(Object!wvmDeserializePrototype(d))
        BY <3>2, <4>1, NoInstructions
      <4>3. ~(p9 + 4 <= N)
        BY <1>1, <1>8, <3>3
      <4>4. p10 <= p13
        BY <1>8, <1>9
      <4> QED BY <1>1, <1>5, <1>10, <1>11, <4>2, <4>3, <4>4
    <3>4. CASE p9 + 4 <= N
      <4>1. p5 + 2 <= N
        BY <1>1, <1>8, <1>9, <3>4
      <4>2. PICK m : m = Object!Field(d, p10, 4)
        OBVIOUS
      <4>3. p10 + 4 <= N \/ p10 + 4 > N
        BY <1>1, <1>8
      <4>4. /\ m \in Nat /\ (p10 + 4 <= N => m = Len(q.consts)) /\ (p10 + 4 > N => m = 0)
        BY <1>2, <1>13, <4>2, <4>3
      <4>5. Object!wvmDeserializePrototype(d) = Object!ReadArrays(d, p13, 2, 3, m)
        BY <1>13, <3>2, <3>4, <4>1, <4>2
      <4>6. ~(p9 + 4 > N)
        BY <1>1, <1>8, <3>4
      <4>7. p10 <= p13
        BY <1>8, <1>9
      <4> QED BY <1>1, <1>5, <1>10, <1>11, <4>4, <4>5, <4>6, <4>7
    <3> QED BY <1>1, <1>8, <3>3, <3>4
  <2> QED BY <1>1, <1>8, <2>2, <2>3
<1> QED BY <1>1, <1>8, <1>14, <1>15

\* How many words of n are there.
LEMMA HaveIs ==
  ASSUME NEW d \in Seq(Int), NEW p \in Nat, p <= Len(d), NEW n \in Nat
  PROVE  /\ Object!Have(d, p, n) \in 0..n /\ p + 8 * Object!Have(d, p, n) <= Len(d)
         /\ p + 8 * n <= Len(d) => Object!Have(d, p, n) = n
         /\ Object!Have(d, p, n) < n => Len(d) < p + 8 * Object!Have(d, p, n) + 8
<1>1. PICK e, x, h : e = Len(d) - p /\ x = e \div 8 /\ h = Object!Have(d, p, n)
  OBVIOUS
<1>2. Len(d) \in Nat
  BY LenProperties
<1>3. e \in Nat /\ x \in Nat /\ 8 * x <= e /\ e < 8 * x + 8
  BY <1>1, <1>2
<1>4. h = IF n <= x THEN n ELSE x
  BY <1>1 DEF Object!Have
<1>5. h \in 0..n /\ (8 * n <= e => h = n) /\ 8 * h <= e /\ (h < n => e < 8 * h + 8)
  BY <1>3, <1>4
<1> QED BY <1>1, <1>2, <1>3, <1>5

\* The program that has the first h instructions and the first k of m constants of q.
Cut(q, h, m, k) ==
  [regCount |-> 2,
   instrs |-> [i \in 1..3 |-> IF i <= h THEN q.instrs[i] ELSE Op("NOP", 0, 0, 0)],
   consts |-> [i \in 1..m |-> IF i <= k THEN q.consts[i] ELSE VM!Zeroed]]

LEMMA CodeRead ==
  ASSUME NEW name, NEW path, NEW q, Codable(q), NEW chunks, Layout(chunks, name, path, q),
         NEW d \in Seq(Int), NEW pos, Aligned(d, chunks, pos), NEW p \in Nat, p = pos[13], p <= Len(d),
         NEW m \in Nat, m <= Len(q.consts), NEW h, h = Object!Have(d, p, 3), NEW k, k = Object!Have(d, p + 8 * h, m)
  PROVE  /\ Object!ReadArrays(d, p, 2, 3, m) \in {Object!NoObject, Cut(q, h, m, k)}
         /\ ~(Object!Field(d, p + 8 * h + 8 * k, 4) > MaxCells) => Object!ReadArrays(d, p, 2, 3, m) = Cut(q, h, m, k)
<1>1. PICK N : N = Len(d) /\ N \in Nat
  BY LenProperties
<1>2. h \in 0..3 /\ p + 8 * h <= N /\ (h < 3 => N < p + 8 * h + 8)
  BY <1>1, HaveIs
<1>3. PICK y : y = p + 8 * h /\ y \in Nat /\ y <= N
  BY <1>2
<1>4. k \in 0..m /\ y + 8 * k <= N
  BY <1>1, <1>3, HaveIs
<1>5. m \in {0, 1} /\ Len(q.consts) \in {0, 1}
  <2>1. PICK z : z = Len(q.consts)
    OBVIOUS
  <2>2. z = 0 \/ z = 1
    BY <2>1 DEF Codable
  <2>3. m <= z
    BY <2>1
  <2>4. m = 0 \/ m = 1
    BY <2>2, <2>3
  <2> QED BY <2>1, <2>2, <2>4
<1>6. Len(chunks) = 20 + Len(q.consts)
  BY DEF Layout
<1>7. \A i \in 14..Len(chunks) : Found(d, pos[i - 1], chunks[i], pos[i])
  BY DEF Aligned
<1>8. PICK c1, c2, c3, p1, p2, p3 :
        /\ c1 = chunks[14] /\ c2 = chunks[15] /\ c3 = chunks[16] /\ p1 = pos[14] /\ p2 = pos[15] /\ p3 = pos[16]
  OBVIOUS
<1>9. Found(d, p, c1, p1) /\ Found(d, p1, c2, p2) /\ Found(d, p2, c3, p3)
  <2>1. 14 \in 14..Len(chunks) /\ 15 \in 14..Len(chunks) /\ 16 \in 14..Len(chunks)
    BY <1>5, <1>6
  <2>2. 14 - 1 = 13 /\ 15 - 1 = 14 /\ 16 - 1 = 15
    OBVIOUS
  <2> QED BY <1>7, <1>8, <2>1, <2>2
<1>10. \A i \in 1..3 : chunks[13 + i] = Object!EncodeInstr(q.instrs[i])
  BY DEF Layout
<1>11. c1 = Object!EncodeInstr(q.instrs[1]) /\ c2 = Object!EncodeInstr(q.instrs[2]) /\ c3 = Object!EncodeInstr(q.instrs[3])
  BY <1>8, <1>10
<1>12. \A i \in 1..3 : LET w == Object!EncodeInstr(q.instrs[i])
                      IN w \in Seq(Int) /\ Len(w) = 8 /\ Object!DecodeInstr(w) = q.instrs[i]
  BY DEF Codable
<1>13. /\ c1 \in Seq(Int) /\ Len(c1) = 8 /\ Object!DecodeInstr(c1) = q.instrs[1]
       /\ c2 \in Seq(Int) /\ Len(c2) = 8 /\ Object!DecodeInstr(c2) = q.instrs[2]
       /\ c3 \in Seq(Int) /\ Len(c3) = 8 /\ Object!DecodeInstr(c3) = q.instrs[3]
  BY <1>11, <1>12
<1>14. ASSUME NEW c \in Seq(Int), Len(c) = 8, NEW x \in Nat, NEW e, Found(d, x, c, e), x + 8 <= N
       PROVE  SubSeq(d, x + 1, x + 8) = c /\ e = x + 8
  <2>1. e = x + 8 /\ \A j \in 1..Len(c) : d[x + j] = c[j]
    BY <1>1, <1>14 DEF Found
  <2>2. SubSeq(d, x + 1, x + Len(c)) = c
    BY <1>1, <1>14, <2>1, SubSeqIs
  <2> QED BY <1>14, <2>1, <2>2
<1>15. h >= 1 => SubSeq(d, p + 1, p + 8) = c1 /\ p1 = p + 8
  <2>1. h >= 1 => p + 8 <= N
    BY <1>1, <1>2
  <2> QED BY <1>9, <1>13, <1>14, <2>1
<1>16. h >= 2 => SubSeq(d, p1 + 1, p1 + 8) = c2 /\ p2 = p + 16 /\ p1 = p + 8
  <2>1. ASSUME h >= 2 PROVE SubSeq(d, p1 + 1, p1 + 8) = c2 /\ p2 = p1 + 8 /\ p1 = p + 8
    <3>1. p1 = p + 8
      BY <1>2, <1>15, <2>1
    <3>2. p + 16 <= N
      BY <1>1, <1>2, <2>1
    <3>3. (p + 8) + 8 = p + 16 /\ p + 8 \in Nat
      OBVIOUS
    <3> QED BY <1>9, <1>13, <1>14, <3>1, <3>2, <3>3
  <2>2. (p + 8) + 8 = p + 16
    OBVIOUS
  <2> QED BY <2>1, <2>2
<1>17. h >= 3 => SubSeq(d, p2 + 1, p2 + 8) = c3 /\ p3 = p + 24 /\ p2 = p + 16
  <2>1. ASSUME h >= 3 PROVE SubSeq(d, p2 + 1, p2 + 8) = c3 /\ p3 = p2 + 8 /\ p2 = p + 16
    <3>1. p2 = p + 16
      BY <1>2, <1>16, <2>1
    <3>2. p + 24 <= N
      BY <1>1, <1>2, <2>1
    <3>3. (p + 16) + 8 = p + 24 /\ p + 16 \in Nat
      OBVIOUS
    <3> QED BY <1>9, <1>13, <1>14, <3>1, <3>2, <3>3
  <2>2. (p + 16) + 8 = p + 24
    OBVIOUS
  <2> QED BY <2>1, <2>2
<1>18. PICK ws : ws = Object!Words(d, p, 3)
  OBVIOUS
<1>19. \A i \in 1..3 : ws[i] = IF i <= h THEN SubSeq(d, p + 8 * i - 7, p + 8 * i) ELSE Object!Zeros(8)
  BY <1>18 DEF Object!Words
<1>20. ASSUME NEW i \in 1..3
       PROVE  Object!DecodeInstr(ws[i]) = IF i <= h THEN q.instrs[i] ELSE Op("NOP", 0, 0, 0)
  <2>1. CASE i <= h
    <3>1. ws[i] = SubSeq(d, p + 8 * i - 7, p + 8 * i)
      BY <1>19, <2>1
    <3>2. CASE i = 1
      <4>1. p + 8 * i - 7 = p + 1 /\ p + 8 * i = p + 8 /\ h >= 1
        BY <1>2, <2>1, <3>2
      <4> QED BY <1>13, <1>15, <2>1, <3>1, <3>2, <4>1
    <3>3. CASE i = 2
      <4>1. p + 8 * i - 7 = p + 8 + 1 /\ p + 8 * i = p + 8 + 8 /\ h >= 2
        BY <1>2, <2>1, <3>3
      <4> QED BY <1>13, <1>16, <2>1, <3>1, <3>3, <4>1
    <3>4. CASE i = 3
      <4>1. p + 8 * i - 7 = p + 16 + 1 /\ p + 8 * i = p + 16 + 8 /\ h >= 3
        BY <1>2, <2>1, <3>4
      <4> QED BY <1>13, <1>17, <2>1, <3>1, <3>4, <4>1
    <3> QED BY <3>2, <3>3, <3>4
  <2>2. CASE ~(i <= h)
    BY <1>19, <2>2, ClearedWords
  <2> QED BY <2>1, <2>2
<1>21. PICK vs : vs = Object!Words(d, y, m)
  OBVIOUS
<1>22. \A i \in 1..m : vs[i] = IF i <= k THEN SubSeq(d, y + 8 * i - 7, y + 8 * i) ELSE Object!Zeros(8)
  BY <1>3, <1>21 DEF Object!Words
<1>23. ASSUME NEW i \in 1..m
       PROVE  Object!DecodeValue(vs[i]) = IF i <= k THEN q.consts[i] ELSE VM!Zeroed
  <2>1. i = 1 /\ m = 1 /\ Len(q.consts) = 1
    BY <1>5
  <2>2. CASE i <= k
    <3>1. y + 8 <= N /\ h = 3 /\ y = p + 24
      <4>1. k = 1
        BY <1>4, <2>1, <2>2
      <4>2. y + 8 <= N
        BY <1>4, <4>1
      <4>3. h = 3
        <5>1. p + 8 * h + 8 <= N
          BY <1>3, <4>2
        <5>2. ~(N < p + 8 * h + 8)
          BY <1>1, <1>2, <5>1
        <5> QED BY <1>2, <5>2
      <4> QED BY <1>3, <4>2, <4>3
    <3>2. p3 = y
      BY <1>17, <3>1
    <3>3. PICK c, e : c = chunks[17] /\ e = pos[17]
      OBVIOUS
    <3>4. Found(d, y, c, e)
      <4>1. 17 \in 14..Len(chunks) /\ 17 - 1 = 16
        BY <1>6, <2>1
      <4> QED BY <1>7, <1>8, <3>2, <3>3, <4>1
    <3>5. c = Object!EncodeValue(q.consts[1])
      <4>1. \A j \in 1..Len(q.consts) : chunks[16 + j] = Object!EncodeValue(q.consts[j])
        BY DEF Layout
      <4> QED BY <2>1, <3>3, <4>1
    <3>6. c \in Seq(Int) /\ Len(c) = 8 /\ Object!DecodeValue(c) = q.consts[1]
      BY <2>1, <3>5 DEF Codable
    <3>7. SubSeq(d, y + 1, y + 8) = c
      BY <1>3, <1>14, <3>1, <3>4, <3>6
    <3>8. vs[i] = c
      <4>1. y + 8 * i - 7 = y + 1 /\ y + 8 * i = y + 8
        BY <1>3, <2>1
      <4> QED BY <1>22, <2>2, <3>7, <4>1
    <3> QED BY <2>1, <2>2, <3>6, <3>8
  <2>3. CASE ~(i <= k)
    BY <1>22, <2>3, ClearedWords
  <2> QED BY <2>2, <2>3
<1>24. PICK is, cs : is = [i \in 1..3 |-> Object!DecodeInstr(ws[i])] /\ cs = [i \in 1..m |-> Object!DecodeValue(vs[i])]
  OBVIOUS
<1>25. /\ is = [i \in 1..3 |-> IF i <= h THEN q.instrs[i] ELSE Op("NOP", 0, 0, 0)]
       /\ cs = [i \in 1..m |-> IF i <= k THEN q.consts[i] ELSE VM!Zeroed]
  BY <1>20, <1>23, <1>24
<1>26. [regCount |-> 2, instrs |-> is, consts |-> cs] = Cut(q, h, m, k)
  BY <1>25 DEF Cut
<1>27. ~(3 > MaxCells) /\ ~(m > MaxCells)
  BY <1>5, BaseFacts
<1>28. Object!ReadArrays(d, p, 2, 3, m)
         = IF Object!Field(d, y + 8 * k, 4) > MaxCells THEN Object!NoObject
           ELSE [regCount |-> 2, instrs |-> is, consts |-> cs]
  BY <1>3, <1>18, <1>21, <1>24, <1>27 DEF Object!ReadArrays
<1> QED BY <1>3, <1>26, <1>28

\* A part of q is q with zeros for the rest.
LEMMA CutIsZeroTail ==
  ASSUME NEW q, Codable(q), NEW h \in 0..3, NEW m \in Nat, NEW k \in 0..m,
         m = Len(q.consts) \/ (m = 0 /\ h = 0)
  PROVE  ZeroTail(Cut(q, h, m, k), q)
<1>1. PICK r, is, cs, n : /\ r = Cut(q, h, m, k) /\ n = Len(q.consts)
                          /\ is = [i \in 1..3 |-> IF i <= h THEN q.instrs[i] ELSE Op("NOP", 0, 0, 0)]
                          /\ cs = [i \in 1..m |-> IF i <= k THEN q.consts[i] ELSE VM!Zeroed]
  OBVIOUS
<1>2. r.regCount = 2 /\ r.instrs = is /\ r.consts = cs
  BY <1>1 DEF Cut
<1>3. /\ q.regCount = 2 /\ DOMAIN q.instrs = 1..3 /\ Len(q.instrs) = 3
      /\ DOMAIN q.consts = 1..n /\ n \in {0, 1}
  BY <1>1 DEF Codable
<1>4. r.regCount = q.regCount /\ DOMAIN r.instrs = DOMAIN q.instrs
  BY <1>1, <1>2, <1>3
<1>5. m = n \/ (m = 0 /\ h = 0)
  BY <1>1
<1>6. DOMAIN r.consts = DOMAIN q.consts \/ (r.consts = <<>> /\ h = 0)
  <2>1. CASE m = n
    BY <1>1, <1>2, <1>3, <2>1
  <2>2. CASE m = 0 /\ h = 0
    <3>1. 1..m = {}
      BY <2>2
    <3>2. cs = <<>>
      BY <1>1, <3>1
    <3> QED BY <1>2, <2>2, <3>2
  <2> QED BY <1>5, <2>1, <2>2
<1>7. \A i \in DOMAIN q.instrs : r.instrs[i] = IF i <= h THEN q.instrs[i] ELSE Op("NOP", 0, 0, 0)
  BY <1>1, <1>2, <1>3
<1>8. \E x \in 0..Len(q.instrs) :
        /\ \A i \in DOMAIN q.instrs : r.instrs[i] = IF i <= x THEN q.instrs[i] ELSE Op("NOP", 0, 0, 0)
        /\ DOMAIN r.consts = DOMAIN q.consts \/ (r.consts = <<>> /\ x = 0)
  BY <1>3, <1>6, <1>7
<1>9. k \in 0..Len(q.consts)
  BY <1>1, <1>3, <1>5
<1>10. \A i \in DOMAIN r.consts : r.consts[i] = IF i <= k THEN q.consts[i] ELSE VM!Zeroed
  BY <1>1, <1>2
<1>11. \E x \in 0..Len(q.consts) : \A i \in DOMAIN r.consts : r.consts[i] = IF i <= x THEN q.consts[i] ELSE VM!Zeroed
  BY <1>9, <1>10
<1> QED BY <1>1, <1>4, <1>8, <1>11 DEF ZeroTail

\* All of q is q.
LEMMA CutIsAll ==
  ASSUME NEW q, Codable(q)
  PROVE  Cut(q, 3, Len(q.consts), Len(q.consts)) = q
<1>1. PICK n, is, cs : n = Len(q.consts) /\ is = q.instrs /\ cs = q.consts
  OBVIOUS
<1>2. /\ q = [regCount |-> 2, instrs |-> is, consts |-> cs] /\ n \in {0, 1}
      /\ is = [i \in 1..3 |-> is[i]] /\ cs = [i \in 1..n |-> cs[i]]
  BY <1>1 DEF Codable
<1>3. is = [i \in 1..3 |-> IF i <= 3 THEN is[i] ELSE Op("NOP", 0, 0, 0)]
  BY <1>2
<1>4. cs = [i \in 1..n |-> IF i <= n THEN cs[i] ELSE VM!Zeroed]
  <2>1. \A i \in 1..n : i <= n
    BY <1>2
  <2>2. [i \in 1..n |-> cs[i]] = [i \in 1..n |-> IF i <= n THEN cs[i] ELSE VM!Zeroed]
    BY <2>1
  <2> QED BY <1>2, <2>2
<1> QED BY <1>1, <1>2, <1>3, <1>4 DEF Cut

\* A file cut in its code, or with chunks left out of it, is refused or read
\* as a first part of the program.
LEMMA CutRead ==
  ASSUME NEW name \in Seq(Int), Len(name) < Object!FourBytes, NEW path \in Seq(Int), Len(path) < Object!FourBytes,
         NEW q, Codable(q), NEW oom \in BOOLEAN, NEW cap \in Nat, NEW data,
         data = Object!WriteAll(ChunksOf(name, path, q), oom, cap),
         NEW d \in Seq(Int), \A j \in 1..Len(d) : j <= Len(data) => d[j] = data[j],
         oom => Len(d) <= cap,
         Len(data) <= Len(d) \/ FrontLength(name, path) <= Len(d)
  PROVE  Object!wvmReadObjectMemory(d) = Object!NoObject \/ ZeroTail(Object!wvmReadObjectMemory(d), q)
<1>1. PICK chunks, N : chunks = ChunksOf(name, path, q) /\ N = Len(d)
  OBVIOUS
<1>2. Layout(chunks, name, path, q)
  BY <1>1, ChunksAre
<1>3. PICK pos : Aligned(d, chunks, pos)
  BY <1>1, <1>2, ReaderInStep
<1>4. N \in Nat /\ HeaderSize \in Nat
  BY <1>1, LenProperties, BaseFacts
<1>5. CASE N < HeaderSize
  BY <1>1, <1>5 DEF Object!wvmReadObjectMemory
<1>6. CASE HeaderSize <= N
  <2>1. PICK p9, p10, p13 : p9 = pos[9] /\ p10 = pos[10] /\ p13 = pos[13]
    OBVIOUS
  <2>2. /\ p9 + 4 > N => ~VerifiedObject(Object!wvmDeserializePrototype(d))
        /\ p9 + 4 <= N =>
              \E m \in Nat :
                /\ Object!wvmDeserializePrototype(d) = Object!ReadArrays(d, p13, 2, 3, m)
                /\ p10 + 4 <= N => m = Len(q.consts)
                /\ p10 + 4 > N => m = 0
        /\ p10 <= p13 /\ p13 <= N
    BY <1>1, <1>2, <1>3, <1>6, <2>1, FrontRead
  <2>3. p9 \in Nat /\ p10 \in Nat /\ p13 \in Nat
    <3>1. Len(chunks) \in Nat /\ Len(chunks) >= 20
      BY <1>2 DEF Layout, Codable
    <3>2. 9 \in 0..Len(chunks) /\ 10 \in 0..Len(chunks) /\ 13 \in 0..Len(chunks)
      BY <3>1
    <3> QED BY <1>3, <2>1, <3>2 DEF Aligned
  <2>4. CASE p9 + 4 > N
    BY <2>2, <2>4 DEF Object!wvmReadObjectMemory
  <2>5. CASE p9 + 4 <= N
    <3>1. PICK m \in Nat : /\ Object!wvmDeserializePrototype(d) = Object!ReadArrays(d, p13, 2, 3, m)
                           /\ p10 + 4 <= N => m = Len(q.consts)
                           /\ p10 + 4 > N => m = 0
      BY <2>2, <2>5
    <3>2. PICK h, k : h = Object!Have(d, p13, 3) /\ k = Object!Have(d, p13 + 8 * h, m)
      OBVIOUS
    <3>3. h \in 0..3 /\ p13 + 8 * h <= N
      BY <1>1, <2>2, <2>3, <3>2, HaveIs
    <3>4. k \in 0..m
      <4>1. PICK y : y = p13 + 8 * h /\ y \in Nat /\ y <= N
        BY <2>3, <3>3
      <4> QED BY <1>1, <3>2, <4>1, HaveIs
    <3>5. m = Len(q.consts) \/ (m = 0 /\ h = 0)
      <4>1. CASE p10 + 4 <= N
        BY <3>1, <4>1
      <4>2. CASE p10 + 4 > N
        <5>1. p13 + 4 > N
          BY <1>4, <2>2, <2>3, <4>2
        <5>2. h = 0
          BY <1>4, <2>3, <3>3, <5>1
        <5> QED BY <3>1, <4>2, <5>2
      <4> QED BY <1>4, <2>3, <4>1, <4>2
    <3>6. m <= Len(q.consts)
      <4>1. PICK z : z = Len(q.consts)
        OBVIOUS
      <4>2. z = 0 \/ z = 1
        BY <4>1 DEF Codable
      <4>3. m = z \/ m = 0
        BY <3>5, <4>1
      <4> QED BY <4>1, <4>2, <4>3
    <3>7. Object!ReadArrays(d, p13, 2, 3, m) \in {Object!NoObject, Cut(q, h, m, k)}
      BY <1>1, <1>2, <1>3, <2>1, <2>2, <2>3, <3>2, <3>6, CodeRead
    <3>8. ZeroTail(Cut(q, h, m, k), q)
      BY <3>3, <3>4, <3>5, CutIsZeroTail
    <3>9. Object!wvmReadObjectMemory(d) \in {Object!NoObject, Object!wvmDeserializePrototype(d)}
      BY DEF Object!wvmReadObjectMemory
    <3> QED BY <3>1, <3>7, <3>8, <3>9
  <2> QED BY <1>4, <2>3, <2>4, <2>5
<1> QED BY <1>4, <1>5, <1>6

\* A file that starts with all of the chunks is read as the program.
LEMMA WholeRead ==
  ASSUME NEW name \in Seq(Int), Len(name) < Object!FourBytes, NEW path \in Seq(Int), Len(path) < Object!FourBytes,
         NEW q, Codable(q), VerifiedObject(q), NEW oom \in BOOLEAN, ~oom, NEW cap \in Nat, NEW data,
         data = Object!WriteAll(ChunksOf(name, path, q), oom, cap),
         NEW d \in Seq(Int), \A j \in 1..Len(d) : j <= Len(data) => d[j] = data[j], Len(data) <= Len(d)
  PROVE  Object!wvmReadObjectMemory(d) = q
<1>1. PICK chunks, N, m : chunks = ChunksOf(name, path, q) /\ N = Len(d) /\ m = Len(q.consts)
  OBVIOUS
<1>2. Layout(chunks, name, path, q)
  BY <1>1, ChunksAre
<1>3. PICK pos : Aligned(d, chunks, pos) /\ \A i \in 1..Len(chunks) : pos[i - 1] + Len(chunks[i]) <= Len(d)
  BY <1>1, <1>2, ReaderInStep
<1>4. N \in Nat /\ HeaderSize \in Nat
  BY <1>1, LenProperties, BaseFacts
<1>5. m = 0 \/ m = 1
  BY <1>1 DEF Codable
<1>6. Len(chunks) = 20 + m
  BY <1>1, <1>2 DEF Layout
<1>7. ASSUME NEW i \in 1..20 PROVE pos[i - 1] + Len(chunks[i]) <= N
  <2>1. i \in 1..Len(chunks)
    BY <1>5, <1>6
  <2> QED BY <1>1, <1>3, <2>1
<1>8. ASSUME NEW i \in 0..20 PROVE pos[i] \in Nat
  <2>1. i \in 0..Len(chunks)
    BY <1>5, <1>6
  <2> QED BY <1>3, <2>1 DEF Aligned
<1>9. PICK p9, p10, p13, p14, p15, p16, p17 :
        /\ p9 = pos[9] /\ p10 = pos[10] /\ p13 = pos[13] /\ p14 = pos[14]
        /\ p15 = pos[15] /\ p16 = pos[16] /\ p17 = pos[17]
  OBVIOUS
<1>10. p9 \in Nat /\ p10 \in Nat /\ p13 \in Nat /\ p14 \in Nat /\ p15 \in Nat /\ p16 \in Nat /\ p17 \in Nat
  BY <1>8, <1>9
<1>11. HeaderSize <= N /\ p9 + 4 <= N /\ p10 + 4 <= N
  <2>1. Len(chunks[1]) = HeaderSize /\ Len(chunks[10]) = 4 /\ Len(chunks[11]) = 4
    BY <1>2, FrontLengths
  <2>2. pos[1 - 1] + Len(chunks[1]) <= N /\ pos[10 - 1] + Len(chunks[10]) <= N /\ pos[11 - 1] + Len(chunks[11]) <= N
    BY <1>7
  <2>3. 1 - 1 = 0 /\ 10 - 1 = 9 /\ 11 - 1 = 10 /\ pos[0] = 0
    BY <1>3 DEF Aligned
  <2> QED BY <1>4, <1>9, <2>1, <2>2, <2>3
<1>12. ASSUME NEW i \in 14..(17 + m) PROVE Found(d, pos[i - 1], chunks[i], pos[i]) /\ pos[i - 1] + Len(chunks[i]) <= N
  <2>1. i \in 14..Len(chunks) /\ i \in 1..20
    BY <1>5, <1>6
  <2> QED BY <1>3, <1>7, <2>1 DEF Aligned
<1>13. p13 + 24 <= N /\ p16 = p13 + 24
  <2>1. \A i \in 1..3 : chunks[13 + i] = Object!EncodeInstr(q.instrs[i])
    BY <1>2 DEF Layout
  <2>2. \A i \in 1..3 : Len(Object!EncodeInstr(q.instrs[i])) = 8
    BY DEF Codable
  <2>3. Len(chunks[14]) = 8 /\ Len(chunks[15]) = 8 /\ Len(chunks[16]) = 8
    BY <2>1, <2>2
  <2>4. 14 \in 14..(17 + m) /\ 15 \in 14..(17 + m) /\ 16 \in 14..(17 + m)
    BY <1>5
  <2>5. 14 - 1 = 13 /\ 15 - 1 = 14 /\ 16 - 1 = 15
    OBVIOUS
  <2>6. /\ Found(d, p13, chunks[14], p14) /\ p13 + 8 <= N
        /\ Found(d, p14, chunks[15], p15) /\ p14 + 8 <= N
        /\ Found(d, p15, chunks[16], p16) /\ p15 + 8 <= N
    BY <1>9, <1>12, <2>3, <2>4, <2>5
  <2>7. p14 = p13 + 8 /\ p15 = p14 + 8 /\ p16 = p15 + 8
    BY <1>1, <2>3, <2>6 DEF Found
  <2> QED BY <1>4, <1>10, <2>6, <2>7
<1>14. PICK e : e = pos[16 + m]
  OBVIOUS
<1>15. e = p13 + 24 + 8 * m /\ e <= N
  <2>1. CASE m = 0
    <3>1. e = p16
      BY <1>9, <1>14, <2>1
    <3>2. p13 + 24 + 8 * m = p13 + 24
      BY <1>10, <2>1
    <3> QED BY <1>13, <3>1, <3>2
  <2>2. CASE m = 1
    <3>1. chunks[17] = Object!EncodeValue(q.consts[1])
      <4>1. \A j \in 1..Len(q.consts) : chunks[16 + j] = Object!EncodeValue(q.consts[j])
        BY <1>2 DEF Layout
      <4> QED BY <1>1, <2>2, <4>1
    <3>2. Len(chunks[17]) = 8
      BY <1>1, <2>2, <3>1 DEF Codable
    <3>3. 17 \in 14..(17 + m) /\ 17 - 1 = 16
      BY <2>2
    <3>4. Found(d, p16, chunks[17], p17) /\ p16 + 8 <= N
      BY <1>9, <1>12, <3>2, <3>3
    <3>5. p17 = p16 + 8
      BY <1>1, <3>2, <3>4 DEF Found
    <3>6. e = p17
      BY <1>9, <1>14, <2>2
    <3>7. p17 = p13 + 24 + 8 /\ p17 <= N
      BY <1>10, <1>13, <3>4, <3>5
    <3> QED BY <1>10, <2>2, <3>6, <3>7
  <2> QED BY <1>5, <2>1, <2>2
<1>16. Object!Field(d, e, 4) = 3
  <2>1. PICK c : c = chunks[17 + m]
    OBVIOUS
  <2>2. c = Object!Bytes(3, 4)
    BY <1>1, <1>2, <2>1 DEF Layout
  <2>3. c \in Seq(Int) /\ Len(c) = 4
    BY <2>2, BytesAre
  <2>4. PICK n : n = pos[17 + m]
    OBVIOUS
  <2>5. 17 + m \in 14..(17 + m) /\ (17 + m) - 1 = 16 + m
    BY <1>5
  <2>6. Found(d, e, c, n) /\ e + Len(c) <= N
    BY <1>12, <1>14, <2>1, <2>4, <2>5
  <2>7. InStep(d, e, c, n)
    <3>1. ~(e + Len(c) > N)
      BY <1>4, <1>5, <1>10, <1>15, <2>3, <2>6
    <3> QED BY <1>1, <2>6, <3>1 DEF InStep
  <2>8. e \in Nat
    BY <1>5, <1>10, <1>15
  <2>9. Object!Field(d, e, Len(c)) = Object!Unsigned(c)
    BY <1>1, <2>3, <2>6, <2>7, <2>8, FieldInStep
  <2>10. 3 \in 0..(Object!FourBytes - 1)
    BY BaseFacts
  <2>11. Object!Unsigned(c) = 3
    BY <2>2, <2>10, NumbersReadBack
  <2> QED BY <2>3, <2>9, <2>11
<1>17. /\ SubSeq(d, 1, 4) = Object!Magic
       /\ Object!wvmDeserializePrototype(d) = Object!ReadArrays(d, p13, 2, 3, m) /\ p13 <= N
  <2>1. /\ SubSeq(d, 1, 4) = Object!Magic
        /\ p9 + 4 > N => ~VerifiedObject(Object!wvmDeserializePrototype(d))
        /\ p9 + 4 <= N =>
             \E k \in Nat :
               /\ Object!wvmDeserializePrototype(d) = Object!ReadArrays(d, p13, 2, 3, k)
               /\ p10 + 4 <= N => k = Len(q.consts)
               /\ p10 + 4 > N => k = 0
        /\ p10 <= p13 /\ p13 <= N
    <3>1. Aligned(d, chunks, pos) /\ HeaderSize <= Len(d)
      BY <1>1, <1>3, <1>11
    <3> QED BY <1>1, <1>2, <1>9, <3>1, FrontRead
  <2> QED BY <1>1, <1>11, <2>1
<1>18. PICK h, k : h = Object!Have(d, p13, 3) /\ k = Object!Have(d, p13 + 8 * h, m)
  OBVIOUS
<1>19. h = 3
  <2>1. p13 + 8 * 3 <= N
    BY <1>10, <1>13
  <2> QED BY <1>1, <1>10, <1>17, <1>18, <2>1, HaveIs
<1>20. k = m
  <2>1. PICK y : y = p13 + 8 * h /\ y = p13 + 24 /\ y \in Nat /\ y <= N
    BY <1>10, <1>13, <1>19
  <2>2. m \in Nat /\ y + 8 * m <= N
    BY <1>5, <1>15, <2>1
  <2>3. y <= Len(d) /\ y + 8 * m <= Len(d)
    BY <1>1, <2>1, <2>2
  <2>4. Object!Have(d, y, m) = m
    BY <2>1, <2>2, <2>3, HaveIs
  <2> QED BY <1>18, <2>1, <2>4
<1>21. p13 + 8 * h + 8 * k = e
  BY <1>5, <1>10, <1>15, <1>19, <1>20
<1>22. ~(Object!Field(d, p13 + 8 * h + 8 * k, 4) > MaxCells)
  BY <1>16, <1>21, BaseFacts
<1>23. m \in Nat /\ m <= Len(q.consts)
  BY <1>1, <1>5
<1>24. Object!ReadArrays(d, p13, 2, 3, m) = Cut(q, h, m, k)
  BY <1>1, <1>2, <1>3, <1>9, <1>10, <1>17, <1>18, <1>22, <1>23, CodeRead
<1>25. Cut(q, h, m, k) = q
  BY <1>1, <1>19, <1>20, CutIsAll
<1>26. ~(Len(d) < HeaderSize)
  BY <1>1, <1>4, <1>11
<1> QED BY <1>17, <1>24, <1>25, <1>26 DEF Object!wvmReadObjectMemory

-----------------------------------------------------------------------------
(* The file.                                                               *)

\* The prototype of a constant whose low 32 bits are an int32_t.
Constant(p) == \E v : Narrow(v) \in Word /\ p = ConstantPrototype(v)

\* What a compiler that has opened the file is going to write.
Written(t, l) ==
  IF Job(t).symbolic THEN l.data = Assembly
  ELSE /\ Constant(l.proto)
       /\ l.data \in Object!wvmWriteObjectMemory(FileFields(Job(t).name, Job(t).path, l.proto), scenario.oom)

CompilerOK(t, l) ==
  /\ l.stage = "compile" => Job(t).source.kind # "MISSING"
  /\ l.stage = "create" \/ (l.stage = "open" /\ ~Job(t).symbolic) => Constant(l.proto)
  /\ l.stage = "write" => l.touched
  /\ l.touched => Written(t, l)

\* What wvm-run has read, and made of it.
RunnerOK(l) ==
  /\ l.size \in Nat /\ l.data \in Seq(Int)
  /\ l.data # <<>> => l.proto = Object!wvmReadObjectMemory(l.data)
  /\ l.stage \in {"args", "create", "size", "fread"} => l.data = <<>> /\ l.proto = Object!NoObject

FileOK(t, l) == (t \in Compilers => CompilerOK(t, l)) /\ (t = "wvm-run" => RunnerOK(l))

\* The bytes d come from one compiler.
Traced(d) == d = <<>> \/ \E c \in Writers : Alike(d, local[c].data)

DiskInv ==
  /\ Writers = {} => disk = NoFile
  /\ Writers # {} => disk \in Seq(Int) /\ Traced(disk)

RunnerInv ==
  "wvm-run" \in Tools =>
    (At("wvm-run", "fread") => Writers # {}) /\ Traced(local["wvm-run"].data)

FileInv == (\A t \in Tools : FileOK(t, local[t])) /\ DiskInv /\ RunnerInv

\* What holds of a tool's own state depends on the scenario only.
LEMMA FilePrimed ==
  ASSUME scenario' = scenario
  PROVE  Tools' = Tools /\ \A t, x : FileOK(t, x)' <=> FileOK(t, x)
<1>1. Tools' = Tools /\ \A t : Job(t)' = Job(t)
  BY DEF Tools, Job
<1>2. \A t, x : Written(t, x)' <=> Written(t, x)
  BY <1>1 DEF Written
<1>3. \A t, x : CompilerOK(t, x)' <=> CompilerOK(t, x)
  BY <1>1, <1>2 DEF CompilerOK
<1> QED BY <1>1, <1>3 DEF FileOK

\* A step of one tool: it leaves the file alone, or it is a compiler that has
\* opened it, and the file is empty, as it was, or like what the compiler writes.
LEMMA FileStep ==
  ASSUME OwnInv, FileInv, scenario' = scenario, NEW t \in Tools, NEW l, Become(t, l), FileOK(t, l),
         t \in Compilers /\ local[t].touched => l.touched /\ l.data = local[t].data,
         \/ disk' = disk /\ (t \in Compilers => (l.touched <=> local[t].touched))
         \/ /\ t \in Compilers /\ l.touched /\ disk' \in Seq(Int)
            /\ disk' = <<>> \/ (disk' = disk /\ local[t].touched) \/ Alike(disk', l.data),
         t = "wvm-run" => (l.stage = "fread" => Writers # {}) /\ Traced(l.data)
  PROVE  FileInv'
<1>1. Tools' = Tools /\ \A u, x : FileOK(u, x)' <=> FileOK(u, x)
  BY FilePrimed
<1>2. DOMAIN local = Tools /\ local' = [local EXCEPT ![t] = l]
  BY DEF OwnInv, Become
<1>3. \A u \in Tools : local'[u] = IF u = t THEN l ELSE local[u]
  BY <1>2
<1>4. \A u \in Tools : FileOK(u, local'[u])
  BY <1>3 DEF FileInv
<1>5. (\A u \in Tools : FileOK(u, local[u]))'
  BY <1>1, <1>4
<1>6. \A u : u \in Writers' <=> u \in Compilers /\ u \in Tools /\ local'[u].touched
  BY <1>1 DEF Writers
<1>7. \A u : u \in Writers <=> u \in Compilers /\ u \in Tools /\ local[u].touched
  BY DEF Writers
<1>8. \A c \in Writers : c \in Writers' /\ local'[c].data = local[c].data
  BY <1>3, <1>6, <1>7
<1>9. \A d : Traced(d)' <=> (d = <<>> \/ \E c \in Writers' : Alike(d, local'[c].data))
  BY DEF Traced, Alike, IsPrefix
<1>10. \A d : Traced(d) => Traced(d)'
  BY <1>8, <1>9 DEF Traced
<1>11. DiskInv /\ RunnerInv
  BY DEF FileInv
<1>12. (Writers' = {} => disk' = NoFile) /\ (Writers' # {} => disk' \in Seq(Int) /\ (disk' = <<>> \/ \E c \in Writers' : Alike(disk', local'[c].data)))
  <2>1. CASE disk' = disk /\ (t \in Compilers => (l.touched <=> local[t].touched))
    <3>1. Writers' = Writers
      BY <1>3, <1>6, <1>7, <2>1
    <3>2. Writers = {} => disk' = NoFile
      BY <1>11, <2>1 DEF DiskInv
    <3>3. Writers # {} => disk \in Seq(Int) /\ Traced(disk)
      BY <1>11 DEF DiskInv
    <3>4. Writers # {} => disk = <<>> \/ \E c \in Writers : Alike(disk, local[c].data)
      BY <3>3 DEF Traced
    <3> QED BY <1>8, <2>1, <3>1, <3>2, <3>3, <3>4
  <2>2. CASE /\ t \in Compilers /\ l.touched /\ disk' \in Seq(Int)
             /\ disk' = <<>> \/ (disk' = disk /\ local[t].touched) \/ Alike(disk', l.data)
    <3>1. t \in Writers' /\ local'[t].data = l.data
      BY <1>3, <1>6, <2>2
    <3>2. CASE disk' = <<>> \/ Alike(disk', l.data)
      BY <2>2, <3>1, <3>2
    <3>3. CASE disk' = disk /\ local[t].touched
      <4>1. Writers # {}
        BY <1>7, <2>2, <3>3
      <4>2. disk = <<>> \/ \E c \in Writers : Alike(disk, local[c].data)
        BY <1>11, <4>1 DEF DiskInv, Traced
      <4> QED BY <1>8, <2>2, <3>1, <3>3, <4>2
    <3> QED BY <2>2, <3>2, <3>3
  <2> QED BY <2>1, <2>2
<1>13. DiskInv'
  BY <1>12 DEF DiskInv, Traced, Alike, IsPrefix
<1>14. "wvm-run" \in Tools => (local'["wvm-run"].stage = "fread" => Writers' # {})
                              /\ (local'["wvm-run"].data = <<>> \/ \E c \in Writers' : Alike(local'["wvm-run"].data, local'[c].data))
  <2>1. CASE t = "wvm-run"
    BY <1>3, <1>8, <2>1 DEF Traced
  <2>2. CASE t # "wvm-run"
    <3>1. "wvm-run" \in Tools => (local["wvm-run"].stage = "fread" => Writers # {}) /\ Traced(local["wvm-run"].data)
      BY <1>11 DEF RunnerInv, At
    <3> QED BY <1>3, <1>8, <2>2, <3>1 DEF Traced
  <2> QED BY <2>1, <2>2
<1>15. RunnerInv'
  BY <1>1, <1>14 DEF RunnerInv, At, Traced, Alike, IsPrefix
<1> QED BY <1>5, <1>13, <1>15 DEF FileInv

\* What the invariants say of one tool.
LEMMA FileNow ==
  ASSUME OwnInv, FileInv, NEW t \in Tools, NEW l, l = local[t]
  PROVE  /\ DOMAIN l = Fields /\ Outcome(t, l)
         /\ l.stage \notin {"write", "done", "killed"} => l.touched = FALSE
         /\ t \in Compilers => CompilerOK(t, l)
         /\ t = "wvm-run" => RunnerOK(l) /\ (l.stage = "fread" => Writers # {}) /\ Traced(l.data)
         /\ t \in Compilers \cup {"wvm-run", "iwirble"}
BY LocalFacts, ToolNames DEF FileInv, FileOK, RunnerInv, At

\* The interpreter has nothing to do with the file.
LEMMA OtherFile ==
  ASSUME OwnInv, FileInv, scenario' = scenario, disk' = disk, "iwirble" \in Tools, NEW l, Become("iwirble", l)
  PROVE  FileInv'
<1>1. FileOK("iwirble", l) /\ "iwirble" \notin Compilers
  BY DEF FileOK, Compilers
<1> QED BY <1>1, FileStep

\* A tool that keeps what it has of the file.
LEMMA QuietFile ==
  ASSUME OwnInv, FileInv, scenario' = scenario, disk' = disk, NEW t \in Tools, NEW l, Become(t, l),
         l.touched = local[t].touched, l.data = local[t].data, l.size = local[t].size, l.proto = local[t].proto,
         l.stage \notin {"compile", "open", "write", "fread"}, l.stage = "create" => t \notin Compilers,
         l.stage \in {"args", "create", "size"} => local[t].stage \in {"args", "create"}
  PROVE  FileInv'
<1>1. PICK x : x = local[t]
  OBVIOUS
<1>2. /\ t \in Compilers => CompilerOK(t, x)
      /\ t = "wvm-run" => RunnerOK(x) /\ (x.stage = "fread" => Writers # {}) /\ Traced(x.data)
  BY <1>1, FileNow
<1>3. t \in Compilers => CompilerOK(t, l)
  BY <1>1, <1>2 DEF CompilerOK, Written
<1>4. t = "wvm-run" => RunnerOK(l) /\ Traced(l.data)
  BY <1>1, <1>2 DEF RunnerOK
<1>5. FileOK(t, l)
  BY <1>3, <1>4 DEF FileOK
<1> QED BY <1>4, <1>5, FileStep

LEMMA StillFile ==
  ASSUME FileInv, scenario' = scenario, disk' = disk, local' = local
  PROVE  FileInv'
<1>1. Tools' = Tools /\ \A u, x : FileOK(u, x)' <=> FileOK(u, x)
  BY FilePrimed
<1>2. Writers' = Writers
  BY <1>1 DEF Writers
<1>3. DiskInv'
  BY <1>2 DEF FileInv, DiskInv, Traced, Alike, IsPrefix
<1>4. RunnerInv'
  BY <1>1, <1>2 DEF FileInv, RunnerInv, Traced, Alike, IsPrefix, At
<1> QED BY <1>1, <1>3, <1>4 DEF FileInv

LEMMA ArgumentsFile ==
  ASSUME OwnInv, FileInv, NEW t \in Tools, ParseArguments(t)
  PROVE  FileInv'
<1>1. PICK l : l = local[t]
  OBVIOUS
<1>2. l.stage = "args" /\ scenario' = scenario /\ disk' = disk
  BY <1>1 DEF ParseArguments, At
<1>3. DOMAIN l = Fields
  BY <1>1, FileNow
<1>4. PICK m : m = Exit(l, 1)
  OBVIOUS
<1>5. Keep(m, l, {"heap", "held", "stage", "code"}) /\ m.stage = "done"
  BY <1>3, <1>4, KeepExit
<1>6. PICK stage : stage = IF t = "wvm-run" THEN "create" ELSE IF Interactive(t) THEN "repl" ELSE "read"
  OBVIOUS
<1>7. PICK x : x = [l EXCEPT !.stage = stage]
  OBVIOUS
<1>8. /\ x.stage = stage /\ x.touched = l.touched /\ x.data = l.data /\ x.size = l.size /\ x.proto = l.proto
      /\ m.touched = l.touched /\ m.data = l.data /\ m.size = l.size /\ m.proto = l.proto
  BY <1>3, <1>5, <1>7 DEF Keep, Fields
<1>9. stage \in {"create", "repl", "read"} /\ (stage = "create" => t \notin Compilers)
  BY <1>6 DEF Compilers
<1>10. Become(t, m) \/ Become(t, x)
  BY <1>1, <1>4, <1>6, <1>7 DEF ParseArguments
<1>11. CASE Become(t, m)
  BY <1>1, <1>2, <1>5, <1>8, <1>11, QuietFile
<1>12. CASE Become(t, x)
  BY <1>1, <1>2, <1>8, <1>9, <1>12, QuietFile
<1> QED BY <1>10, <1>11, <1>12

LEMMA ReadFileStep ==
  ASSUME OwnInv, FileInv, NEW t \in Tools, wirbleReadFile(t)
  PROVE  FileInv'
<1>1. PICK l : l = local[t]
  OBVIOUS
<1>2. l.stage = "read" /\ scenario' = scenario /\ disk' = disk
  BY <1>1 DEF wirbleReadFile, At
<1>3. DOMAIN l = Fields /\ Outcome(t, l) /\ l.touched = FALSE
  BY <1>1, <1>2, FileNow
<1>4. t # "wvm-run"
  BY <1>2, <1>3 DEF Outcome
<1>5. CASE Job(t).source.kind # "MISSING" /\ Become(t, [Allocate(l, {"source"}) EXCEPT !.stage = "compile"])
  <2>1. PICK x : x = Allocate(l, {"source"})
    OBVIOUS
  <2>2. Keep(x, l, {"heap", "held"})
    BY <1>3, <2>1, KeepAllocate
  <2>3. PICK m : m = [x EXCEPT !.stage = "compile"]
    OBVIOUS
  <2>4. m.stage = "compile" /\ m.touched = FALSE
    BY <1>3, <2>2, <2>3 DEF Keep, Fields
  <2>5. CompilerOK(t, m)
    BY <1>5, <2>4 DEF CompilerOK
  <2>6. FileOK(t, m)
    BY <1>4, <2>5 DEF FileOK
  <2> QED BY <1>1, <1>2, <1>3, <1>4, <1>5, <2>1, <2>3, <2>4, <2>6, FileStep
<1>6. CASE \E m \in wirble_set_error(l) : Become(t, Exit(m, 1))
  <2>1. PICK m \in wirble_set_error(l) : Become(t, Exit(m, 1))
    BY <1>6
  <2>2. Keep(m, l, {"heap", "held"})
    BY <1>3, KeepError
  <2>3. PICK x : x = Exit(m, 1)
    OBVIOUS
  <2>4. Keep(x, m, {"heap", "held", "stage", "code"}) /\ x.stage = "done"
    BY <2>2, <2>3, KeepExit DEF Keep
  <2>5. x.touched = l.touched /\ x.data = l.data /\ x.size = l.size /\ x.proto = l.proto
    BY <2>2, <2>4 DEF Keep, Fields
  <2> QED BY <1>1, <1>2, <2>1, <2>3, <2>4, <2>5, QuietFile
<1> QED BY <1>1, <1>5, <1>6 DEF wirbleReadFile

\* A compiler compiles a constant whose low 32 bits are an int32_t.
LEMMA CompiledNarrow ==
  ASSUME OwnInv, NEW t \in Tools, NEW e, e = Job(t).source, e.kind \notin {"MISSING", "MALFORMED"},
         NEW level, NEW c \in Compiled(Folded(e), level)
  PROVE  Narrow(c) \in Word
<1>1. scenario \in Scenarios /\ t \in DOMAIN scenario.jobs /\ e = scenario.jobs[t].source
  BY DEF OwnInv, Tools, Job
<1>2. e \in SourcesOf(scenario.jobs[t])
  BY <1>1 DEF SourcesOf
<1>3. c \in Compiled(Folded(e), 0) \/ c \in Compiled(Folded(e), 1)
  BY DEF Compiled
<1> QED BY <1>1, <1>2, <1>3, NarrowAssumption

LEMMA CompileFile ==
  ASSUME OwnInv, FileInv, NEW t \in Tools, Compile(t)
  PROVE  FileInv'
<1>1. PICK l : l = local[t]
  OBVIOUS
<1>2. l.stage = "compile" /\ scenario' = scenario /\ disk' = disk
  BY <1>1 DEF Compile, At
<1>3. /\ DOMAIN l = Fields /\ Outcome(t, l) /\ l.touched = FALSE /\ (t \in Compilers => CompilerOK(t, l))
      /\ t \in Compilers \cup {"wvm-run", "iwirble"}
  BY <1>1, <1>2, FileNow
<1>4. t # "wvm-run"
  BY <1>2, <1>3 DEF Outcome
<1>5. CASE t = "iwirble"
  <2>1. \E m : Become(t, m)
    BY DEF Compile
  <2> QED BY <1>2, <1>5, <2>1, OtherFile
<1>6. CASE t \in Compilers
  <2>1. PICK b \in wirbleBuildPipelineArtifacts(l, Source(t), Job(t), l.level) :
          Become(t, IF ~b.built THEN GiveUp(t, b.l)
                    ELSE IF Job(t).symbolic THEN [b.l EXCEPT !.stage = "open"]
                    ELSE [HandOver(b.l) EXCEPT !.stage = "create", !.proto = ConstantPrototype(b.value)])
    BY <1>1 DEF Compile
  <2>2. PICK x : x = b.l
    OBVIOUS
  <2>3. t # "iwirble"
    BY <1>6 DEF Compilers
  <2>4. PICK e : e = Job(t).source
    OBVIOUS
  <2>5. Source(t) = e /\ e.kind # "MISSING"
    BY <1>2, <1>3, <1>6, <2>3, <2>4 DEF Source, Interactive, CompilerOK
  <2>6. /\ Keep(x, l, {"heap", "held"})
        /\ b.built => e.kind # "MALFORMED" /\ b.value \in Compiled(Folded(e), l.level)
    BY <1>3, <2>1, <2>2, <2>5, KeepBuild
  <2>7. /\ DOMAIN x = Fields /\ x.touched = FALSE /\ x.data = l.data /\ x.size = l.size /\ x.proto = l.proto
    BY <1>3, <2>6 DEF Keep, Fields
  <2>8. CASE ~b.built
    <3>1. PICK m : m = Exit(x, 1)
      OBVIOUS
    <3>2. Become(t, m)
      BY <2>1, <2>2, <2>3, <2>8, <3>1 DEF GiveUp
    <3>3. Keep(m, x, {"heap", "held", "stage", "code"}) /\ m.stage = "done"
      BY <2>7, <3>1, KeepExit
    <3>4. m.touched = l.touched /\ m.data = l.data /\ m.size = l.size /\ m.proto = l.proto
      BY <1>3, <2>7, <3>3 DEF Keep, Fields
    <3> QED BY <1>1, <1>2, <3>2, <3>3, <3>4, QuietFile
  <2>9. CASE b.built /\ Job(t).symbolic
    <3>1. PICK m : m = [x EXCEPT !.stage = "open"]
      OBVIOUS
    <3>2. Become(t, m) /\ m.stage = "open" /\ m.touched = FALSE
      BY <2>1, <2>2, <2>7, <2>9, <3>1 DEF Fields
    <3>3. FileOK(t, m)
      BY <1>4, <2>9, <3>2 DEF FileOK, CompilerOK
    <3> QED BY <1>1, <1>2, <1>3, <1>4, <3>2, <3>3, FileStep
  <2>10. CASE b.built /\ ~Job(t).symbolic
    <3>1. PICK h, p : h = HandOver(x) /\ p = ConstantPrototype(b.value)
      OBVIOUS
    <3>2. Keep(h, x, {"heap", "held"})
      BY <2>7, <3>1, KeepHandOver
    <3>3. PICK m : m = [h EXCEPT !.stage = "create", !.proto = p]
      OBVIOUS
    <3>4. Become(t, m)
      BY <2>1, <2>2, <2>10, <3>1, <3>3
    <3>5. m.stage = "create" /\ m.proto = p /\ m.touched = FALSE
      BY <2>7, <3>2, <3>3 DEF Keep, Fields
    <3>6. Narrow(b.value) \in Word
      BY <2>4, <2>5, <2>6, <2>10, CompiledNarrow
    <3>7. Constant(p)
      BY <3>1, <3>6 DEF Constant
    <3>8. FileOK(t, m)
      BY <1>4, <3>5, <3>7 DEF FileOK, CompilerOK
    <3> QED BY <1>1, <1>2, <1>3, <1>4, <3>4, <3>5, <3>8, FileStep
  <2> QED BY <2>8, <2>9, <2>10
<1> QED BY <1>3, <1>4, <1>5, <1>6

LEMMA KilledFile ==
  ASSUME OwnInv, FileInv, NEW t \in Tools, Kill(t) \/ CompileTraps(t)
  PROVE  FileInv'
<1>1. PICK l : l = local[t]
  OBVIOUS
<1>2. DOMAIN l = Fields
  BY <1>1, FileNow
<1>3. PICK m : m = [l EXCEPT !.stage = "killed"]
  OBVIOUS
<1>4. scenario' = scenario /\ disk' = disk /\ Become(t, m)
  BY <1>1, <1>3 DEF Kill, CompileTraps
<1>5. m.stage = "killed" /\ m.touched = l.touched /\ m.data = l.data /\ m.size = l.size /\ m.proto = l.proto
  BY <1>2, <1>3 DEF Fields
<1> QED BY <1>1, <1>4, <1>5, QuietFile

LEMMA CreateFile ==
  ASSUME OwnInv, FileInv, NEW t \in Tools, wvmCreate(t)
  PROVE  FileInv'
<1>1. PICK l : l = local[t]
  OBVIOUS
<1>2. l.stage = "create" /\ scenario' = scenario /\ disk' = disk
  BY <1>1 DEF wvmCreate, At
<1>3. /\ DOMAIN l = Fields /\ l.touched = FALSE /\ (t \in Compilers => CompilerOK(t, l))
      /\ t \in Compilers \cup {"wvm-run", "iwirble"}
  BY <1>1, <1>2, FileNow
<1>4. PICK x, stage : /\ x = Allocate(l, {"vm"})
                      /\ stage = IF t \in Compilers THEN "open" ELSE IF t = "wvm-run" THEN "size" ELSE "execute"
  OBVIOUS
<1>5. Keep(x, l, {"heap", "held"})
  BY <1>3, <1>4, KeepAllocate
<1>6. PICK m : m = [x EXCEPT !.stage = stage]
  OBVIOUS
<1>7. /\ m.stage = stage /\ m.touched = l.touched /\ m.data = l.data /\ m.size = l.size /\ m.proto = l.proto
  BY <1>5, <1>6 DEF Keep, Fields
<1>8. PICK g : g = GiveUp(t, l)
  OBVIOUS
<1>9. Become(t, m) \/ Become(t, g)
  BY <1>1, <1>4, <1>6, <1>8 DEF wvmCreate
<1>10. CASE t = "iwirble"
  BY <1>2, <1>9, <1>10, OtherFile
<1>11. CASE t # "iwirble" /\ Become(t, g)
  <2>1. g = Exit(l, 1)
    BY <1>8, <1>11 DEF GiveUp
  <2>2. Keep(g, l, {"heap", "held", "stage", "code"}) /\ g.stage = "done"
    BY <1>3, <2>1, KeepExit
  <2>3. g.touched = l.touched /\ g.data = l.data /\ g.size = l.size /\ g.proto = l.proto
    BY <2>2 DEF Keep, Fields
  <2> QED BY <1>1, <1>2, <1>11, <2>2, <2>3, QuietFile
<1>12. CASE t = "wvm-run" /\ Become(t, m)
  <2>1. stage = "size"
    BY <1>4, <1>12 DEF Compilers
  <2> QED BY <1>1, <1>2, <1>7, <1>12, <2>1, QuietFile
<1>13. CASE t \in Compilers /\ Become(t, m)
  <2>1. stage = "open" /\ t # "wvm-run"
    BY <1>4, <1>13 DEF Compilers
  <2>2. Constant(l.proto)
    BY <1>2, <1>3, <1>13 DEF CompilerOK
  <2>3. FileOK(t, m)
    BY <1>3, <1>7, <2>1, <2>2 DEF FileOK, CompilerOK
  <2> QED BY <1>1, <1>2, <1>3, <1>7, <1>13, <2>1, <2>3, FileStep
<1> QED BY <1>3, <1>9, <1>10, <1>11, <1>12, <1>13

LEMMA ExecuteFile ==
  ASSUME OwnInv, FileInv, NEW t \in Tools, Execute(t)
  PROVE  FileInv'
<1>1. PICK l : l = local[t]
  OBVIOUS
<1>2. DOMAIN l = Fields
  BY <1>1, FileNow
<1>3. PICK m : m = [l EXCEPT !.stage = "run"]
  OBVIOUS
<1>4. scenario' = scenario /\ disk' = disk /\ Become(t, m)
  BY <1>1, <1>3 DEF Execute
<1>5. m.stage = "run" /\ m.touched = l.touched /\ m.data = l.data /\ m.size = l.size /\ m.proto = l.proto
  BY <1>2, <1>3 DEF Fields
<1> QED BY <1>1, <1>4, <1>5, QuietFile

LEMMA FinishFile ==
  ASSUME OwnInv, FileInv, NEW t \in Tools, Finish(t)
  PROVE  FileInv'
<1>1. PICK l, r : l = local[t] /\ r = <<[value |-> stack[0]]>>
  OBVIOUS
<1>2. DOMAIN l = Fields
  BY <1>1, FileNow
<1>3. scenario' = scenario /\ disk' = disk
  BY DEF Finish
<1>4. CASE t = "iwirble"
  <2>1. \E m : Become(t, m)
    BY DEF Finish
  <2> QED BY <1>3, <1>4, <2>1, OtherFile
<1>5. CASE t # "iwirble"
  <2>1. PICK x : x = [l EXCEPT !.printed = r]
    OBVIOUS
  <2>2. Become(t, Exit(l, 1)) \/ Become(t, Exit(x, 0))
    BY <1>1, <1>5, <2>1 DEF Finish, GiveUp
  <2>3. DOMAIN x = Fields /\ x.touched = l.touched /\ x.data = l.data /\ x.size = l.size /\ x.proto = l.proto
    BY <1>2, <2>1 DEF Fields
  <2>4. ASSUME NEW y, DOMAIN y = Fields, y.touched = l.touched, y.data = l.data, y.size = l.size, y.proto = l.proto,
               NEW code, Become(t, Exit(y, code))
        PROVE  FileInv'
    <3>1. PICK m : m = Exit(y, code)
      OBVIOUS
    <3>2. Keep(m, y, {"heap", "held", "stage", "code"}) /\ m.stage = "done"
      BY <2>4, <3>1, KeepExit
    <3>3. m.touched = l.touched /\ m.data = l.data /\ m.size = l.size /\ m.proto = l.proto
      BY <2>4, <3>2 DEF Keep, Fields
    <3> QED BY <1>1, <1>3, <2>4, <3>1, <3>2, <3>3, QuietFile
  <2> QED BY <1>2, <2>2, <2>3, <2>4
<1> QED BY <1>4, <1>5

LEMMA LineFile ==
  ASSUME OwnInv, FileInv, NEW t \in Tools, iwirble_execute(t)
  PROVE  FileInv'
<1>1. scenario' = scenario /\ disk' = disk /\ (\E m : Become(t, m)) /\ local[t].stage = "repl"
  BY DEF iwirble_execute, At
<1>2. t = "iwirble"
  BY <1>1, FileNow DEF Outcome
<1> QED BY <1>1, <1>2, OtherFile

-----------------------------------------------------------------------------
(* Two files that start alike.                                             *)

Agree(s, t) == \A j \in 1..Len(s) : j <= Len(t) => s[j] = t[j]

LEMMA PrefixIs ==
  ASSUME NEW s \in Seq(Int), NEW t \in Seq(Int)
  PROVE  IsPrefix(s, t) <=> Len(s) <= Len(t) /\ Agree(s, t)
<1>1. PICK n, m : n = Len(s) /\ m = Len(t) /\ n \in Nat /\ m \in Nat
  BY LenProperties
<1>2. ASSUME IsPrefix(s, t) PROVE n <= m /\ Agree(s, t)
  <2>1. n <= m /\ SubSeq(t, 1, n) = s
    BY <1>1, <1>2 DEF IsPrefix
  <2>2. \A j \in 1..n : s[j] = t[j]
    BY <1>1, <2>1
  <2> QED BY <1>1, <2>1, <2>2 DEF Agree
<1>3. ASSUME n <= m, Agree(s, t) PROVE IsPrefix(s, t)
  <2>1. \A j \in 1..n : t[0 + j] = s[j]
    BY <1>1, <1>3 DEF Agree
  <2>2. SubSeq(t, 0 + 1, 0 + n) = s
    BY <1>1, <1>3, <2>1, SubSeqIs
  <2>3. 0 + 1 = 1 /\ 0 + n = n
    BY <1>1
  <2> QED BY <1>1, <1>3, <2>2, <2>3 DEF IsPrefix
<1> QED BY <1>1, <1>2, <1>3

LEMMA AlikeIs ==
  ASSUME NEW s \in Seq(Int), NEW t \in Seq(Int)
  PROVE  Alike(s, t) <=> t # <<>> /\ Agree(s, t)
<1>1. PICK n, m : n = Len(s) /\ m = Len(t) /\ n \in Nat /\ m \in Nat
  BY LenProperties
<1>2. /\ IsPrefix(s, t) <=> n <= m /\ Agree(s, t)
      /\ IsPrefix(t, s) <=> m <= n /\ Agree(t, s)
  BY <1>1, PrefixIs
<1>3. Agree(s, t) <=> Agree(t, s)
  <2>1. \A j : (j \in 1..n /\ j <= m) <=> (j \in 1..m /\ j <= n)
    BY <1>1
  <2> QED BY <1>1, <2>1 DEF Agree
<1> QED BY <1>1, <1>2, <1>3 DEF Alike

\* What a compiler is going to write.
LEMMA WrittenFacts ==
  ASSUME OwnInv, NEW t \in Tools, NEW l, Written(t, l)
  PROVE  /\ l.data \in Seq(Int)
         /\ Job(t).name \in Seq(Int) /\ Len(Job(t).name) < Object!FourBytes
         /\ Job(t).path \in Seq(Int) /\ Len(Job(t).path) < Object!FourBytes
         /\ Job(t).symbolic => l.data = Assembly
         /\ ~Job(t).symbolic =>
              /\ Codable(l.proto) /\ VerifiedObject(l.proto)
              /\ \E cap \in Nat :
                   /\ l.data = Object!WriteAll(ChunksOf(Job(t).name, Job(t).path, l.proto), scenario.oom, cap)
                   /\ cap \in {0, InitBuf} /\ (scenario.oom => Len(l.data) <= cap)
<1>1. PICK name, path, oom, p, data : /\ name = Job(t).name /\ path = Job(t).path /\ oom = scenario.oom
                                      /\ p = l.proto /\ data = l.data
  OBVIOUS
<1>2. scenario \in Scenarios /\ t \in DOMAIN scenario.jobs
  BY DEF OwnInv, Tools
<1>3. oom \in BOOLEAN /\ name \in Seq(0..(Base - 1)) /\ path \in Seq(0..(Base - 1))
  BY <1>1, <1>2, ScenariosAssumption DEF Job
<1>4. Len(name) < Object!FourBytes /\ Len(path) < Object!FourBytes /\ InitBuf \in Nat
  BY <1>1, <1>2, SizesAssumption DEF Job
<1>5. ASSUME NEW s \in Seq(0..(Base - 1)) PROVE s \in Seq(Int)
  <2>1. \A i \in 1..Len(s) : s[i] \in Int
    <3>1. PICK S : S = 0..(Base - 1) /\ S \subseteq Int
      BY BaseFacts
    <3>2. s \in Seq(S)
      BY <3>1
    <3>3. \A i \in 1..Len(s) : s[i] \in S
      BY <3>2
    <3> QED BY <3>1, <3>3
  <2>2. s = [i \in 1..Len(s) |-> s[i]] /\ Len(s) \in Nat
    OBVIOUS
  <2> QED BY <2>1, <2>2
<1>6. name \in Seq(Int) /\ path \in Seq(Int)
  BY <1>3, <1>5
<1>7. CASE Job(t).symbolic
  <2>1. data = Assembly
    BY <1>1, <1>7 DEF Written
  <2>2. Assembly \in Seq(Int)
    <3>1. HeaderSize + 4 \in Nat /\ Base - 1 \in Int
      BY BaseFacts
    <3> QED BY <3>1 DEF Assembly
  <2> QED BY <1>1, <1>4, <1>6, <1>7, <2>1, <2>2
<1>8. CASE ~Job(t).symbolic
  <2>1. Constant(p) /\ data \in Object!wvmWriteObjectMemory(FileFields(name, path, p), oom)
    BY <1>1, <1>8 DEF Written
  <2>2. Codable(p) /\ VerifiedObject(p)
    BY <2>1, ConstantCodable DEF Constant
  <2>3. PICK chunks : chunks = ChunksOf(name, path, p)
    OBVIOUS
  <2>4. PICK cap : cap \in {0, InitBuf} /\ data = Object!WriteAll(chunks, oom, cap)
    BY <2>1, <2>3 DEF Object!wvmWriteObjectMemory, ChunksOf
  <2>5. cap \in Nat
    BY <1>4, <2>4
  <2>6. Layout(chunks, name, path, p)
    BY <1>6, <2>2, <2>3, ChunksAre
  <2>7. chunks \in Seq(Seq(Int))
    BY <2>6 DEF Layout
  <2>8. data \in Seq(Int) /\ (oom => Len(data) <= cap)
    BY <1>3, <2>4, <2>5, <2>7, Positions
  <2> QED BY <1>1, <1>4, <1>6, <1>8, <2>2, <2>3, <2>4, <2>5, <2>8
<1> QED BY <1>7, <1>8

-----------------------------------------------------------------------------
(* The steps on the file.                                                  *)

LEMMA OpenFile ==
  ASSUME OwnInv, FileInv, NEW t \in Tools, OpenOutput(t)
  PROVE  FileInv'
<1>1. PICK l : l = local[t]
  OBVIOUS
<1>2. l.stage = "open" /\ scenario' = scenario
  BY <1>1 DEF OpenOutput, At
<1>3. DOMAIN l = Fields /\ Outcome(t, l) /\ l.touched = FALSE /\ (t \in Compilers => CompilerOK(t, l))
  BY <1>1, <1>2, FileNow
<1>4. t \in Compilers /\ t # "wvm-run"
  BY <1>2, <1>3 DEF Outcome, Compilers
<1>5. CASE disk' = <<>> /\ \E bytes \in Output(t) :
             Become(t, [l EXCEPT !.stage = "write", !.data = bytes, !.touched = TRUE])
  <2>1. PICK bytes \in Output(t) : Become(t, [l EXCEPT !.stage = "write", !.data = bytes, !.touched = TRUE])
    BY <1>5
  <2>2. PICK m : m = [l EXCEPT !.stage = "write", !.data = bytes, !.touched = TRUE]
    OBVIOUS
  <2>3. m.stage = "write" /\ m.data = bytes /\ m.touched = TRUE /\ m.proto = l.proto
    BY <1>3, <2>2 DEF Fields
  <2>4. Written(t, m)
    <3>1. CASE Job(t).symbolic
      BY <2>1, <2>3, <3>1 DEF Output, Written
    <3>2. CASE ~Job(t).symbolic
      <4>1. Constant(m.proto)
        BY <1>2, <1>3, <1>4, <2>3, <3>2 DEF CompilerOK
      <4>2. bytes \in Object!wvmWriteObjectMemory(FileFields(Job(t).name, Job(t).path, m.proto), scenario.oom)
        BY <1>1, <2>1, <2>3, <3>2 DEF Output, FileFields
      <4> QED BY <2>3, <3>2, <4>1, <4>2 DEF Written
    <3> QED BY <3>1, <3>2
  <2>5. FileOK(t, m)
    BY <1>4, <2>3, <2>4 DEF FileOK, CompilerOK
  <2>6. disk' \in Seq(Int)
    BY <1>5
  <2> QED BY <1>1, <1>2, <1>3, <1>4, <1>5, <2>1, <2>2, <2>3, <2>5, <2>6, FileStep
<1>6. CASE disk' = disk /\ Become(t, Exit(wirblePipelineArtifactsDestroy(l), 1))
  <2>1. PICK f, m : f = wirblePipelineArtifactsDestroy(l) /\ m = Exit(f, 1)
    OBVIOUS
  <2>2. Keep(f, l, {"heap", "held"})
    BY <1>3, <2>1, KeepFree DEF wirblePipelineArtifactsDestroy
  <2>3. Keep(m, f, {"heap", "held", "stage", "code"}) /\ m.stage = "done"
    BY <2>1, <2>2, KeepExit DEF Keep
  <2>4. m.touched = l.touched /\ m.data = l.data /\ m.size = l.size /\ m.proto = l.proto
    BY <2>2, <2>3 DEF Keep, Fields
  <2> QED BY <1>1, <1>2, <1>6, <2>1, <2>3, <2>4, QuietFile
<1> QED BY <1>1, <1>5, <1>6 DEF OpenOutput

\* What a write leaves: nothing, the file as it was, or one like the data.
LEMMA OverwrittenIs ==
  ASSUME NEW data \in Seq(Int), NEW old \in Seq(Int), NEW n \in 0..Len(data),
         n = Len(data) \/ n >= Len(old), NEW new, new = Overwritten(SubSeq(data, 1, n), old)
  PROVE  new \in Seq(Int) /\ (new = <<>> \/ new = old \/ Alike(new, data))
<1>1. PICK a, b, k, m : /\ a = SubSeq(data, 1, n) /\ k = Len(old) /\ m = Len(data)
                        /\ b = SubSeq(old, n + 1, k)
  OBVIOUS
<1>2. k \in Nat /\ m \in Nat /\ n \in Nat /\ n <= m /\ (n = m \/ n >= k)
  BY <1>1, LenProperties
<1>3. a \in Seq(Int) /\ Len(a) = n /\ \A j \in 1..n : a[j] = data[j]
  BY <1>1, <1>2
<1>4. b \in Seq(Int) /\ Len(b) = IF n >= k THEN 0 ELSE k - n
  BY <1>1, <1>2
<1>5. new = a \o b
  BY <1>1, <1>3 DEF Overwritten
<1>6. Joins(Int, new, a, b)
  BY <1>3, <1>4, <1>5, Joined, Zenon
<1>7. new \in Seq(Int) /\ Len(new) = Len(a) + Len(b) /\ \A j \in 1..Len(a) : new[j] = a[j]
  BY <1>6 DEF Joins
<1>8. Agree(new, data)
  <2> SUFFICES ASSUME NEW j \in 1..Len(new), j <= m PROVE new[j] = data[j]
    BY <1>1 DEF Agree
  <2>1. Len(new) = IF n >= k THEN n ELSE k
    BY <1>2, <1>3, <1>4, <1>7
  <2>2. j \in 1..n
    BY <1>2, <2>1
  <2> QED BY <1>3, <1>7, <2>2
<1>9. CASE data = <<>>
  <2>1. n = 0 /\ a = <<>>
    BY <1>1, <1>2, <1>9
  <2>2. b = old
    BY <1>1, <2>1
  <2> QED BY <1>5, <1>7, <2>1, <2>2
<1>10. CASE data # <<>>
  BY <1>7, <1>8, <1>10, AlikeIs
<1> QED BY <1>9, <1>10

LEMMA WriteFile ==
  ASSUME OwnInv, FileInv, NEW t \in Tools, WriteOutput(t)
  PROVE  FileInv'
<1>1. PICK l, data : l = local[t] /\ data = l.data
  OBVIOUS
<1>2. l.stage = "write" /\ scenario' = scenario
  BY <1>1 DEF WriteOutput, At
<1>3. DOMAIN l = Fields /\ Outcome(t, l) /\ (t \in Compilers => CompilerOK(t, l))
  BY <1>1, FileNow
<1>4. t \in Compilers /\ t # "wvm-run" /\ l.touched /\ Written(t, l)
  BY <1>2, <1>3 DEF Outcome, CompilerOK, Compilers
<1>5. t \in Writers
  BY <1>1, <1>4 DEF Writers
<1>6. data \in Seq(Int) /\ disk \in Seq(Int)
  BY <1>1, <1>4, <1>5, WrittenFacts DEF FileInv, DiskInv
<1>7. PICK n : /\ n \in (IF t \in scenario.diskFull THEN 0..Len(data) ELSE {Len(data)})
               /\ n >= Min({Len(disk), Len(data)}) /\ disk' = Overwritten(SubSeq(data, 1, n), disk)
  BY <1>1 DEF WriteOutput
<1>8. PICK k, m : k = Len(disk) /\ m = Len(data) /\ k \in Nat /\ m \in Nat
  BY <1>6, LenProperties
<1>9. n \in 0..m
  BY <1>7, <1>8
<1>10. n = m \/ n >= k
  <2>1. {k, m} \in SUBSET Nat /\ {k, m} # {}
    BY <1>8
  <2>2. Min({k, m}) \in {k, m}
    BY <2>1, MinNat
  <2>3. n >= Min({k, m})
    BY <1>7, <1>8
  <2>4. n >= k \/ n >= m
    BY <2>2, <2>3
  <2> QED BY <1>8, <1>9, <2>4
<1>11. disk' \in Seq(Int) /\ (disk' = <<>> \/ disk' = disk \/ Alike(disk', data))
  BY <1>6, <1>7, <1>8, <1>9, <1>10, OverwrittenIs
<1>12. PICK f, x : f = wirblePipelineArtifactsDestroy(l) /\ x = Exit(f, 0)
  OBVIOUS
<1>13. Keep(f, l, {"heap", "held"})
  BY <1>3, <1>12, KeepFree DEF wirblePipelineArtifactsDestroy
<1>14. Keep(x, f, {"heap", "held", "stage", "code"}) /\ x.stage = "done"
  BY <1>12, <1>13, KeepExit DEF Keep
<1>15. x.touched = l.touched /\ x.data = l.data /\ x.size = l.size /\ x.proto = l.proto
  BY <1>13, <1>14 DEF Keep, Fields
<1>16. Become(t, x)
  BY <1>1, <1>12 DEF WriteOutput
<1>17. CompilerOK(t, x)
  BY <1>4, <1>14, <1>15 DEF CompilerOK, Written
<1>18. FileOK(t, x)
  BY <1>4, <1>17 DEF FileOK
<1> QED BY <1>1, <1>2, <1>4, <1>11, <1>15, <1>16, <1>18, FileStep

LEMMA MeasuredFile ==
  ASSUME OwnInv, FileInv, NEW t \in Tools, MeasureFile(t)
  PROVE  FileInv'
<1>1. PICK l, n : l = local[t] /\ n = Len(disk)
  OBVIOUS
<1>2. l.stage = "size" /\ scenario' = scenario /\ disk' = disk
  BY <1>1 DEF MeasureFile, At
<1>3. DOMAIN l = Fields /\ Outcome(t, l) /\ (t = "wvm-run" => RunnerOK(l) /\ Traced(l.data))
  BY <1>1, FileNow
<1>4. t = "wvm-run" /\ t \notin Compilers
  BY <1>2, <1>3 DEF Outcome, Compilers
<1>5. CASE disk # NoFile /\ Become(t, [l EXCEPT !.stage = "fread", !.size = n])
  <2>1. PICK m : m = [l EXCEPT !.stage = "fread", !.size = n]
    OBVIOUS
  <2>2. m.stage = "fread" /\ m.size = n /\ m.data = l.data /\ m.proto = l.proto
    BY <1>3, <2>1 DEF Fields
  <2>3. Writers # {} /\ disk \in Seq(Int)
    BY <1>5 DEF FileInv, DiskInv
  <2>4. n \in Nat
    BY <1>1, <2>3, LenProperties
  <2>5. RunnerOK(m)
    BY <1>2, <1>3, <1>4, <2>2, <2>4 DEF RunnerOK
  <2>6. FileOK(t, m)
    BY <1>4, <2>5 DEF FileOK
  <2> QED BY <1>2, <1>3, <1>4, <1>5, <2>1, <2>2, <2>3, <2>6, FileStep
<1>6. CASE Become(t, Exit(l, 1))
  <2>1. PICK m : m = Exit(l, 1)
    OBVIOUS
  <2>2. Keep(m, l, {"heap", "held", "stage", "code"}) /\ m.stage = "done"
    BY <1>3, <2>1, KeepExit
  <2>3. m.touched = l.touched /\ m.data = l.data /\ m.size = l.size /\ m.proto = l.proto
    BY <2>2 DEF Keep, Fields
  <2> QED BY <1>1, <1>2, <1>6, <2>1, <2>2, <2>3, QuietFile
<1> QED BY <1>1, <1>5, <1>6 DEF MeasureFile

LEMMA LoadedFile ==
  ASSUME OwnInv, FileInv, NEW t \in Tools, LoadFile(t)
  PROVE  FileInv'
<1>1. PICK l, n, d, p : /\ l = local[t] /\ n = l.size /\ d = SubSeq(disk, 1, n)
                        /\ p = Object!wvmReadObjectMemory(d)
  OBVIOUS
<1>2. l.stage = "fread" /\ scenario' = scenario /\ disk' = disk
  BY <1>1 DEF LoadFile, At
<1>3. /\ DOMAIN l = Fields /\ Outcome(t, l)
      /\ t = "wvm-run" => RunnerOK(l) /\ (l.stage = "fread" => Writers # {})
  BY <1>1, FileNow
<1>4. t = "wvm-run" /\ t \notin Compilers
  BY <1>2, <1>3 DEF Outcome, Compilers
<1>5. n \in Nat /\ l.data = <<>> /\ l.proto = Object!NoObject /\ Writers # {}
  BY <1>1, <1>2, <1>3, <1>4 DEF RunnerOK
<1>6. disk \in Seq(Int) /\ Traced(disk)
  BY <1>5 DEF FileInv, DiskInv
<1>7. CASE Become(t, Exit(l, 1))
  <2>1. PICK m : m = Exit(l, 1)
    OBVIOUS
  <2>2. Keep(m, l, {"heap", "held", "stage", "code"}) /\ m.stage = "done"
    BY <1>3, <2>1, KeepExit
  <2>3. m.touched = l.touched /\ m.data = l.data /\ m.size = l.size /\ m.proto = l.proto
    BY <2>2 DEF Keep, Fields
  <2> QED BY <1>1, <1>2, <1>7, <2>1, <2>2, <2>3, QuietFile
<1>8. CASE ~(Len(disk) < n) /\ Become(t, Loaded(l, d, p))
  <2>1. PICK k : k = Len(disk) /\ k \in Nat /\ n <= k
    BY <1>5, <1>6, <1>8, LenProperties
  <2>2. d \in Seq(Int) /\ Len(d) = n /\ \A j \in 1..n : d[j] = disk[j]
    BY <1>1, <1>5, <1>6, <2>1
  <2>3. Traced(d)
    <3>1. CASE disk = <<>>
      <4>1. n = 0
        BY <1>5, <2>1, <3>1
      <4>2. d = <<>>
        BY <1>1, <4>1
      <4> QED BY <4>2 DEF Traced
    <3>2. CASE \E c \in Writers : Alike(disk, local[c].data)
      <4>1. PICK c \in Writers : Alike(disk, local[c].data)
        BY <3>2
      <4>2. PICK own : own = local[c].data
        OBVIOUS
      <4>3. c \in Tools /\ Written(c, local[c])
        BY FileNow DEF Writers, CompilerOK
      <4>4. own \in Seq(Int)
        BY <4>2, <4>3, WrittenFacts
      <4>5. own # <<>> /\ Agree(disk, own)
        BY <1>6, <4>1, <4>2, <4>4, AlikeIs
      <4>6. Agree(d, own)
        BY <1>5, <2>1, <2>2, <4>5 DEF Agree
      <4>7. Alike(d, own)
        BY <2>2, <4>4, <4>5, <4>6, AlikeIs
      <4> QED BY <4>2, <4>7 DEF Traced
    <3> QED BY <1>6, <3>1, <3>2 DEF Traced
  <2>4. CASE p = Object!NoObject
    <3>1. PICK x : x = [l EXCEPT !.data = d]
      OBVIOUS
    <3>2. DOMAIN x = Fields /\ x.data = d /\ x.size = n /\ x.proto = Object!NoObject
      BY <1>1, <1>3, <1>5, <3>1 DEF Fields
    <3>3. PICK m : m = Exit(x, 1)
      OBVIOUS
    <3>4. Keep(m, x, {"heap", "held", "stage", "code"}) /\ m.stage = "done"
      BY <3>2, <3>3, KeepExit
    <3>5. m.data = d /\ m.size = n /\ m.proto = p
      BY <2>4, <3>2, <3>4 DEF Keep, Fields
    <3>6. RunnerOK(m)
      BY <1>1, <1>5, <2>2, <3>4, <3>5 DEF RunnerOK
    <3>7. FileOK(t, m) /\ Become(t, m)
      BY <1>4, <1>8, <2>4, <3>1, <3>3, <3>6 DEF FileOK, Loaded
    <3> QED BY <1>2, <1>4, <2>3, <3>4, <3>5, <3>7, FileStep
  <2>5. CASE p # Object!NoObject
    <3>1. PICK y : y = Allocate(l, {"wvmPrototype"})
      OBVIOUS
    <3>2. Keep(y, l, {"heap", "held"})
      BY <1>3, <3>1, KeepAllocate
    <3>3. PICK h : h = (y.held \ {"wvmPrototype"}) \cup {"proto"}
      OBVIOUS
    <3>4. PICK m : m = [y EXCEPT !.held = h, !.stage = "execute", !.data = d, !.proto = p]
      OBVIOUS
    <3>5. m.stage = "execute" /\ m.data = d /\ m.proto = p /\ m.size = n
      BY <1>1, <3>2, <3>4 DEF Keep, Fields
    <3>6. RunnerOK(m)
      BY <1>1, <1>5, <2>2, <3>5 DEF RunnerOK
    <3>7. FileOK(t, m) /\ Become(t, m)
      BY <1>4, <1>8, <2>5, <3>1, <3>3, <3>4, <3>6 DEF FileOK, Loaded
    <3> QED BY <1>2, <1>4, <2>3, <3>5, <3>7, FileStep
  <2> QED BY <2>4, <2>5
<1> QED BY <1>1, <1>7, <1>8 DEF LoadFile

-----------------------------------------------------------------------------
(* What wvm-run reads.                                                     *)

\* Assembly, whole, cut or with something behind it, is no object file.
LEMMA AssemblyRefused ==
  ASSUME NEW d \in Seq(Int), Agree(d, Assembly)
  PROVE  Object!wvmReadObjectMemory(d) = Object!NoObject
<1>1. PICK n, k, b : n = Len(d) /\ k = HeaderSize + 4 /\ b = Base - 1
  OBVIOUS
<1>2. n \in Nat /\ HeaderSize \in Nat /\ HeaderSize >= 4 /\ k = HeaderSize + 4
  BY <1>1, BaseFacts, LenProperties
<1>3. Assembly = [i \in 1..k |-> b] /\ Len(Assembly) = k
  BY <1>1, <1>2 DEF Assembly
<1>4. CASE n < HeaderSize
  BY <1>1, <1>4 DEF Object!wvmReadObjectMemory
<1>5. CASE HeaderSize <= n
  <2>1. 1 \in 1..n /\ 2 \in 1..n /\ 1 <= k /\ 2 <= k /\ 1 \in 1..k /\ 2 \in 1..k
    BY <1>2, <1>5
  <2>2. d[1] = b /\ d[2] = b
    BY <1>1, <1>3, <2>1 DEF Agree
  <2>3. SubSeq(d, 1, 4)[1] = d[1] /\ SubSeq(d, 1, 4)[2] = d[2]
    BY <1>1, <1>2, <1>5
  <2>4. Object!Magic[1] = 1 /\ Object!Magic[2] = 2
    BY DEF Object!Magic
  <2>5. SubSeq(d, 1, 4) # Object!Magic
    BY <2>2, <2>3, <2>4
  <2> QED BY <2>5 DEF Object!wvmReadObjectMemory
<1> QED BY <1>2, <1>4, <1>5

LEMMA InitFile == Init => FileInv
<1> SUFFICES ASSUME Init PROVE FileInv
  OBVIOUS
<1>1. disk = NoFile
  BY DEF Init
<1>2. ASSUME NEW t \in Tools
      PROVE  /\ local[t].stage = "args" /\ local[t].proto = Object!NoObject /\ local[t].size = 0
             /\ local[t].data = <<>> /\ local[t].touched = FALSE
  BY DEF Init
<1>3. Writers = {}
  BY <1>2 DEF Writers
<1>4. ASSUME NEW t \in Tools PROVE FileOK(t, local[t])
  <2>1. CompilerOK(t, local[t])
    BY <1>2 DEF CompilerOK
  <2>2. RunnerOK(local[t])
    <3>1. 0 \in Nat /\ <<>> \in Seq(Int)
      OBVIOUS
    <3> QED BY <1>2, <3>1 DEF RunnerOK
  <2> QED BY <2>1, <2>2 DEF FileOK
<1>5. DiskInv
  BY <1>1, <1>3 DEF DiskInv
<1>6. RunnerInv
  BY <1>2 DEF RunnerInv, At, Traced
<1> QED BY <1>4, <1>5, <1>6 DEF FileInv

LEMMA NextFile == OwnInv /\ FileInv /\ [Next]_vars => FileInv'
<1>1. ASSUME OwnInv, FileInv, UNCHANGED vars PROVE FileInv'
  BY <1>1, StillFile DEF vars
<1>2. ASSUME OwnInv, FileInv, NEW t \in Tools, Proceed(t) PROVE FileInv'
  <2>1. ASSUME RunInstruction(t) PROVE FileInv'
    BY <1>2, <2>1, StillFile DEF RunInstruction
  <2> QED BY <1>2, <2>1, ArgumentsFile, ReadFileStep, CompileFile, KilledFile, CreateFile, OpenFile, WriteFile,
             MeasuredFile, LoadedFile, ExecuteFile, FinishFile, LineFile DEF Proceed
<1>3. ASSUME OwnInv, FileInv, NEW t \in Tools, Kill(t) PROVE FileInv'
  BY <1>3, KilledFile
<1> QED BY <1>1, <1>2, <1>3 DEF Next, Ended

\* Whatever two compilers do to the file while wvm-run measures and reads it,
\* what it reads starts like the output of one of them; if all of that is there
\* it is the program that was compiled, and if the end of its code is missing it
\* is refused or run as a first part of the program and NOPs.
THEOREM OneProgramIsRead == Spec => []ReadsOneProgram
<1>1. ASSUME OwnInv, FileInv PROVE ReadsOneProgram
  <2>1. ASSUME NEW t \in Tools, HasRead(t)
        PROVE  /\ t = "wvm-run" /\ local[t].data \in Seq(Int) /\ local[t].data # <<>>
               /\ local[t].proto = Object!wvmReadObjectMemory(local[t].data)
               /\ \E c \in Writers : Alike(local[t].data, local[c].data)
    <3>1. t = "wvm-run" /\ local[t].data # <<>>
      BY <2>1 DEF HasRead
    <3>2. RunnerOK(local[t]) /\ Traced(local[t].data)
      BY <1>1, <3>1, FileNow
    <3> QED BY <3>1, <3>2 DEF RunnerOK, Traced
  <2>2. NeverMixed
    BY <2>1 DEF NeverMixed
  <2>3. ASSUME NEW c \in Writers PROVE c \in Tools /\ Written(c, local[c])
    BY <1>1, FileNow DEF Writers, CompilerOK
  <2>4. RoundTrip
    <3> SUFFICES ASSUME NEW t \in Tools, NEW c \in Writers, HasRead(t), ~scenario.oom, ~Job(c).symbolic,
                        IsPrefix(local[c].data, local[t].data)
                 PROVE  local[t].proto = local[c].proto
      BY DEF RoundTrip
    <3>1. PICK d, data, q, name, path, oom :
            /\ d = local[t].data /\ data = local[c].data /\ q = local[c].proto
            /\ name = Job(c).name /\ path = Job(c).path /\ oom = scenario.oom
      OBVIOUS
    <3>2. d \in Seq(Int) /\ local[t].proto = Object!wvmReadObjectMemory(d)
      BY <2>1, <3>1
    <3>3. /\ data \in Seq(Int) /\ name \in Seq(Int) /\ Len(name) < Object!FourBytes
          /\ path \in Seq(Int) /\ Len(path) < Object!FourBytes
          /\ Codable(q) /\ VerifiedObject(q)
          /\ \E cap \in Nat : data = Object!WriteAll(ChunksOf(name, path, q), oom, cap)
      BY <1>1, <2>3, <3>1, WrittenFacts
    <3>4. oom \in BOOLEAN /\ ~oom
      BY <1>1, <3>1, ScenariosAssumption DEF OwnInv
    <3>5. PICK cap \in Nat : data = Object!WriteAll(ChunksOf(name, path, q), oom, cap)
      BY <3>3
    <3>6. Len(data) <= Len(d) /\ Agree(data, d)
      BY <3>1, <3>2, <3>3, PrefixIs
    <3>7. \A j \in 1..Len(d) : j <= Len(data) => d[j] = data[j]
      <4>1. Len(d) \in Nat /\ Len(data) \in Nat
        BY <3>2, <3>3, LenProperties
      <4> QED BY <3>6, <4>1 DEF Agree
    <3>8. /\ d \in Seq(Int) /\ name \in Seq(Int) /\ Len(name) < Object!FourBytes /\ path \in Seq(Int)
          /\ Len(path) < Object!FourBytes /\ Codable(q) /\ VerifiedObject(q) /\ Len(data) <= Len(d)
      BY <3>2, <3>3, <3>6
    <3>9. Object!wvmReadObjectMemory(d) = q
      BY <3>4, <3>5, <3>7, <3>8, WholeRead
    <3> QED BY <3>1, <3>2, <3>9
  <2>5. CutKeepsPrefix
    <3> SUFFICES ASSUME NEW t \in Tools, NEW c \in Writers, HasRead(t), local[t].proto # Object!NoObject,
                        Alike(local[t].data, local[c].data),
                        IsPrefix(local[t].data, local[c].data)
                          => Len(local[t].data) >= CodeStart(c) \/ local[t].data = local[c].data,
                        ~IsPrefix(local[t].data, local[c].data) => Len(local[t].data) <= InitBuf
                 PROVE  ~Job(c).symbolic /\ ZeroTail(local[t].proto, local[c].proto)
      BY DEF CutKeepsPrefix
    <3>1. PICK d, data, q, name, path, oom :
            /\ d = local[t].data /\ data = local[c].data /\ q = local[c].proto
            /\ name = Job(c).name /\ path = Job(c).path /\ oom = scenario.oom
      OBVIOUS
    <3>2. d \in Seq(Int) /\ local[t].proto = Object!wvmReadObjectMemory(d)
      BY <2>1, <3>1
    <3>3. /\ data \in Seq(Int) /\ name \in Seq(Int) /\ Len(name) < Object!FourBytes
          /\ path \in Seq(Int) /\ Len(path) < Object!FourBytes
          /\ Job(c).symbolic => data = Assembly
          /\ ~Job(c).symbolic =>
               /\ Codable(q)
               /\ \E cap \in Nat : /\ data = Object!WriteAll(ChunksOf(name, path, q), oom, cap)
                                   /\ cap \in {0, InitBuf} /\ (oom => Len(data) <= cap)
      BY <1>1, <2>3, <3>1, WrittenFacts
    <3>4. data # <<>> /\ Agree(d, data)
      BY <3>1, <3>2, <3>3, AlikeIs
    <3>5. ~Job(c).symbolic
      BY <3>2, <3>3, <3>4, AssemblyRefused
    <3>6. PICK cap \in Nat : /\ data = Object!WriteAll(ChunksOf(name, path, q), oom, cap)
                             /\ cap \in {0, InitBuf} /\ (oom => Len(data) <= cap)
      BY <3>3, <3>5
    <3>7. PICK n, m, front : n = Len(d) /\ m = Len(data) /\ front = FrontLength(name, path)
      OBVIOUS
    <3>8. n \in Nat /\ m \in Nat /\ m > 0
      <4>1. n \in Nat /\ m \in Nat
        BY <3>2, <3>3, <3>7, LenProperties
      <4>2. m # 0
        BY <3>3, <3>4, <3>7
      <4> QED BY <4>1, <4>2
    <3>9. front \in Int /\ front = CodeStart(c)
      <4>1. Len(name) \in Nat /\ Len(path) \in Nat /\ HeaderSize \in Nat
        BY <3>3, LenProperties, BaseFacts
      <4> QED BY <3>1, <3>7, <4>1 DEF FrontLength, CodeStart
    <3>10. oom \in BOOLEAN
      BY <1>1, <3>1, ScenariosAssumption DEF OwnInv
    <3>11. (oom => n <= cap) /\ (m <= n \/ front <= n)
      <4>1. CASE IsPrefix(d, data)
        <5>1. n <= m
          BY <3>2, <3>3, <3>7, <4>1, PrefixIs
        <5>2. n >= front \/ d = data
          BY <3>1, <3>7, <3>9, <4>1
        <5>3. m <= n \/ front <= n
          BY <3>7, <3>8, <3>9, <5>2
        <5> QED BY <3>6, <3>7, <3>8, <5>1, <5>3
      <4>2. CASE ~IsPrefix(d, data)
        <5>1. ~(n <= m)
          BY <3>2, <3>3, <3>4, <3>7, <4>2, PrefixIs
        <5>2. n <= InitBuf
          BY <3>1, <3>7, <4>2
        <5>3. oom => cap = InitBuf
          <6>1. (cap = 0 \/ cap = InitBuf) /\ (oom => m <= cap)
            BY <3>6, <3>7
          <6>2. oom => cap # 0
            BY <3>8, <6>1
          <6> QED BY <6>1, <6>2
        <5> QED BY <3>8, <5>1, <5>2, <5>3
      <4> QED BY <4>1, <4>2
    <3>12. \A j \in 1..Len(d) : j <= Len(data) => d[j] = data[j]
      BY <3>4 DEF Agree
    <3>13. /\ d \in Seq(Int) /\ name \in Seq(Int) /\ Len(name) < Object!FourBytes /\ path \in Seq(Int)
           /\ Len(path) < Object!FourBytes /\ Codable(q) /\ (oom => Len(d) <= cap)
           /\ Len(data) <= Len(d) \/ FrontLength(name, path) <= Len(d)
      BY <3>2, <3>3, <3>5, <3>7, <3>11
    <3>14. data = Object!WriteAll(ChunksOf(name, path, q), oom, cap)
      BY <3>6
    <3>15. Object!wvmReadObjectMemory(d) = Object!NoObject \/ ZeroTail(Object!wvmReadObjectMemory(d), q)
      BY <3>10, <3>12, <3>13, <3>14, CutRead
    <3> QED BY <3>1, <3>2, <3>5, <3>15
  <2> QED BY <2>2, <2>4, <2>5 DEF ReadsOneProgram
<1> QED BY <1>1, InitFile, NextFile, InvOwn, PTL DEF Spec
=============================================================================
