----------------------------- MODULE Toolchain -----------------------------
(***************************************************************************)
(* The command line tools on one disk: the compilers wirblecc and          *)
(* wvm-emit, which write an object file (both to a.out.wvmo by default),   *)
(* wvm-run, which reads and executes it, and the interpreter iwirble.      *)
(*                                                                         *)
(* A tool's memory is its own and is seen by nobody else, so a call that   *)
(* only works there (wirbleBuildPipelineArtifacts, wvmReadObjectMemory) is *)
(* one step; the calls that touch the disk (fopen, the write of fclose,    *)
(* ftell, fread) are steps of their own, between which the other tools     *)
(* move.  An object file is shorter than a stdio buffer, so that fclose    *)
(* writes it in one piece.  What the compiler makes of an expression is    *)
(* module Pipeline's result for a graph that is one constant.              *)
(***************************************************************************)
EXTENDS Integers, Sequences, FiniteSetsExt, Functions

CONSTANTS Scenarios,  \* what is run and what may fail, see below
          Base, HeaderSize, InitBuf, MaxCells, OpOrder,  \* see ObjectFile
          LineCap,    \* size of the interpreter's line buffer (512)
          Word, UnaryInt(_, _), BinaryInt(_, _, _), Traps(_, _, _),  \* int32_t, see WVM
          Narrow(_),  \* the low 32 bits of a constant
          \* What Expressions defines: wirble_expr_fold_constants, FoldTraps,
          \* Literals, Exact, StaysInLong.
          Folded(_), FoldingTraps(_), LiteralsOf(_), ExactValues(_), InLong(_)

\* What a job compiles: its file, and the lines that are no commands.
Commands == {":quit", ":help", ":opt"}
ExprLines(job) == {i \in 1..Len(job.lines) : job.lines[i].command \notin Commands}
SourcesOf(job) == {job.source} \cup {job.lines[i].source : i \in ExprLines(job)}

\* The four tools; the interpreter has no option --symbolic, and a line that is
\* no command has a text.  Only wvm-emit reads its WRS rules from a file, which
\* may not be there (noRules): the others leave wrsRulesPath NULL.  Names and
\* paths are bytes.
ASSUME ScenariosAssumption ==
  \A s \in Scenarios :
    /\ s.oom \in BOOLEAN
    /\ DOMAIN s.jobs \subseteq {"wirblecc", "wvm-emit", "wvm-run", "iwirble"}
    /\ "iwirble" \in DOMAIN s.jobs => ~s.jobs["iwirble"].symbolic
    /\ \A t \in DOMAIN s.jobs :
         /\ s.jobs[t].noRules => t = "wvm-emit"
         /\ Len(s.jobs[t].lines) \in Nat
         /\ \A text \in {s.jobs[t].name, s.jobs[t].path} : text \in Seq(0..(Base - 1))
         /\ \A i \in ExprLines(s.jobs[t]) : s.jobs[t].lines[i].source.kind # "MISSING"

\* An expression that has a value no part of which overflows.
HasValue(e) == e.kind # "MALFORMED" /\ ExactValues(e) # {} /\ InLong(e)

\* Folding gives the value of an expression that has one (the subject of
\* Expressions); an int32_t is its own low 32 bits.
ASSUME FoldingAssumption ==
  /\ \A s \in Scenarios : \A t \in DOMAIN s.jobs : \A e \in SourcesOf(s.jobs[t]) :
       e.kind # "MISSING" /\ HasValue(e)
         => Folded(e).kind = "INT" /\ Folded(e).value \in ExactValues(e)
  /\ \A c \in Word : Narrow(c) = c

VARIABLES scenario,   \* jobs, and the faults: oom, denied, kill, and
                      \* diskFull, the tools that meet a full disk
          disk,       \* the output file: its bytes, or NoFile
          local       \* tool -> its own state

VARIABLES stack, stackCap, stackSize, hasError, frameDepth, status, proto, pc, result

machine == <<stack, stackCap, stackSize, hasError, frameDepth, status, proto, pc, result>>
vars == <<scenario, disk, local, machine>>

VM == INSTANCE WVM WITH Prototypes <- {}, HostValues <- {}, HostRegs <- {}, MaxStack <- 0,
        InitCap <- 4, PcSpan <- 64

VerifiedObject(p) == VM!wvmVerifyPrototype(p)
Object == INSTANCE ObjectFile WITH Verified <- VerifiedObject

\* An int32_t is four bytes; the header has room for the magic number, calloc
\* for the arrays of a constant, and a length for every string.  Cleared memory
\* is NOP.
ASSUME SizesAssumption ==
  /\ Base \in Nat /\ Base > 1 /\ HeaderSize \in Nat /\ HeaderSize >= 4
  /\ InitBuf \in Nat /\ MaxCells \in Nat /\ MaxCells >= 3
  /\ Word = (-(Object!FourBytes \div 2))..(Object!FourBytes \div 2 - 1)
  /\ Len(OpOrder) \in Nat /\ OpOrder[1] = "NOP"
  /\ \A op \in {"LOAD_IMM", "LOAD_CONST", "MOVE", "RETURN"} :
       \E n \in 0..(Len(OpOrder) - 1) : OpOrder[n + 1] = op
  /\ \A s \in Scenarios : \A t \in DOMAIN s.jobs :
       \A text \in {s.jobs[t].name, s.jobs[t].path} : Len(text) < Object!FourBytes

NoFile == <<-1>>
Compilers == {"wirblecc", "wvm-emit"}
Tools == DOMAIN scenario.jobs
Job(t) == scenario.jobs[t]

-----------------------------------------------------------------------------
(* A tool's heap.  An object is live from its allocation until it is       *)
(* freed; "bad" is what a leak, a second free or a free in the wrong order *)
(* makes of it.  held: the pointers to objects that are not NULL.          *)

\* The artifacts of wirbleBuildPipelineArtifacts in the order it makes them.
Plan == <<"expr", "wilContext", "wrs", "malModule", "mrs", "mdsMachine", "mdsSelector",
          "mdsProgram", "tosProgram", "tosContext", "wvmPrototype">>
Objects == {Plan[i] : i \in DOMAIN Plan} \cup {"source", "errorMessage", "vm"}

\* "proto" is the caller's pointer to the prototype.
Pointee(pointer) == IF pointer = "proto" THEN "wvmPrototype" ELSE pointer

\* The rewrite system is destroyed in its context; selector, programs and TOS
\* context keep a pointer to the machine description.
PointsInto(a, b) ==
  \/ a = "wrs" /\ b = "wilContext"
  \/ a \in {"mdsSelector", "mdsProgram", "tosProgram", "tosContext"} /\ b = "mdsMachine"

Allocate(l, objects) ==
  [l EXCEPT !.heap = [a \in Objects |->
                        IF a \notin objects THEN @[a]
                        ELSE IF @[a] = "live" THEN "bad" ELSE "live"],
            !.held = @ \cup objects]

\* The objects freed before the i-th pointer of a sequence is.
FreedBefore(l, pointers, i) ==
  {Pointee(pointers[j]) : j \in {j \in 1..(i - 1) : pointers[j] \in l.held}}

\* The i-th pointer may be freed: its object is live, and so is what the
\* object points to; nothing live points to it.
MayFree(l, pointers, i) ==
  LET x == Pointee(pointers[i])
      live == {a \in Objects : l.heap[a] = "live"} \ FreedBefore(l, pointers, i)
  IN /\ x \in live
     /\ \A a \in live : ~PointsInto(a, x)
     /\ \A b \in Objects : PointsInto(x, b) => b \in live

\* Freeing the pointers of a sequence in its order; NULL is skipped, and each
\* becomes NULL.
Free(l, pointers) ==
  [l EXCEPT
     !.heap = [x \in Objects |->
       LET is == {i \in DOMAIN pointers : pointers[i] \in l.held /\ Pointee(pointers[i]) = x}
       IN IF is = {} THEN l.heap[x]
          ELSE IF \A i \in is : MayFree(l, pointers, i) THEN "none" ELSE "bad"],
     !.held = @ \ {pointers[i] : i \in DOMAIN pointers}]

\* wirble_set_error and wirble_set_errorf: the old message is freed; copying
\* the new one may fail.
wirble_set_error(l) ==
  {Allocate(Free(l, <<"errorMessage">>), {"errorMessage"})}
  \cup (IF scenario.oom THEN {Free(l, <<"errorMessage">>)} ELSE {})

-----------------------------------------------------------------------------
(* The build.                                                              *)

Op(op, a, b, k) == [op |-> op, a |-> a, b |-> b, c |-> 0, k |-> k]

\* Deliberately wrong variant: the constant pool keeps the upper bits.
PrototypeUnnarrowed(c) ==
  [regCount |-> 2,
   consts |-> IF c \in Word THEN <<>> ELSE <<VM!FromInt(c)>>,
   instrs |-> <<IF c \in Word THEN Op("LOAD_IMM", 1, 0, c) ELSE Op("LOAD_CONST", 1, 0, 0),
                Op("MOVE", 0, 1, 0), Op("RETURN", 0, 0, 0)>>]

\* The prototype of an expression that is the integer c: an immediate that is
\* no int32_t goes through the constant pool, and loses its upper bits there.
ConstantPrototype(c) ==
  [regCount |-> 2,
   consts |-> IF c \in Word THEN <<>> ELSE <<VM!FromInt(Narrow(c))>>,
   instrs |-> <<IF c \in Word THEN Op("LOAD_IMM", 1, 0, c) ELSE Op("LOAD_CONST", 1, 0, 0),
                Op("MOVE", 0, 1, 0), Op("RETURN", 0, 0, 0)>>]

\* The integers the back end may be given for the folded expression e.  A
\* division by zero stays in the graph; no target selects a division, and the
\* rewrite rules of level 1 and above may turn the graph into any constant
\* they know (module WRS).
Compiled(e, level) ==
  IF e.kind = "INT" THEN {e.value}
  ELSE IF level = 0 THEN {} ELSE LiteralsOf(e) \cup {0, 1}

\* The low 32 bits of a constant are an int32_t.
ASSUME NarrowAssumption ==
  \A s \in Scenarios : \A t \in DOMAIN s.jobs : \A e \in SourcesOf(s.jobs[t]) :
    e.kind \notin {"MISSING", "MALFORMED"} =>
      \A level \in {0, 1} : \A c \in Compiled(Folded(e), level) : Narrow(c) \in Word

wirblePipelineArtifactsDestroy(l) ==
  Free(l, <<"wvmPrototype", "tosContext", "tosProgram", "mdsProgram", "mdsSelector",
            "mdsMachine", "malModule", "wilContext", "expr">>)

\* Artifacts 1 to n of the plan; levels and failures leave some out.
Made(l, level, n, skipped) ==
  Allocate(l, {Plan[i] : i \in 1..n}
              \ (skipped \cup IF level = 0 THEN {"wrs", "mrs", "tosContext"} ELSE {}))

\* The rules are only needed while compiling: NULL, for want of memory, means
\* that nothing is rewritten.
Optional == IF scenario.oom THEN SUBSET {"wrs", "mrs"} ELSE {{}}

\* wrsFileLoad fails; the file is loaded into a rewrite system that is there.
RulesFail(options, level, skipped) ==
  options.noRules /\ level # 0 /\ "wrs" \notin skipped

\* Where a build may stop: after n artifacts.  Without memory anywhere; else
\* for an unknown target or a source that does not parse (before the first),
\* for want of the rules (after wrs), or when no pattern selects a division
\* (before mdsProgram).
Stops(source, options, level) ==
  (IF scenario.oom THEN 0..(Len(Plan) - 1) ELSE {})
  \cup (IF options.target = "unknown" \/ source.kind = "MALFORMED" THEN {0}
        ELSE IF RulesFail(options, level, {}) THEN {3}
        ELSE IF Folded(source).kind # "INT" THEN {7} ELSE {})

\* The cleanup label; the early returns before the first artifact do the same.
Cleanup(l) == wirblePipelineArtifactsDestroy(Free(l, <<"wrs", "mrs">>))

\* wirbleBuildPipelineArtifacts: [built, l, value] for every outcome.
wirbleBuildPipelineArtifacts(l, source, options, level) ==
  {[built |-> FALSE, l |-> m, value |-> 0] :
     m \in UNION {wirble_set_error(Cleanup(Made(l, level, n, skipped))) :
                    n \in Stops(source, options, level), skipped \in Optional}}
  \cup
  {[built |-> TRUE, value |-> c,
    l |-> Free(Made(l, level, Len(Plan), skipped), <<"wrs", "mrs">>)] :
     c \in IF options.target = "unknown" \/ source.kind = "MALFORMED" THEN {}
           ELSE Compiled(Folded(source), level),
     skipped \in {o \in Optional : ~RulesFail(options, level, o)}}

\* Deliberately wrong variant: the field is not cleared when the prototype is
\* handed to the caller.
HandOverShared(l) ==
  wirblePipelineArtifactsDestroy([l EXCEPT !.held = @ \cup {"proto"}])

\* The end of wirbleCompileSourceToPrototype: the prototype changes hands and
\* the other artifacts go.
HandOver(l) ==
  wirblePipelineArtifactsDestroy([l EXCEPT !.held = (@ \ {"wvmPrototype"}) \cup {"proto"}])


-----------------------------------------------------------------------------
(* The main functions.                                                     *)

\* The label cleanup of the compilers and of wvm-run: everything goes.
Exit(l, code) ==
  [Free(l, <<"source", "errorMessage", "vm", "proto">>) EXCEPT !.stage = "done", !.code = code]

\* The interpreter reads lines, unless it was given a file.
Interactive(t) == t = "iwirble" /\ Job(t).lines # <<>>
Line(t) == Job(t).lines[local[t].line]
Source(t) == IF Interactive(t) THEN Line(t).source ELSE Job(t).source

Become(t, l) == local' = [local EXCEPT ![t] = l]

\* iwirble_eval_and_print is over, with a value or with an error message,
\* which it frees: the next line, or the end of main.
Evaluated(t, l, v) ==
  LET shown == [Free(l, <<"vm", "proto", "errorMessage">>) EXCEPT
                  !.printed = Append(@, [source |-> Source(t), value |-> v])]
  IN IF Interactive(t) THEN [shown EXCEPT !.stage = "repl", !.line = @ + 1]
     ELSE Exit(shown, IF v = VM!Nil THEN 1 ELSE 0)

\* A failure before there is a value; Nil stands for the message.
GiveUp(t, l) == IF t = "iwirble" THEN Evaluated(t, l, VM!Nil) ELSE Exit(l, 1)

Init ==
  /\ scenario \in Scenarios
  /\ disk = NoFile
  /\ local = [t \in Tools |->
       [stage |-> "args", heap |-> [a \in Objects |-> "none"], held |-> {},
        code |-> -1, proto |-> Object!NoObject, size |-> 0, data |-> <<>>,
        touched |-> FALSE, line |-> 1, level |-> Job(t).level, printed |-> <<>>]]
  /\ VM!Init

\* words[1] + ... + words[n].
SumOf(words, n) == FoldFunctionOnSet(+, 0, words, 1..n)

At(t, stage) == local[t].stage = stage

\* The loop over argv: an unknown option or a missing operand is refused.
ParseArguments(t) ==
  /\ At(t, "args")
  /\ Become(t, IF ~Job(t).wellFormed THEN Exit(local[t], 1)
               ELSE [local[t] EXCEPT !.stage = IF t = "wvm-run" THEN "create"
                                               ELSE IF Interactive(t) THEN "repl" ELSE "read"])
  /\ UNCHANGED <<scenario, disk, machine>>

wirbleReadFile(t) ==
  /\ At(t, "read")
  /\ \/ /\ Job(t).source.kind # "MISSING"
        /\ Become(t, [Allocate(local[t], {"source"}) EXCEPT !.stage = "compile"])
     \/ /\ Job(t).source.kind = "MISSING" \/ scenario.oom
        /\ \E m \in wirble_set_error(local[t]) : Become(t, Exit(m, 1))
  /\ UNCHANGED <<scenario, disk, machine>>

\* Deliberately wrong variant: the output is opened before compiling.
CompileOpensFirst(t) ==
  /\ At(t, "compile")
  /\ \E b \in wirbleBuildPipelineArtifacts([local[t] EXCEPT !.touched = TRUE],
                                          Source(t), Job(t), local[t].level) :
       Become(t, IF ~b.built THEN GiveUp(t, b.l)
                 ELSE IF Job(t).symbolic THEN [b.l EXCEPT !.stage = "open"]
                 ELSE [HandOver(b.l) EXCEPT !.stage = "create",
                                            !.proto = ConstantPrototype(b.value)])
  /\ disk' = <<>>
  /\ UNCHANGED <<scenario, machine>>

\* wirbleCompileSourceToPrototype; with --symbolic the artifacts stay.
Compile(t) ==
  /\ At(t, "compile")
  /\ \E b \in wirbleBuildPipelineArtifacts(local[t], Source(t), Job(t), local[t].level) :
       Become(t, IF ~b.built THEN GiveUp(t, b.l)
                 ELSE IF Job(t).symbolic THEN [b.l EXCEPT !.stage = "open"]
                 ELSE [HandOver(b.l) EXCEPT !.stage = "create",
                                            !.proto = ConstantPrototype(b.value)])
  /\ UNCHANGED <<scenario, disk, machine>>

\* Folding may end the process, and so may a shortage of memory: when there is
\* none for the registers or instructions of a machine, mdsDestroyMachine goes
\* through the array that is NULL.
CompileTraps(t) ==
  /\ At(t, "compile") /\ Source(t).kind # "MALFORMED"
  /\ FoldingTraps(Source(t)) \/ (scenario.oom /\ Job(t).target # "unknown")
  /\ Become(t, [local[t] EXCEPT !.stage = "killed"])
  /\ UNCHANGED <<scenario, disk, machine>>

wvmCreate(t) ==
  /\ At(t, "create")
  /\ \/ Become(t, [Allocate(local[t], {"vm"}) EXCEPT
                     !.stage = IF t \in Compilers THEN "open"
                               ELSE IF t = "wvm-run" THEN "size" ELSE "execute"])
     \/ scenario.oom /\ Become(t, GiveUp(t, local[t]))
  /\ UNCHANGED <<scenario, disk, machine>>

-----------------------------------------------------------------------------
(* The output file.                                                        *)

\* Text that is no object file.
Assembly == [i \in 1..(HeaderSize + 4) |-> Base - 1]

\* wirbleEmitSymbolicAssembly, or wvmWriteObject: what will be written.
Output(t) ==
  IF Job(t).symbolic THEN {Assembly}
  ELSE Object!wvmWriteObjectMemory(
         [name |-> Job(t).name, source |-> Job(t).path, regCount |-> local[t].proto.regCount,
          instrs |-> local[t].proto.instrs, consts |-> local[t].proto.consts], scenario.oom)

\* fopen empties the file, or fails and leaves it alone.
OpenOutput(t) ==
  /\ At(t, "open")
  /\ \/ /\ ~scenario.denied
        /\ \E bytes \in Output(t) :
             Become(t, [local[t] EXCEPT !.stage = "write", !.data = bytes, !.touched = TRUE])
        /\ disk' = <<>>
     \/ /\ scenario.denied
        /\ Become(t, Exit(wirblePipelineArtifactsDestroy(local[t]), 1))
        /\ UNCHANGED disk
  /\ UNCHANGED <<scenario, machine>>

\* Both compilers write from position 0 of the same file.
Overwritten(new, old) == new \o SubSeq(old, Len(new) + 1, Len(old))

\* fclose writes the buffer; nobody looks at what it returns.  A full disk
\* keeps a part: what replaces bytes the file already has, and maybe more.
WriteOutput(t) ==
  /\ At(t, "write")
  /\ \E n \in IF t \in scenario.diskFull THEN 0..Len(local[t].data) ELSE {Len(local[t].data)} :
       /\ n >= Min({Len(disk), Len(local[t].data)})
       /\ disk' = Overwritten(SubSeq(local[t].data, 1, n), disk)
  /\ Become(t, Exit(wirblePipelineArtifactsDestroy(local[t]), 0))
  /\ UNCHANGED <<scenario, machine>>

\* A compiler may be killed at any moment.
Kill(t) ==
  /\ scenario.kill /\ t \in Compilers
  /\ local[t].stage \notin {"done", "killed"}
  /\ Become(t, [local[t] EXCEPT !.stage = "killed"])
  /\ UNCHANGED <<scenario, disk, machine>>

-----------------------------------------------------------------------------
(* wvm-run, and the execution of a prototype.                              *)

\* wvmReadObject, up to its malloc: how long the file is.
MeasureFile(t) ==
  /\ At(t, "size")
  /\ \/ /\ disk # NoFile
        /\ Become(t, [local[t] EXCEPT !.stage = "fread", !.size = Len(disk)])
     \/ /\ disk = NoFile \/ scenario.oom
        /\ Become(t, Exit(local[t], 1))
  /\ UNCHANGED <<scenario, disk, machine>>

\* The buffer read, and the prototype p made of it.
Loaded(l, bytes, p) ==
  IF p = Object!NoObject THEN Exit([l EXCEPT !.data = bytes], 1)
  ELSE [Allocate(l, {"wvmPrototype"}) EXCEPT
          !.held = (@ \ {"wvmPrototype"}) \cup {"proto"},
          !.stage = "execute", !.data = bytes, !.proto = p]

\* Deliberately wrong variant: a file that is no object is read again.
LoadFileAgain(t) ==
  /\ At(t, "fread")
  /\ Become(t, IF Object!wvmReadObjectMemory(disk) = Object!NoObject
               THEN [local[t] EXCEPT !.stage = "size"]
               ELSE Loaded(local[t], disk, Object!wvmReadObjectMemory(disk)))
  /\ UNCHANGED <<scenario, disk, machine>>

\* The rest of wvmReadObject: a file that has become shorter is refused, one
\* that has become longer is read up to the old length.
LoadFile(t) ==
  /\ At(t, "fread")
  /\ Become(t, IF Len(disk) < local[t].size THEN Exit(local[t], 1)
               ELSE Loaded(local[t], SubSeq(disk, 1, local[t].size),
                           Object!wvmReadObjectMemory(SubSeq(disk, 1, local[t].size))))
  /\ UNCHANGED <<scenario, disk, machine>>

\* wvmExecute on the tool's own machine, which is new: the prototype has been
\* verified.  The machine variables serve one tool at a time.
Execute(t) ==
  /\ At(t, "execute") /\ \A u \in Tools : ~At(u, "run")
  /\ VM!wvmExecute(local[t].proto)
  /\ Become(t, [local[t] EXCEPT !.stage = "run"])
  /\ UNCHANGED <<scenario, disk>>

RunInstruction(t) ==
  /\ At(t, "run") /\ VM!Step
  /\ UNCHANGED <<scenario, disk, local>>

\* The next tool's machine.
MachineNew ==
  /\ stackCap' = 4 /\ stack' = [r \in 0..3 |-> VM!Zeroed] /\ stackSize' = 0
  /\ hasError' = FALSE /\ frameDepth' = 0 /\ status' = "idle"
  /\ proto' = VM!NoProto /\ pc' = 0 /\ result' = 1

\* The value is that of register 0; the machine is destroyed.
Finish(t) ==
  /\ At(t, "run") /\ status = "idle"
  /\ Become(t, IF result = 0 THEN GiveUp(t, local[t])
               ELSE IF t = "iwirble" THEN Evaluated(t, local[t], stack[0])
               ELSE Exit([local[t] EXCEPT !.printed = <<[value |-> stack[0]]>>], 0))
  /\ UNCHANGED <<scenario, disk>>
  /\ MachineNew

-----------------------------------------------------------------------------
(* The interpreter's lines.  iwirble_execute is given the words of a line; *)
(* a line is a command, or an expression with the lengths of its words.    *)

\* The words are copied one by one, with a space between them; ';' and NUL
\* end the line.
WordsFit(words) ==
  \A i \in DOMAIN words :
    SumOf(words, i) + (i - 1) + 2 < LineCap

\* iwirble_execute, called by microrl for every line; main returns 0 when the
\* input is over or after :quit.
iwirble_execute(t) ==
  /\ At(t, "repl")
  /\ LET skip == [local[t] EXCEPT !.line = @ + 1] IN
     Become(t,
       IF local[t].line > Len(Job(t).lines) \/ Line(t).command = ":quit"
       THEN [local[t] EXCEPT !.stage = "done", !.code = 0]
       ELSE CASE Line(t).command = ":help" -> skip
              [] Line(t).command = ":opt" ->
                   IF Line(t).level \in 0..3 THEN [skip EXCEPT !.level = Line(t).level] ELSE skip
              [] OTHER -> IF WordsFit(Line(t).words) THEN [local[t] EXCEPT !.stage = "compile"]
                          ELSE skip)
  /\ UNCHANGED <<scenario, disk, machine>>

-----------------------------------------------------------------------------
Proceed(t) ==
  \/ ParseArguments(t) \/ wirbleReadFile(t) \/ Compile(t) \/ CompileTraps(t) \/ wvmCreate(t)
  \/ OpenOutput(t) \/ WriteOutput(t) \/ MeasureFile(t) \/ LoadFile(t)
  \/ Execute(t) \/ RunInstruction(t) \/ Finish(t) \/ iwirble_execute(t)

Over(t) == local[t].stage \in {"done", "killed"}

\* When all tools have ended nothing happens any more.
Ended == (\A t \in Tools : Over(t)) /\ UNCHANGED vars

Next == Ended \/ \E t \in Tools : Proceed(t) \/ Kill(t)

Spec == Init /\ [][Next]_vars

\* Proceed(t) is enabled: the machine variables are free if t needs them.
CanProceed(t) ==
  t \in Tools /\ ~Over(t) /\ (At(t, "execute") => \A u \in Tools : ~At(u, "run"))

\* Every tool is a process of its own, which the system schedules.  This is
\* WF_vars(Proceed(t)) with CanProceed for ENABLED, which TLC evaluates slowly.
Scheduled(t) == []<>~CanProceed(t) \/ []<><<t \in Tools /\ Proceed(t)>>_vars

FairSpec == Spec /\ \A t \in {"wirblecc", "wvm-emit", "wvm-run", "iwirble"} : Scheduled(t)

-----------------------------------------------------------------------------
(* Properties.                                                             *)

\* What an expression prints: its low 32 bits.
Meaning(e) == {VM!FromInt(Narrow(x)) : x \in ExactValues(e)}

\* Whatever the levels, the failed lines and the failed builds before it, the
\* interpreter prints the value of each line it can evaluate, if no
\* intermediate result overflows; without a shortage of memory it evaluates
\* every expression that divides by no zero.
InterpreterRight ==
  "iwirble" \in Tools =>
    \A i \in DOMAIN local["iwirble"].printed :
      LET shown == local["iwirble"].printed[i] IN
      HasValue(shown.source) =>
        \/ shown.value \in Meaning(shown.source)
        \/ shown.value = VM!Nil /\ (scenario.oom \/ Job("iwirble").target = "unknown")

\* What wvm-run has read, once it has: NoObject if it was refused.
HasRead(t) == t = "wvm-run" /\ local[t].data # <<>>
IsPrefix(s, t) == Len(s) <= Len(t) /\ SubSeq(t, 1, Len(s)) = s

\* The compilers that have opened the file; data is all each was going to write.
Writers == {c \in Compilers \cap Tools : local[c].touched}

\* One of the two is the beginning of the other.
Alike(read, own) == own # <<>> /\ (IsPrefix(read, own) \/ IsPrefix(own, read))

\* Two compilers that write the same file, killed or out of disk, and a
\* reader in the middle of it: what is read always starts like the output of
\* one of them and is never put together from two.
NeverMixed ==
  \A t \in Tools : HasRead(t) => \E c \in Writers : Alike(local[t].data, local[c].data)

\* Writing a prototype and reading it gives the same prototype, whatever is
\* left in the file behind it.
RoundTrip ==
  \A t \in Tools, c \in Writers :
    HasRead(t) /\ ~scenario.oom /\ ~Job(c).symbolic /\ IsPrefix(local[c].data, local[t].data)
      => local[t].proto = local[c].proto

\* q is p with zeros for a last part of the instructions and the constants, or
\* with NOPs and no constants.
ZeroTail(q, p) ==
  /\ q.regCount = p.regCount /\ DOMAIN q.instrs = DOMAIN p.instrs
  /\ \E n \in 0..Len(p.instrs) :
       /\ \A i \in DOMAIN p.instrs : q.instrs[i] = IF i <= n THEN p.instrs[i] ELSE Op("NOP", 0, 0, 0)
       /\ DOMAIN q.consts = DOMAIN p.consts \/ (q.consts = <<>> /\ n = 0)
  /\ \E n \in 0..Len(p.consts) : \A i \in DOMAIN q.consts :
       q.consts[i] = IF i <= n THEN p.consts[i] ELSE VM!Zeroed

\* Where the instructions begin in c's file.
CodeStart(c) == HeaderSize + 4 + Len(Job(c).name) + 4 + Len(Job(c).path) + 22

\* An object file with a part missing (a full disk, no memory for the buffer,
\* a file that grew after it was measured) is refused, or it is run as the
\* program's first instructions and NOPs: never with other registers, other
\* instructions or instructions in another order.  A file cut in the strings
\* before the code is read out of step, and is not covered, nor is one with
\* parts missing and more behind it than its buffer holds.
CutKeepsPrefix ==
  \A t \in Tools, c \in Writers :
    LET read == local[t].data
        own == local[c].data
    IN /\ HasRead(t) /\ local[t].proto # Object!NoObject /\ Alike(read, own)
       /\ IsPrefix(read, own) => Len(read) >= CodeStart(c) \/ read = own
       /\ ~IsPrefix(read, own) => Len(read) <= InitBuf
       => ~Job(c).symbolic /\ ZeroTail(local[t].proto, local[c].proto)

\* What wvm-run executes is one program of one compiler, whole or cut short,
\* whatever happened to the file while it was written and read.
ReadsOneProgram == NeverMixed /\ RoundTrip /\ CutKeepsPrefix

\* A compiler that reports a failure has left the previous output alone.
FailureKeepsOutput == \A t \in Tools : local[t].code = 1 => ~local[t].touched

\* However a build ends, every object is freed once, after all that points to
\* it, by one owner; at the end of a tool, and before each new line of the
\* interpreter, nothing is left.  (An expression counts once the parser has
\* handed it over.)
HeapSound ==
  \A t \in Tools : \A a \in Objects :
    /\ local[t].heap[a] # "bad"
    /\ local[t].stage \in {"done", "repl"} => local[t].heap[a] # "live"

\* Every tool ends.
ToolsEnd == \A t \in {"wirblecc", "wvm-emit", "wvm-run", "iwirble"} : <>(t \in Tools => Over(t))
=============================================================================
