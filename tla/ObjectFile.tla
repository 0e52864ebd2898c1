----------------------------- MODULE ObjectFile -----------------------------
(***************************************************************************)
(* The bytes of a WVM object file (wvm_emit.c): a header, then one         *)
(* prototype.  A file is a sequence of bytes; the fields have the widths   *)
(* of the code, a byte has Base values (256 in the code, fewer here, so    *)
(* that TLC's integers hold four bytes).  Writing and reading both go on   *)
(* after a failure: a write that cannot grow its buffer leaves the field   *)
(* out, a read past the end gives zero and stays where it is.              *)
(***************************************************************************)
EXTENDS Integers, Sequences

CONSTANTS Base,        \* values of a byte (256)
          HeaderSize,  \* sizeof (WVMFileHeader) (56)
          InitBuf,     \* capacity of a new buffer (256)
          MaxCells,    \* bound: the longest array calloc can provide
          OpOrder,     \* the opcodes, in the order of WVMOpcodeEnum
          Verified(_)  \* wvmVerifyPrototype

Magic == <<1, 2, 3, 4>>
IntTag == <<0, 0, 3, 5>>   \* the upper half of WVM_NANBOX_TAG_INT

Zeros(n) == [i \in 1..n |-> 0]

\* What a byte counts in its place, and the values of four bytes.
Place == <<1, Base, Base * Base, Base * Base * Base>>
FourBytes == Base * Base * Base * Base

\* n as w bytes, at most four, the lowest first, and back.
Bytes(n, w) == [i \in 1..w |-> (n \div Place[i]) % Base]

Unsigned(bytes) ==
  LET sum[i \in 0..Len(bytes)] == IF i = 0 THEN 0 ELSE sum[i - 1] + bytes[i] * Place[i]
  IN sum[Len(bytes)]

\* uint32_t to int32_t.
Signed(n) == IF n >= FourBytes \div 2 THEN n - FourBytes ELSE n

-----------------------------------------------------------------------------
(* Words of 64 bits.  An instruction is its opcode, two bytes for each     *)
(* register; an immediate or a constant index takes the four after A.      *)

OpNumber(op) == CHOOSE n \in 0..(Len(OpOrder) - 1) : OpOrder[n + 1] = op
OpName(n) == IF n < Len(OpOrder) THEN OpOrder[n + 1] ELSE "INVALID"

WideOps == {"LOAD_IMM", "LOAD_CONST"}

\* WVM_ENCODE_OP_RRR, WVM_ENCODE_OP_R_IMM32 and WVM_ENCODE_OP_R_CONST.
EncodeInstr(i) ==
  <<OpNumber(i.op)>> \o Bytes(i.a, 2)
  \o (IF i.op \in WideOps THEN Bytes(i.k, 4) ELSE Bytes(i.b, 2) \o Bytes(i.c, 2)) \o <<0>>

\* The WVM_DECODE_ macros.
DecodeInstr(w) ==
  LET op == OpName(w[1])
      wide == Unsigned(SubSeq(w, 4, 7))
  IN [op |-> op, a |-> Unsigned(SubSeq(w, 2, 3)),
      b |-> IF op \in WideOps THEN 0 ELSE Unsigned(SubSeq(w, 4, 5)),
      c |-> IF op \in WideOps THEN 0 ELSE Unsigned(SubSeq(w, 6, 7)),
      k |-> IF op = "LOAD_IMM" THEN Signed(wide) ELSE IF op = "LOAD_CONST" THEN wide ELSE 0]

\* WVM_VALUE_FROM_INT; words without a tag are floats.
EncodeValue(v) == Bytes(v.n, 4) \o (IF v.tag = "int" THEN IntTag ELSE Zeros(4))
DecodeValue(w) ==
  [tag |-> IF SubSeq(w, 5, 8) = IntTag THEN "int" ELSE "float",
   n |-> Signed(Unsigned(SubSeq(w, 1, 4)))]

-----------------------------------------------------------------------------
(* Writing.  A buffer is the bytes written; cap is its capacity when the   *)
(* memory is exhausted: it was allocated, and cannot grow.                 *)

\* The writers: all of the chunk, or none of it.
wvmBufferWriteBytes(buf, chunk, oom, cap) ==
  IF oom /\ Len(buf) + Len(chunk) > cap THEN buf ELSE buf \o chunk

wvmBufferWriteString(text) == <<Bytes(Len(text), 4), text>>

\* The chunks of a prototype.  paramCount, isVararg, strCount and protoCount
\* are 0 in every prototype the encoder makes; all lines are 0.
wvmSerializePrototype(p) ==
  wvmBufferWriteString(p.name) \o wvmBufferWriteString(p.source)
  \o <<Bytes(p.regCount, 2), Bytes(0, 2), Bytes(0, 1), Bytes(0, 1),
       Bytes(Len(p.instrs), 4), Bytes(Len(p.consts), 4), Bytes(0, 4), Bytes(0, 4)>>
  \o [i \in DOMAIN p.instrs |-> EncodeInstr(p.instrs[i])]
  \o [i \in DOMAIN p.consts |-> EncodeValue(p.consts[i])]
  \o <<Bytes(Len(p.instrs), 4)>>
  \o [i \in DOMAIN p.instrs |-> Zeros(4)]

\* The version, the number of sections and the time follow the magic number;
\* nothing reads them, and the checksum is left zero.
Header == Magic \o Zeros(HeaderSize - 4)

\* The buffer after all chunks.
WriteAll(chunks, oom, cap) ==
  LET buffer[i \in 0..Len(chunks)] ==
        IF i = 0 THEN <<>> ELSE wvmBufferWriteBytes(buffer[i - 1], chunks[i], oom, cap)
  IN buffer[Len(chunks)]

\* One file for each capacity with which wvmBufferCreate may leave the buffer
\* when memory is short.
wvmWriteObjectMemory(p, oom) ==
  {WriteAll(<<Header>> \o wvmSerializePrototype(p), oom, cap) :
     cap \in IF oom THEN {0, InitBuf} ELSE {InitBuf}}

-----------------------------------------------------------------------------
(* Reading: d is the file, p the position of the reader.                   *)

\* The position after a read of w bytes, and the number read.
wvm_reader_pull(d, p, w) == IF p + w <= Len(d) THEN p + w ELSE p
Field(d, p, w) == IF p + w <= Len(d) THEN Unsigned(SubSeq(d, p + 1, p + w)) ELSE 0

\* wvmReaderReadString: the position after the text.  A text longer than the
\* rest of the file is not there, and the reader is left before it.  Memory for
\* a text is taken to be there.
AfterString(d, p) == wvm_reader_pull(d, wvm_reader_pull(d, p, 4), Field(d, p, 4))

\* n words of 64 bits: those the file has, and zeros for the others.
Have(d, p, n) == IF n <= (Len(d) - p) \div 8 THEN n ELSE (Len(d) - p) \div 8

\* Deliberately wrong variant: a word that is cut keeps the bytes it has.
WordsPartial(d, p, n) ==
  [i \in 1..n |->
     LET have == SubSeq(d, p + 8 * i - 7, IF p + 8 * i <= Len(d) THEN p + 8 * i ELSE Len(d))
     IN have \o Zeros(8 - Len(have))]

Words(d, p, n) ==
  [i \in 1..n |-> IF i <= Have(d, p, n) THEN SubSeq(d, p + 8 * i - 7, p + 8 * i) ELSE Zeros(8)]

NoObject == [regCount |-> 0, instrs |-> <<>>, consts |-> <<>>]

\* The arrays of wvmDeserializePrototype, from position p on; it gives up
\* when one of them cannot be allocated.
ReadArrays(d, p, regCount, ninstrs, nconsts) ==
  LET afterInstrs == p + 8 * Have(d, p, ninstrs)
      afterConsts == afterInstrs + 8 * Have(d, afterInstrs, nconsts)
  IN IF ninstrs > MaxCells \/ nconsts > MaxCells \/ Field(d, afterConsts, 4) > MaxCells
     THEN NoObject
     ELSE [regCount |-> regCount,
           instrs |-> [i \in 1..ninstrs |-> DecodeInstr(Words(d, p, ninstrs)[i])],
           consts |-> [i \in 1..nconsts |-> DecodeValue(Words(d, afterInstrs, nconsts)[i])]]

\* The fixed fields, from position p on: regCount, paramCount, isVararg and a
\* pad, then the counts of the instructions, constants, strings and prototypes.
ReadFields(d, p) ==
  LET params  == wvm_reader_pull(d, p, 2)
      vararg  == wvm_reader_pull(d, params, 2)
      pad     == wvm_reader_pull(d, vararg, 1)
      instrs  == wvm_reader_pull(d, pad, 1)
      consts  == wvm_reader_pull(d, instrs, 4)
      strings == wvm_reader_pull(d, consts, 4)
      protos  == wvm_reader_pull(d, strings, 4)
  IN ReadArrays(d, wvm_reader_pull(d, protos, 4),
                Field(d, p, 2), Field(d, instrs, 4), Field(d, consts, 4))

wvmDeserializePrototype(d) ==
  ReadFields(d, AfterString(d, AfterString(d, HeaderSize)))

\* wvmReadObjectMemory: the magic number and the prototype's own verifier are
\* the only checks.  NoObject has no instructions and does not verify.
wvmReadObjectMemory(d) ==
  IF Len(d) < HeaderSize \/ SubSeq(d, 1, 4) # Magic \/ ~Verified(wvmDeserializePrototype(d))
  THEN NoObject ELSE wvmDeserializePrototype(d)
=============================================================================
