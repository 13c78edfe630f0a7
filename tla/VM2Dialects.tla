----------------------------- MODULE VM2Dialects -----------------------------
(***************************************************************************)
(* ichingvm2.c executes two instruction sets on one machine: bytes with    *)
(* the I-Ching prefix go to step_iching, the others to step_native, and    *)
(* each of the two writes arithmetic, flags, loads, stores and branches    *)
(* out for itself.  Here two machines go through the same program, one in  *)
(* each dialect.                                                           *)
(*                                                                         *)
(* A machine has registers, flags, state, heap, and "to": the address an   *)
(* instruction jumps to, if it does (where instructions lie, and how long  *)
(* they are, is left to VM2Assembler and VM2Control; calls, pushes and     *)
(* pops, and blocks are in VM2Control, VM2Memory and VM2Registers).        *)
(* Words have Bits bits and four bytes; the code has 32.                   *)
(***************************************************************************)
EXTENDS Integers, BitOps

CONSTANTS
  Bits,
  HeapSize,   \* ICHINGVM2_HEAP_SIZE
  Values,     \* initial registers, and immediates
  MaxSteps    \* bound of the model: the length of a program

(* Assumed by the module that gives these constants their values. *)
DialectsAssumption ==
  /\ Bits \in {8, 16, 32}
  /\ HeapSize \in 1..(2 ^ Bits - 4)
  /\ Values \subseteq 0..(2 ^ Bits - 1)

VARIABLES
  iching, native,   \* the two machines
  steps,
  compared,         \* history: the operands of the last CMP or SUB, if the
                    \* flags are still its own
  outside           \* history: a byte was loaded from outside of the heap

vars == <<iching, native, steps, compared, outside>>

Word == 2 ^ Bits
Octet == 2 ^ (Bits \div 4)
Regs == 0..1
Heap == 0..(HeapSize - 1)

Set(m, r, v)  == [m EXCEPT !.regs[r] = v % Word]
Jump(m, a)    == [m EXCEPT !.to = {a}]
Negative(v)   == v % Word >= Word \div 2
Fails(m)      == [m EXCEPT !.state = "ERROR"]

Flags(m, zero, negative, carry) ==
  [m EXCEPT !.zero = zero, !.negative = negative, !.carry = carry]

set_flags_arith(m, v, carry) == Flags(m, v % Word = 0, Negative(v), carry)

(* Slip: an equal operand borrows. *)
CompareBorrows(m, a, b) == Flags(m, a = b, Negative(a - b), a <= b)

(* What both dialects do for CMP, and for TEST.                            *)
Compare(m, a, b) == Flags(m, a = b, Negative(a - b), a < b)
Test(m, a, b)    == Flags(m, And(Bits, a, b) = 0, Negative(And(Bits, a, b)), FALSE)

(* Words lie in the heap with the lowest byte first.  The bound is checked *)
(* with a sum that wraps: for the three highest addresses the check passes *)
(* and the access is outside of the heap.                                  *)
WordFits(a) == (a + 3) % Word < HeapSize
Wraps(a)    == WordFits(a) /\ a \notin Heap
Fault(m)    == [m EXCEPT !.state = "FAULT"]

load_word(m, dst, a) ==
  CASE ~ WordFits(a) -> Set(m, dst, 0)
    [] Wraps(a)      -> Fault(m)
    [] OTHER -> Set(m, dst, m.heap[a] + Octet * m.heap[a + 1] + Octet ^ 2 * m.heap[a + 2]
                              + Octet ^ 3 * m.heap[a + 3])

store_word(m, a, v) ==
  CASE ~ WordFits(a) -> m
    [] Wraps(a)      -> Fault(m)
    [] OTHER -> [m EXCEPT !.heap = [x \in Heap |->
                   IF x \in a..(a + 3) THEN (v \div Octet ^ (x - a)) % Octet ELSE @[x]]]

store_byte(m, a, v) == IF a \in Heap THEN [m EXCEPT !.heap[a] = v % Octet] ELSE m

Shl(a, b) == a * 2 ^ (b % Bits)
Shr(a, b) == a \div 2 ^ (b % Bits)
Sar(a, b) == (IF Negative(a) THEN a - Word ELSE a) \div 2 ^ (b % Bits)

-----------------------------------------------------------------------------
(* step_iching, for an opcode, the low bits of the modifier (sub), two     *)
(* registers and an optional immediate, a set of at most one number.       *)

Second(m, i) == IF i.imm = {} THEN m.regs[i.src] ELSE CHOOSE v \in i.imm : TRUE

iching_branch(m, sub, target) ==
  LET taken == CASE sub = 1 -> TRUE
                 [] sub = 2 -> m.zero
                 [] sub = 3 -> ~ m.zero
                 [] sub = 4 -> m.carry
                 [] sub = 5 -> m.carry \/ m.zero
                 [] sub = 6 -> ~ m.carry /\ ~ m.zero
                 [] sub = 7 -> ~ m.carry
  IN  IF taken THEN Jump(m, target) ELSE m

iching_gather(m, i, a, b) ==
  CASE i.sub = 1 -> set_flags_arith(Set(m, i.dst, a - b), a - b, a < b)
    [] i.sub = 2 -> Set(m, i.dst, a * b)
    [] i.sub \in {3, 4} /\ b = 0 -> Fails(m)
    [] i.sub = 3 /\ b # 0 -> Set(m, i.dst, a \div b)
    [] i.sub = 4 /\ b # 0 -> Set(m, i.dst, a % b)
    [] OTHER -> set_flags_arith(Set(m, i.dst, a + b), a + b, a + b >= Word)

iching_effect(m, i, a, r, b) ==
  LET Is(op, sub) == i.op = op /\ i.sub = sub
  IN  CASE Is(0, 1)  -> IF WordFits(r) THEN load_word(m, i.dst, r) ELSE Set(m, i.dst, 0)
        [] Is(0, 2)  -> Set(m, i.dst, IF r \in Heap THEN m.heap[r] ELSE 0)
        [] Is(2, i.sub) -> iching_branch(m, i.sub, b)
        [] Is(12, 1) -> Set(m, i.dst, a + 1)
        [] Is(12, 0) -> Set(m, i.dst, a + (IF i.imm = {} THEN 1 ELSE b))
        [] Is(17, 1) -> IF WordFits(a) THEN store_word(m, a, r) ELSE m
        [] Is(17, 2) -> store_byte(m, a, r)
        [] i.op = 24 -> iching_gather(m, i, a, b)
        [] Is(27, 1) -> Test(m, a, b)
        [] i.op = 32 -> Set(m, i.dst, And(Bits, r, IF i.imm = {} THEN Octet - 1 ELSE b))
        [] Is(38, 1) -> Set(m, i.dst, Shl(a, b))
        [] Is(38, 2) -> Set(m, i.dst, Shr(a, b))
        [] Is(38, 3) -> Set(m, i.dst, Sar(a, b))
        [] Is(46, 0) -> Set(m, i.dst, r)
        [] Is(46, 1) -> Set(m, i.dst, Word - 1 - a)
        [] Is(46, 2) -> Set(m, i.dst, Word - a)
        [] Is(47, 0) -> store_byte(m, a, r)
        [] Is(48, 1) -> Set(m, i.dst, b)
        [] Is(50, 1) -> Set(Set(m, i.dst, r), i.src, a)
        [] Is(52, 0) -> Set(m, i.dst, a + 1)
        [] Is(52, 1) -> Set(m, i.dst, Word + a - 1)
        [] Is(61, 0) -> Set(m, i.dst, r)
        [] i.op = 61 /\ i.sub \in {1, 2} -> Compare(m, a, b)
        [] Is(62, 1) -> Set(m, i.dst, And(Bits, a, b))
        [] Is(62, 2) -> Set(m, i.dst, Xor(Bits, a, b))
        [] Is(62, 3) -> Set(m, i.dst, Or(Bits, a, b))
        [] i.op = 63 /\ i.sub # 2 -> Set(m, i.dst, IF i.imm = {} THEN 0 ELSE b)

step_iching(m, i) == iching_effect(m, i, m.regs[i.dst], m.regs[i.src], Second(m, i))

-----------------------------------------------------------------------------
(* step_native, for a mnemonic, two registers and an optional immediate.   *)

Jumps == {"JMP", "JE", "JNE", "JL", "JLE", "JG", "JGE", "JC", "JNC"}

(* Slip: JLE looks at the carry only. *)
native_jump_carry(m, name, target) ==
  LET taken == CASE name = "JMP"           -> TRUE
                 [] name = "JE"            -> m.zero
                 [] name = "JNE"           -> ~ m.zero
                 [] name \in {"JL", "JLE", "JC"} -> m.carry
                 [] name = "JG"            -> ~ m.zero /\ ~ m.carry
                 [] name \in {"JGE", "JNC"} -> ~ m.carry
  IN  IF taken THEN Jump(m, target) ELSE m

native_jump(m, name, target) ==
  LET taken == CASE name = "JMP"           -> TRUE
                 [] name = "JE"            -> m.zero
                 [] name = "JNE"           -> ~ m.zero
                 [] name \in {"JL", "JC"}  -> m.carry
                 [] name = "JLE"           -> m.zero \/ m.carry
                 [] name = "JG"            -> ~ m.zero /\ ~ m.carry
                 [] name \in {"JGE", "JNC"} -> ~ m.carry
  IN  IF taken THEN Jump(m, target) ELSE m

native_effect(m, i, a, r, b) ==
  LET Is(name) == i.name = name
  IN  CASE Is("ADD") -> set_flags_arith(Set(m, i.dst, a + b), a + b, a + b >= Word)
        [] Is("SUB") -> set_flags_arith(Set(m, i.dst, a - b), a - b, a < b)
        [] Is("MUL") -> Set(m, i.dst, a * b)
        [] i.name \in {"DIV", "MOD"} /\ b = 0 -> Fails(m)
        [] Is("DIV") /\ b # 0 -> Set(m, i.dst, a \div b)
        [] Is("MOD") /\ b # 0 -> Set(m, i.dst, a % b)
        [] Is("INC") -> Set(m, i.dst, a + 1)
        [] Is("DEC") -> Set(m, i.dst, Word + a - 1)
        [] Is("NEG") -> Set(m, i.dst, Word - a)
        [] Is("AND") -> Set(m, i.dst, And(Bits, a, b))
        [] Is("OR")  -> Set(m, i.dst, Or(Bits, a, b))
        [] Is("XOR") -> Set(m, i.dst, Xor(Bits, a, b))
        [] Is("NOT") -> Set(m, i.dst, Word - 1 - a)
        [] Is("SHL") -> Set(m, i.dst, Shl(a, b))
        [] Is("SHR") -> Set(m, i.dst, Shr(a, b))
        [] Is("SAR") -> Set(m, i.dst, Sar(a, b))
        [] i.name \in {"CMP", "CMPI"} -> Compare(m, a, b)
        [] Is("TEST") -> Test(m, a, b)
        [] i.name \in Jumps -> native_jump(m, i.name, b)
        [] Is("MOV")  -> Set(m, i.dst, r)
        [] Is("MOVI") -> Set(m, i.dst, b)
        [] Is("XCHG") -> Set(Set(m, i.dst, r), i.src, a)
        [] Is("LDR")  -> load_word(m, i.dst, r)
        [] Is("STR")  -> store_word(m, a, r)
        [] Is("LDRB") -> IF r \in Heap THEN Set(m, i.dst, m.heap[r]) ELSE m
        [] Is("STRB") -> store_byte(m, a, r)

step_native(m, i) == native_effect(m, i, m.regs[i.dst], m.regs[i.src], Second(m, i))

-----------------------------------------------------------------------------
(* The instructions that both dialects have: the mnemonic of the one, the  *)
(* opcode and sub of the other.  Either operand kind for the first group   *)
(* (is_two_reg_imm_compat), immediates for the second (is_imm_native),     *)
(* registers for the third.                                                *)
Pair(name, op, sub) == [name |-> name, op |-> op, sub |-> sub]

EitherKind ==
  {Pair("ADD", 24, 0), Pair("SUB", 24, 1), Pair("MUL", 24, 2), Pair("DIV", 24, 3),
   Pair("MOD", 24, 4), Pair("AND", 62, 1), Pair("XOR", 62, 2), Pair("OR", 62, 3),
   Pair("SHL", 38, 1), Pair("SHR", 38, 2), Pair("SAR", 38, 3), Pair("CMP", 61, 1),
   Pair("CMP", 61, 2), Pair("TEST", 27, 1)}

ByImmediate ==
  {Pair("MOVI", 63, 1), Pair("MOVI", 63, 0), Pair("MOVI", 48, 1), Pair("CMPI", 61, 1),
   Pair("JMP", 2, 1), Pair("JE", 2, 2), Pair("JNE", 2, 3), Pair("JL", 2, 4),
   Pair("JLE", 2, 5), Pair("JG", 2, 6), Pair("JGE", 2, 7), Pair("JC", 2, 4),
   Pair("JNC", 2, 7)}

ByRegister ==
  {Pair("INC", 52, 0), Pair("INC", 12, 1), Pair("INC", 12, 0), Pair("DEC", 52, 1),
   Pair("NEG", 46, 2), Pair("NOT", 46, 1), Pair("MOV", 61, 0), Pair("MOV", 46, 0),
   Pair("XCHG", 50, 1), Pair("LDR", 0, 1), Pair("STR", 17, 1), Pair("LDRB", 0, 2),
   Pair("STRB", 17, 2), Pair("STRB", 47, 0)}

Immediates == {{v} : v \in Values}

Instruction(pair, dst, src, imm) ==
  [name |-> pair.name, op |-> pair.op, sub |-> pair.sub, dst |-> dst, src |-> src, imm |-> imm]

Machine(regs) ==
  [regs |-> regs, zero |-> FALSE, negative |-> FALSE, carry |-> FALSE,
   state |-> "RUNNING", heap |-> [a \in Heap |-> 0], to |-> {}]

Init == /\ \E regs \in [Regs -> Values] : iching = Machine(regs) /\ native = Machine(regs)
        /\ steps = 0 /\ compared = << >> /\ outside = FALSE

(* Arithmetic instructions other than ADD and SUB leave the flags alone.   *)
Execute(i) ==
  /\ steps < MaxSteps
  /\ iching.state = "RUNNING" /\ native.state = "RUNNING"
  /\ iching' = step_iching([iching EXCEPT !.to = {}], i)
  /\ native' = step_native([native EXCEPT !.to = {}], i)
  /\ steps' = steps + 1
  /\ compared' = CASE i.name \in {"CMP", "CMPI", "SUB"} ->
                        <<native.regs[i.dst], Second(native, i)>>
                   [] i.name \in {"ADD", "TEST"} -> << >>
                   [] OTHER -> compared
  /\ outside' = (outside \/ (i.name = "LDRB" /\ native.regs[i.src] \notin Heap))

Next == \E dst, src \in Regs :
          \/ \E pair \in EitherKind, imm \in Immediates \cup {{}} :
               Execute(Instruction(pair, dst, src, imm))
          \/ \E pair \in ByImmediate, imm \in Immediates :
               Execute(Instruction(pair, dst, src, imm))
          \/ \E pair \in ByRegister : Execute(Instruction(pair, dst, src, {}))

Spec == Init /\ [][Next]_vars

-----------------------------------------------------------------------------
(* A program means the same in both dialects: registers, flags, heap, the  *)
(* address jumped to and the state agree after every instruction, until a  *)
(* byte is loaded from outside of the heap (step_iching clears the         *)
(* register, step_native leaves it).                                       *)
DialectsAgree == ~ outside => iching = native

(* After a comparison or a subtraction, and whatever comes in between but  *)
(* leaves the flags, the branches of both dialects decide by the order of  *)
(* the operands as numbers without a sign.                                 *)
BranchOrders ==
  ~ outside /\ compared # << >> =>
    LET a == compared[1]
        b == compared[2]
        Order == [JE |-> a = b, JNE |-> a # b, JL |-> a < b,
                  JLE |-> a <= b, JG |-> a > b, JGE |-> a >= b]
        Taken(m) == m.to # {}
        Fresh(m) == [m EXCEPT !.to = {}]
    IN  \A pair \in ByImmediate : pair.name \in DOMAIN Order =>
          /\ Taken(native_jump(Fresh(native), pair.name, 0)) = Order[pair.name]
          /\ Taken(iching_branch(Fresh(iching), pair.sub, 0)) = Order[pair.name]
=============================================================================
