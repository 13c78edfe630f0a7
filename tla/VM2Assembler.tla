---------------------------- MODULE VM2Assembler -----------------------------
(***************************************************************************)
(* ichingvm2_assemble: two passes over the parsed lines, and how the step  *)
(* functions read back what the second pass emits.                         *)
(*                                                                         *)
(* A line is a label or an instruction.  An ICHING instruction has a       *)
(* sub-opcode (".n") or not; a native one is of a class that says what     *)
(* operands it takes.  An operand is known by its form, which is all that  *)
(* decides about sizes: "reg", "#n", "@label", "0x", decimal, a bare name; *)
(* and by the label it names, if any.  Of an instruction that was emitted  *)
(* its place, the label it refers to and the address put there are kept.   *)
(* Lines with an unknown mnemonic take no bytes in either pass and are     *)
(* left out, like comments and empty lines.                                *)
(***************************************************************************)
EXTENDS Integers, Sequences, FiniteSetsExt

CONSTANTS
  None,
  Sources,     \* the sources: sequences of lines
  Labels,      \* names of labels
  MaxLabels,   \* ICHINGVM2_MAX_LABELS
  MaxProgram   \* ICHINGVM2_MAX_PROGRAM

Classes == {"none", "one", "two", "compat", "imm"}
Operand == [form : {"reg", "hash", "hex", "decimal"}, label : {None}]
           \cup [form : {"at", "name"}, label : Labels]
Line    == [is : {"label"}, name : Labels]
           \cup [is : {"iching"}, ext : BOOLEAN, args : Seq(Operand)]
           \cup [is : {"native"}, class : Classes, args : Seq(Operand)]

ASSUME NoneAssumption   == None \notin Labels \cup Nat \cup Operand
ASSUME SourceAssumption == Sources \subseteq Seq(Line)
ASSUME SizesAssumption  == MaxLabels \in Nat /\ MaxProgram \in Nat

VARIABLES
  lines,     \* lines_arr
  pass,      \* 1, 2, and 3 when it has returned
  next,      \* i: the line to do
  pc,
  labels,    \* the names and addresses the passes have noted, in order
  out,       \* history: the instructions emitted
  placed     \* history: where the second pass has put each line it has done

vars == <<lines, pass, next, pc, labels, out, placed>>

-----------------------------------------------------------------------------
(* Sizes in the first pass: by the form of the operands only. *)

(* Slip: an operand that names a label is not counted. *)
LooksImmediateUnlessLabel(arg) == arg.form \in {"hash", "hex"}

LooksImmediate(arg) == arg.form \in {"hash", "at", "hex"}

FirstSize(ins) ==
  IF ins.is = "iching"
  THEN IF ins.ext /\ \E k \in DOMAIN ins.args : LooksImmediate(ins.args[k]) THEN 8 ELSE 4
  ELSE IF \/ ins.class = "imm"
          \/ /\ ins.class = "compat" /\ Len(ins.args) >= 2
             /\ ins.args[2].form \in {"hash", "hex", "decimal"}
       THEN 7 ELSE 3

-----------------------------------------------------------------------------
(* Sizes in the second pass: what the operand turns out to be. *)

Known(label) == \E k \in DOMAIN labels : labels[k].name = label

(* The entry a label is looked up in: the first of that name. *)
Entry(label) == CHOOSE k \in DOMAIN labels :
                  /\ labels[k].name = label
                  /\ \A j \in 1..(k - 1) : labels[j].name # label

(* An operand with a value: a number, or a label that is known.            *)
HasValue(arg) == \/ arg.form \in {"hash", "hex", "decimal"}
                 \/ arg.form \in {"at", "name"} /\ Known(arg.label)

(* The operand that becomes the immediate: the last with a value that is   *)
(* not plain decimal, else the first decimal, which is only looked at when *)
(* nothing has given a value yet; or None.                                 *)
ImmediateOfIching(ins) ==
  LET valued  == {k \in DOMAIN ins.args : HasValue(ins.args[k])}
      decimal == {k \in valued : ins.args[k].form = "decimal"}
      strong  == valued \ decimal
  IN  IF ~ins.ext \/ valued = {} THEN None
      ELSE IF strong # {} THEN ins.args[Max(strong)]
      ELSE ins.args[Min(decimal)]

(* Slip: only a second operand is looked at. *)
ImmediateOfSecond(ins) ==
  IF Len(ins.args) >= 2 /\ ins.class \in {"imm", "compat"} /\ HasValue(ins.args[2])
  THEN ins.args[2] ELSE None

(* Of a native instruction: the second operand, or the only one. *)
ImmediateOfNative(ins) ==
  LET n     == Len(ins.args)
      index == IF n >= 2 THEN 2 ELSE 1
  IN  IF /\ \/ ins.class = "imm" /\ n >= 1
            \/ ins.class = "compat" /\ n >= 2
         /\ HasValue(ins.args[index])
      THEN ins.args[index] ELSE None

Immediate(ins) ==
  IF ins.is = "iching" THEN ImmediateOfIching(ins) ELSE ImmediateOfNative(ins)

OpcodeSize(ins) == IF ins.is = "iching" THEN 4 ELSE 3

(* Slip: a word is not checked against the end. *)
AfterUncheckedWord(at) == at + 4

(* emit_byte and emit_word_le at the end of the program memory: bytes that *)
(* do not fit are dropped one by one, a word as a whole.                   *)
AfterBytes(at, n) == IF at + n <= MaxProgram THEN at + n ELSE MaxProgram
AfterWord(at)     == IF at + 4 <= MaxProgram THEN at + 4 ELSE at

-----------------------------------------------------------------------------
Init == /\ lines \in Sources
        /\ pass = 1 /\ next = 1 /\ pc = 0
        /\ labels = << >> /\ out = << >> /\ placed = << >>

ToDo(p, is) == /\ pass = p
               /\ next <= Len(lines)
               /\ lines[next].is \in is
               /\ next' = next + 1

FirstLabel ==
  /\ ToDo(1, {"label"})
  /\ labels' = IF Len(labels) < MaxLabels
               THEN Append(labels, [name |-> lines[next].name, addr |-> pc])
               ELSE labels
  /\ UNCHANGED <<lines, pass, pc, out, placed>>

FirstInstruction ==
  /\ ToDo(1, {"iching", "native"})
  /\ pc' = pc + FirstSize(lines[next])
  /\ UNCHANGED <<lines, pass, labels, out, placed>>

SecondPass ==
  /\ pass = 1 /\ next > Len(lines)
  /\ pass' = 2 /\ next' = 1 /\ pc' = 0
  /\ UNCHANGED <<lines, labels, out, placed>>

(* Slip: the second pass leaves the addresses of the first. *)
SecondLabelKept ==
  /\ ToDo(2, {"label"})
  /\ placed' = Append(placed, pc)
  /\ UNCHANGED <<lines, pass, pc, labels, out>>

(* A label gets the address the second pass has come to. *)
SecondLabel ==
  /\ ToDo(2, {"label"})
  /\ labels' = [k \in DOMAIN labels |->
                  IF labels[k].name = lines[next].name
                  THEN [labels[k] EXCEPT !.addr = pc] ELSE labels[k]]
  /\ placed' = Append(placed, pc)
  /\ UNCHANGED <<lines, pass, pc, out>>

SecondInstruction ==
  /\ ToDo(2, {"iching", "native"})
  /\ LET ins    == lines[next]
         imm    == Immediate(ins)
         opcode == AfterBytes(pc, OpcodeSize(ins))
     IN  /\ pc' = IF imm = None THEN opcode ELSE AfterWord(opcode)
         /\ out' = Append(out,
              [line   |-> next,
               at     |-> pc,
               label  |-> IF imm = None THEN None ELSE imm.label,
               target |-> IF imm # None /\ imm.label # None
                          THEN labels[Entry(imm.label)].addr ELSE None])
  /\ placed' = Append(placed, pc)
  /\ UNCHANGED <<lines, pass, labels>>

(* It returns; program_size is pc. *)
Return == /\ pass = 2 /\ next > Len(lines)
          /\ pass' = 3
          /\ UNCHANGED <<lines, next, pc, labels, out, placed>>

Next == \/ FirstLabel \/ FirstInstruction \/ SecondPass
        \/ SecondLabel \/ SecondInstruction \/ Return

Spec == Init /\ [][Next]_vars

-----------------------------------------------------------------------------
(* How many bytes a step takes the instruction out[k] to be, or None when  *)
(* the bounds check of step_iching or step_native halts the program there. *)
TakenFor(k) ==
  LET ins    == lines[out[k].line]
      opcode == out[k].at + OpcodeSize(ins)
      imm    == IF ins.is = "iching" THEN Immediate(ins) # None
                ELSE ins.class = "imm" \/ Immediate(ins) # None
  IN  IF opcode >= pc THEN None
      ELSE IF imm /\ opcode + 4 <= pc THEN OpcodeSize(ins) + 4
      ELSE OpcodeSize(ins)

(* Where it ends in memory. *)
EndOf(k) == IF k < Len(out) THEN out[k + 1].at ELSE pc

-----------------------------------------------------------------------------
Refers(o, i) == o.label # None /\ lines[i].is = "label" /\ lines[i].name = o.label

Unique(label) ==
  \E i \in DOMAIN lines : {j \in DOMAIN lines : lines[j].is = "label" /\ lines[j].name = label} = {i}

(* At most MaxLabels labels are noted; every line is placed within the     *)
(* program memory, and instructions never go backwards in it.              *)
TypeOK ==
  /\ lines \in Sources /\ pass \in 1..3
  /\ next \in 1..(Len(lines) + 1) /\ pc \in Nat /\ (pass > 1 => pc <= MaxProgram)
  /\ labels \in Seq([name : Labels, addr : Nat]) /\ Len(labels) <= MaxLabels
  /\ placed \in Seq(0..MaxProgram)
  /\ Len(placed) = CASE pass = 1 -> 0 [] pass = 2 -> next - 1 [] pass = 3 -> Len(lines)
  /\ \A k \in DOMAIN out : k > 1 => out[k].at >= out[k - 1].at

(* Whatever the forms: a reference backwards to a label of a unique name   *)
(* is to where the second pass has put that label.                         *)
BackwardReferences ==
  \A k \in DOMAIN out : \A i \in 1..(out[k].line - 1) :
    Refers(out[k], i) /\ Unique(out[k].label) => out[k].target = placed[i]

(* An instruction for which both passes come to the same size: operands in *)
(* the usual forms, and a value where a native instruction needs one.      *)
Clear(ins) ==
  IF ins.is = "iching"
  THEN \A k \in DOMAIN ins.args :
         ins.args[k].form \in {"reg", "hash", "hex"} \/ (ins.args[k].form = "at" /\ HasValue(ins.args[k]))
  ELSE /\ ins.class = "imm" => Len(ins.args) \in {1, 2} /\ HasValue(ins.args[Len(ins.args)])
       /\ ins.class = "compat" /\ Len(ins.args) >= 2 => ins.args[2].form \notin {"at", "name"}

AllClear == \A k \in DOMAIN out : Clear(lines[out[k].line])

SizeOf(ins) == OpcodeSize(ins) + IF Immediate(ins) = None THEN 0 ELSE 4

(* No byte was dropped at the end of the program memory. *)
Whole == \A k \in DOMAIN out : EndOf(k) = out[k].at + SizeOf(lines[out[k].line])

(* Every reference to a label of a unique name, forwards or backwards, is  *)
(* to where that label is, if the instructions are clear: the sizes of the *)
(* first pass and what the second emits agree ("calculate label            *)
(* addresses").  One decimal number or bare label is enough to break it.   *)
References ==
  pass = 3 /\ AllClear /\ Whole
    => \A k \in DOMAIN out : \A i \in DOMAIN lines :
         Refers(out[k], i) /\ Unique(out[k].label) => out[k].target = placed[i]

(* A step takes an instruction for as long as it was emitted, so that it   *)
(* finds the next one: the second pass, step_iching and step_native agree, *)
(* if native instructions have the value they need.  Only the last one, if *)
(* it has no immediate, is refused: the bounds checks want a byte more.    *)
ReadAsWritten ==
  pass = 3 /\ Whole /\ (\A k \in DOMAIN out : LET ins == lines[out[k].line]
                                             IN  ins.is = "native" => Clear(ins))
    => \A k \in DOMAIN out :
         LET ins == lines[out[k].line]
         IN  TakenFor(k) = IF k = Len(out) /\ Immediate(ins) = None THEN None ELSE SizeOf(ins)
=============================================================================
