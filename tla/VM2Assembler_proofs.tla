------------------------ MODULE VM2Assembler_proofs --------------------------
(***************************************************************************)
(* Proofs about VM2Assembler for any sources, and any number of labels and *)
(* bytes of program memory.                                                *)
(***************************************************************************)
EXTENDS VM2Assembler, Lemmas

Names(i, label) == lines[i].is = "label" /\ lines[i].name = label

Emitted == [line : Nat, at : Nat, label : Labels \cup {None}, target : Nat \cup {None}]

(* What has been emitted: instructions of lines that were done, in memory  *)
(* below pc.                                                               *)
OutOK ==
  /\ out \in Seq(Emitted)
  /\ pass = 1 => out = << >>
  /\ pass = 3 => next = Len(lines) + 1
  /\ \A k \in DOMAIN out : /\ out[k].line \in 1..(next - 1)
                           /\ lines[out[k].line].is # "label"
                           /\ out[k].at <= pc

Typed == TypeOK /\ OutOK

-----------------------------------------------------------------------------
(* Finite sets of indices have a least and a greatest element.             *)
LEMMA MinIsIn ==
  ASSUME NEW S \in SUBSET Nat, S # {}
  PROVE  Min(S) \in S /\ \A j \in S : Min(S) <= j
<1>1. \E i \in S : \A j \in S : i <= j
  BY LeastExists
<1>2. QED  BY <1>1 DEF Min

LEMMA MaxIsIn ==
  ASSUME NEW n \in Nat, NEW S \in SUBSET (1..n), S # {}
  PROVE  Max(S) \in S
<1> DEFINE Mirror == {n - k : k \in S}
<1>0. \A k \in S : k \in 1..n /\ n - k \in Nat
  OBVIOUS
<1>1. Mirror \in SUBSET Nat /\ Mirror # {}
  BY <1>0
<1>2. PICK m \in S : Min(Mirror) = n - m
  BY <1>1, MinIsIn
<1>3. \A k \in S : n - m <= n - k
  BY <1>1, <1>2, MinIsIn
<1>4. \A k \in S : m >= k
  BY <1>0, <1>3
<1>5. QED  BY <1>4 DEF Max

-----------------------------------------------------------------------------
(* The sizes of instructions, and what their operands can be.              *)
LEMMA Parts ==
  ASSUME NEW l \in Line
  PROVE  /\ l.is \in {"label", "iching", "native"}
         /\ l.is = "label" => l.name \in Labels
         /\ l.is # "label" => l.args \in Seq(Operand)
         /\ l.is = "iching" => l.ext \in BOOLEAN
         /\ l.is = "native" => l.class \in Classes
  BY DEF Line

LEMMA Operands ==
  ASSUME NEW arg \in Operand
  PROVE  /\ arg # None
         /\ arg.form \in {"reg", "hash", "hex", "decimal", "at", "name"}
         /\ arg.form \in {"at", "name"} => arg.label \in Labels
         /\ arg.label # None => arg.form \in {"at", "name"}
         /\ arg.label \in Labels \cup {None}
  BY NoneAssumption DEF Operand

(* The immediate is one of the operands, with a value, if there is any of  *)
(* the kind the instruction looks at.                                      *)
LEMMA ImmediateIsOperand ==
  ASSUME NEW ins \in Line, ins.is # "label", Immediate(ins) # None
  PROVE  /\ \E k \in DOMAIN ins.args : Immediate(ins) = ins.args[k]
         /\ Immediate(ins) \in Operand
         /\ HasValue(Immediate(ins))
<1>0. ins.args \in Seq(Operand) /\ DOMAIN ins.args = 1..Len(ins.args) /\ Len(ins.args) \in Nat
  BY Parts
<1> SUFFICES \E k \in DOMAIN ins.args : Immediate(ins) = ins.args[k] /\ HasValue(ins.args[k])
  BY <1>0
<1>1. CASE ins.is = "iching"
  <2> DEFINE valued  == {k \in DOMAIN ins.args : HasValue(ins.args[k])}
             decimal == {k \in valued : ins.args[k].form = "decimal"}
             strong  == valued \ decimal
  <2>1. valued # {}
    BY <1>1 DEF Immediate, ImmediateOfIching
  <2>2. CASE strong # {}
    <3>1. Immediate(ins) = ins.args[Max(strong)]
      BY <1>1, <2>1, <2>2 DEF Immediate, ImmediateOfIching
    <3>2. strong \in SUBSET (1..Len(ins.args))
      BY <1>0
    <3>3. Max(strong) \in strong
      BY <3>2, <2>2, <1>0, MaxIsIn
    <3> QED  BY <3>1, <3>3
  <2>3. CASE strong = {}
    <3>1. Immediate(ins) = ins.args[Min(decimal)]
      BY <1>1, <2>1, <2>3 DEF Immediate, ImmediateOfIching
    <3>2. decimal \in SUBSET Nat /\ decimal # {}
      BY <1>0, <2>1, <2>3
    <3>3. Min(decimal) \in decimal
      BY <3>2, MinIsIn
    <3> QED  BY <3>1, <3>3
  <2> QED  BY <2>2, <2>3
<1>2. CASE ins.is # "iching"
  BY <1>0, <1>2 DEF Immediate, ImmediateOfNative
<1> QED  BY <1>1, <1>2

LEMMA EntryIsNamed ==
  ASSUME NEW label, labels \in Seq([name : Labels, addr : Nat]), Known(label)
  PROVE  Entry(label) \in DOMAIN labels /\ labels[Entry(label)].name = label
<1> DEFINE S == {k \in DOMAIN labels : labels[k].name = label}
<1>1. S \in SUBSET Nat /\ S # {}
  BY DEF Known
<1>2. Min(S) \in S /\ \A j \in S : Min(S) <= j
  BY <1>1, MinIsIn
<1> DEFINE m == Min(S)
<1>3. m \in 1..Len(labels) /\ labels[m].name = label
  BY <1>2
<1>4. \A j \in S : m <= j
  BY <1>2
<1> HIDE DEF m
<1>5. \A j \in 1..(m - 1) : j \in DOMAIN labels /\ ~ (m <= j)
  BY <1>3
<1>6. \A j \in 1..(m - 1) : labels[j].name # label
  BY <1>4, <1>5
<1>7. \E k \in DOMAIN labels : /\ labels[k].name = label
                              /\ \A j \in 1..(k - 1) : labels[j].name # label
  BY <1>3, <1>6
<1> QED  BY <1>7 DEF Entry

LEMMA AfterIsWithin ==
  ASSUME NEW at \in 0..MaxProgram, NEW n \in Nat
  PROVE  AfterBytes(at, n) \in at..MaxProgram /\ AfterWord(at) \in at..MaxProgram
  BY SizesAssumption DEF AfterBytes, AfterWord

LEMMA SizesAreNumbers ==
  ASSUME NEW ins
  PROVE  FirstSize(ins) \in Nat /\ OpcodeSize(ins) \in {3, 4} /\ SizeOf(ins) \in {3, 4, 7, 8}
  BY DEF FirstSize, OpcodeSize, SizeOf

(* Elements of the two lists, with their types.                            *)
LEMMA Elements ==
  ASSUME Typed
  PROVE  /\ \A k \in DOMAIN out : /\ out[k].line \in 1..(next - 1) /\ out[k].at \in Nat
                                  /\ out[k].at <= pc /\ lines[out[k].line].is # "label"
                                  /\ out[k].label \in Labels \cup {None}
                                  /\ out[k].target \in Nat \cup {None}
         /\ \A k \in DOMAIN labels : labels[k].name \in Labels /\ labels[k].addr \in Nat
<1>1. \A k \in DOMAIN out : out[k] \in Emitted
  <2>1. out \in Seq(Emitted)
    BY DEF Typed, OutOK
  <2> QED  BY <2>1
<1>2. \A o \in Emitted : /\ o.at \in Nat /\ o.label \in Labels \cup {None}
                        /\ o.target \in Nat \cup {None}
  BY DEF Emitted
<1>3. \A k \in DOMAIN labels : labels[k] \in [name : Labels, addr : Nat]
  <2> DEFINE T == [name : Labels, addr : Nat]
  <2>1. labels \in Seq(T)
    BY DEF Typed, TypeOK
  <2> HIDE DEF T
  <2>2. \A k \in DOMAIN labels : labels[k] \in T
    BY <2>1
  <2> QED  BY <2>2 DEF T
<1> QED  BY <1>1, <1>2, <1>3 DEF Typed, OutOK

LEMMA Sourced == TypeOK => lines \in Seq(Line)
  BY SourceAssumption DEF TypeOK

-----------------------------------------------------------------------------
(* Types, and the order of what has been emitted. *)

LEMMA InitTyped == Init => Typed
  BY SizesAssumption, NoneAssumption DEF Init, Typed, TypeOK, OutOK

(* What the second pass puts in for the reference of an instruction.       *)
LEMMA EmittedIsTyped ==
  ASSUME Typed, SecondInstruction
  PROVE  \E o \in Emitted :
           /\ out' = Append(out, o) /\ o.line = next /\ o.at = pc
           /\ pc' \in pc..MaxProgram
<1> DEFINE ins    == lines[next]
           imm    == Immediate(ins)
           opcode == AfterBytes(pc, OpcodeSize(ins))
           target == IF imm # None /\ imm.label # None
                     THEN labels[Entry(imm.label)].addr ELSE None
           o      == [line |-> next, at |-> pc,
                      label |-> IF imm = None THEN None ELSE imm.label, target |-> target]
<1>1. /\ pass = 2 /\ next \in DOMAIN lines /\ ins \in Line /\ ins.is # "label"
      /\ pc \in 0..MaxProgram /\ next \in Nat
  BY Sourced DEF Typed, TypeOK, SecondInstruction, ToDo
<1>2. /\ out' = Append(out, o)
      /\ pc' = IF imm = None THEN opcode ELSE AfterWord(opcode)
  BY DEF SecondInstruction
<1>3. imm # None => imm \in Operand /\ HasValue(imm)
  BY <1>1, ImmediateIsOperand
<1>4. target \in Nat \cup {None}
  <2> SUFFICES ASSUME imm # None, imm.label # None
               PROVE  labels[Entry(imm.label)].addr \in Nat
    OBVIOUS
  <2>1. Known(imm.label)
    BY <1>3, Operands DEF HasValue
  <2>2. labels \in Seq([name : Labels, addr : Nat])
    BY DEF Typed, TypeOK
  <2>3. Entry(imm.label) \in DOMAIN labels
    BY <2>1, <2>2, EntryIsNamed
  <2>4. \A k \in DOMAIN labels : labels[k].addr \in Nat
    BY Elements
  <2> QED  BY <2>3, <2>4
<1>5. (IF imm = None THEN None ELSE imm.label) \in Labels \cup {None}
  BY <1>3, Operands
<1>6. o \in Emitted
  <2> HIDE DEF imm, target
  <2> QED  BY <1>1, <1>4, <1>5 DEF Emitted
<1>7. OpcodeSize(ins) \in Nat
  BY SizesAreNumbers
<1>8. opcode \in pc..MaxProgram
  BY <1>1, <1>7, AfterIsWithin
<1>9. opcode \in 0..MaxProgram
  BY <1>1, <1>8, SizesAssumption
<1>10. AfterWord(opcode) \in opcode..MaxProgram
  BY <1>9, AfterIsWithin
<1>11. pc' \in pc..MaxProgram
  <2> HIDE DEF opcode, imm
  <2> QED  BY <1>1, <1>2, <1>8, <1>10, SizesAssumption
<1>12. o.line = next /\ o.at = pc
  OBVIOUS
<1> HIDE DEF o
<1> QED  BY <1>2, <1>6, <1>11, <1>12

LEMMA StepTyped == Typed /\ [Next]_vars => Typed'
<1> SUFFICES ASSUME Typed, [Next]_vars  PROVE Typed'
  OBVIOUS
<1>0. /\ lines \in Seq(Line) /\ Len(lines) \in Nat /\ DOMAIN lines = 1..Len(lines)
      /\ lines \in Sources
  BY Sourced DEF Typed, TypeOK
<1>1. CASE UNCHANGED vars
  BY <1>1 DEF vars, Typed, TypeOK, OutOK
<1>2. CASE FirstLabel
  <2>1. lines[next].name \in Labels /\ next \in DOMAIN lines /\ pass = 1
    BY <1>0, <1>2, Parts DEF FirstLabel, ToDo, Typed, TypeOK
  <2>2. labels' \in Seq([name : Labels, addr : Nat]) /\ Len(labels') <= MaxLabels
    <3> DEFINE l == [name |-> lines[next].name, addr |-> pc]
               T == [name : Labels, addr : Nat]
    <3>1. l \in T
      BY <2>1 DEF Typed, TypeOK
    <3>2. labels' = IF Len(labels) < MaxLabels THEN Append(labels, l) ELSE labels
      BY <1>2 DEF FirstLabel
    <3>3. labels \in Seq(T) /\ Len(labels) <= MaxLabels
      BY DEF Typed, TypeOK
    <3> HIDE DEF l, T
    <3>4. labels' \in Seq(T) /\ Len(labels') <= MaxLabels
      BY <3>1, <3>2, <3>3, SizesAssumption
    <3> QED  BY <3>4 DEF T
  <2>3. OutOK' /\ TypeOK'
    BY <1>0, <1>2, <2>1, <2>2 DEF FirstLabel, ToDo, Typed, TypeOK, OutOK
  <2> QED  BY <2>3 DEF Typed
<1>3. CASE FirstInstruction
  <2>1. FirstSize(lines[next]) \in Nat
    BY SizesAreNumbers
  <2>2. pc' \in Nat
    BY <1>3, <2>1 DEF FirstInstruction, Typed, TypeOK
  <2>3. OutOK' /\ TypeOK'
    BY <1>0, <1>3, <2>2 DEF FirstInstruction, ToDo, Typed, TypeOK, OutOK
  <2> QED  BY <2>3 DEF Typed
<1>4. CASE SecondPass
  BY <1>0, <1>4, SizesAssumption DEF SecondPass, Typed, TypeOK, OutOK
<1>5. CASE SecondLabel
  <2>1. labels' \in Seq([name : Labels, addr : Nat]) /\ Len(labels') <= MaxLabels
    <3> DEFINE T == [name : Labels, addr : Nat]
               f == [k \in DOMAIN labels |->
                       IF labels[k].name = lines[next].name
                       THEN [labels[k] EXCEPT !.addr = pc] ELSE labels[k]]
    <3>1. labels' = f
      BY <1>5 DEF SecondLabel
    <3>2. labels \in Seq(T) /\ Len(labels) <= MaxLabels /\ DOMAIN labels = 1..Len(labels)
      BY DEF Typed, TypeOK
    <3>3. \A l \in T : [l EXCEPT !.addr = pc] \in T
      BY DEF Typed, TypeOK
    <3>4. f \in [1..Len(labels) -> T]
      <4> HIDE DEF T
      <4>1. \A k \in DOMAIN labels : labels[k] \in T
        BY <3>2
      <4> QED  BY <3>2, <3>3, <4>1
    <3> HIDE DEF f, T
    <3>5. f \in Seq(T) /\ Len(f) = Len(labels)
      BY <3>2, <3>4
    <3>6. labels' \in Seq(T) /\ Len(labels') <= MaxLabels
      BY <3>1, <3>2, <3>5
    <3> QED  BY <3>6 DEF T
  <2>2. pc \in 0..MaxProgram /\ pass = 2 /\ next \in 1..Len(lines) /\ next' = next + 1
    BY <1>5, <1>0 DEF SecondLabel, ToDo, Typed, TypeOK
  <2>3. placed' \in Seq(0..MaxProgram) /\ Len(placed') = next' - 1
    BY <1>5, <2>2, <1>0 DEF SecondLabel, Typed, TypeOK
  <2>4. OutOK' /\ TypeOK'
    BY <1>0, <1>5, <2>1, <2>2, <2>3 DEF SecondLabel, ToDo, Typed, TypeOK, OutOK
  <2> QED  BY <2>4 DEF Typed
<1>6. CASE SecondInstruction
  <2>1. PICK o \in Emitted : /\ out' = Append(out, o) /\ o.line = next /\ o.at = pc
                             /\ pc' \in pc..MaxProgram
    BY <1>6, EmittedIsTyped
  <2>2. /\ pc \in 0..MaxProgram /\ pass = 2 /\ next \in 1..Len(lines) /\ next' = next + 1
        /\ lines[next].is # "label" /\ UNCHANGED <<lines, pass, labels>>
        /\ placed' = Append(placed, pc)
    BY <1>6, <1>0 DEF SecondInstruction, ToDo, Typed, TypeOK
  <2>3. placed' \in Seq(0..MaxProgram) /\ Len(placed') = next' - 1
    BY <2>2, <1>0 DEF Typed, TypeOK
  <2>4. /\ out' \in Seq(Emitted) /\ DOMAIN out' = 1..(Len(out) + 1) /\ Len(out) \in Nat
        /\ \A k \in 1..Len(out) : out'[k] = out[k]
        /\ out'[Len(out) + 1] = o
    BY <2>1 DEF Typed, OutOK
  <2>5. pc' \in Nat /\ pc <= pc' /\ pc' <= MaxProgram /\ pc \in Nat /\ next \in Nat
    BY <2>1, <2>2, SizesAssumption
  <2>6. \A k \in DOMAIN out' : /\ out'[k].line \in 1..(next' - 1)
                               /\ lines[out'[k].line].is # "label"
                               /\ out'[k].at <= pc'
    <3> TAKE k \in DOMAIN out'
    <3>1. CASE k \in 1..Len(out)
      <4>1. out'[k] = out[k] /\ k \in DOMAIN out
        BY <2>4, <3>1 DEF Typed, OutOK
      <4>2. /\ out[k].line \in 1..(next - 1) /\ lines[out[k].line].is # "label"
            /\ out[k].at <= pc /\ out[k].at \in Nat
        BY <4>1, Elements
      <4> QED  BY <4>1, <4>2, <2>5, <2>2
    <3>2. CASE k = Len(out) + 1
      BY <3>2, <2>1, <2>2, <2>4, <2>5
    <3> QED  BY <3>1, <3>2, <2>4
  <2>7. \A k \in DOMAIN out' : k > 1 => out'[k].at >= out'[k - 1].at
    <3> TAKE k \in DOMAIN out'
    <3> HAVE k > 1
    <3>1. CASE k \in 1..Len(out)
      <4>1. k - 1 \in 1..Len(out) /\ k \in DOMAIN out
        BY <2>4, <3>1 DEF Typed, OutOK
      <4> QED  BY <4>1, <2>4, <3>1 DEF Typed, TypeOK
    <3>2. CASE k = Len(out) + 1
      <4>1. k - 1 \in 1..Len(out) /\ k - 1 \in DOMAIN out
        BY <2>4, <3>2 DEF Typed, OutOK
      <4>2. out[k - 1].at <= pc /\ out[k - 1].at \in Nat
        BY <4>1, Elements
      <4> QED  BY <4>1, <4>2, <2>1, <2>4, <2>5, <3>2
    <3> QED  BY <3>1, <3>2, <2>4
  <2>8. OutOK'
    BY <2>2, <2>4, <2>6 DEF OutOK
  <2>9. TypeOK'
    BY <1>0, <2>2, <2>3, <2>5, <2>7 DEF Typed, TypeOK
  <2> QED  BY <2>8, <2>9 DEF Typed
<1>7. CASE Return
  BY <1>0, <1>7 DEF Return, Typed, TypeOK, OutOK
<1> QED  BY <1>1, <1>2, <1>3, <1>4, <1>5, <1>6, <1>7 DEF Next

(* Types and orders are kept (TypeOK): no byte is emitted outside of the   *)
(* program memory, and every instruction is behind the one before.         *)
THEOREM TypeCorrect == Spec => []TypeOK
<1>1. Typed => TypeOK
  BY DEF Typed
<1> QED  BY InitTyped, StepTyped, <1>1, PTL DEF Spec

-----------------------------------------------------------------------------
(* What the lines read as depends on which labels are known only, and that *)
(* does not change once the first pass is done.                            *)

SameNames == /\ lines' = lines /\ DOMAIN labels' = DOMAIN labels
             /\ \A k \in DOMAIN labels : labels'[k].name = labels[k].name

LEMMA SecondPassKeepsNames ==
  ASSUME Typed, Next, pass # 1
  PROVE  SameNames
<1>1. CASE SecondLabel
  BY <1>1 DEF SecondLabel, SameNames
<1>2. CASE SecondInstruction
  BY <1>2 DEF SecondInstruction, SameNames
<1>3. CASE Return
  BY <1>3 DEF Return, SameNames
<1> QED  BY <1>1, <1>2, <1>3 DEF Next, FirstLabel, FirstInstruction, SecondPass, ToDo

LEMMA ReadingKept ==
  ASSUME SameNames
  PROVE  /\ \A label : Known(label)' = Known(label)
         /\ \A arg : HasValue(arg)' = HasValue(arg)
         /\ \A ins : Immediate(ins)' = Immediate(ins)
         /\ \A ins : Clear(ins)' = Clear(ins)
         /\ \A ins : SizeOf(ins)' = SizeOf(ins)
         /\ \A label : Unique(label)' = Unique(label)
<1>1. \A label : Known(label)' = Known(label)
  BY DEF SameNames, Known
<1>2. \A arg : HasValue(arg)' = HasValue(arg)
  BY <1>1 DEF HasValue
<1>3. \A ins : ImmediateOfIching(ins)' = ImmediateOfIching(ins)
  <2> TAKE ins
  <2> DEFINE valued   == {k \in DOMAIN ins.args : HasValue(ins.args[k])}
             decimal  == {k \in valued : ins.args[k].form = "decimal"}
             strong   == valued \ decimal
  <2>1. valued' = valued
    BY <1>2
  <2>2. decimal' = decimal /\ strong' = strong
    BY <2>1
  <2>3. ImmediateOfIching(ins) =
          IF ~ins.ext \/ valued = {} THEN None
          ELSE IF strong # {} THEN ins.args[Max(strong)] ELSE ins.args[Min(decimal)]
    BY DEF ImmediateOfIching
  <2>4. ImmediateOfIching(ins)' =
          IF ~ins.ext \/ valued' = {} THEN None
          ELSE IF strong' # {} THEN ins.args[Max(strong')] ELSE ins.args[Min(decimal')]
    BY DEF ImmediateOfIching
  <2> HIDE DEF valued, decimal, strong
  <2> QED  BY <2>1, <2>2, <2>3, <2>4
<1>4. \A ins : ImmediateOfNative(ins)' = ImmediateOfNative(ins)
  BY <1>2 DEF ImmediateOfNative
<1>5. \A ins : Immediate(ins)' = Immediate(ins)
  BY <1>3, <1>4 DEF Immediate
<1>6. \A ins : Clear(ins)' = Clear(ins)
  BY <1>2 DEF Clear
<1>7. \A ins : SizeOf(ins)' = SizeOf(ins)
  BY <1>5 DEF SizeOf
<1>8. \A label : Unique(label)' = Unique(label)
  BY DEF SameNames, Unique
<1> QED  BY <1>1, <1>2, <1>5, <1>6, <1>7, <1>8

(* A unique name is the name of one line.                                  *)
LEMMA UniqueIsOne ==
  ASSUME NEW label, Unique(label),
         NEW i \in DOMAIN lines, NEW j \in DOMAIN lines, Names(i, label), Names(j, label)
  PROVE  i = j
  BY DEF Unique, Names

-----------------------------------------------------------------------------
(* References backwards. *)

(* The second pass has noted every label it has passed at its place, so    *)
(* that a reference that is then looked up is to that place.               *)
Followed ==
  pass # 1 => \A k \in DOMAIN labels : \A i \in 1..(next - 1) :
    Names(i, labels[k].name) /\ Unique(labels[k].name) => labels[k].addr = placed[i]

BackInv == Typed /\ Followed /\ BackwardReferences

(* What the second pass does to a line, in terms of what its history keeps.*)
LEMMA SecondSteps ==
  ASSUME Typed, SecondLabel \/ SecondInstruction
  PROVE  /\ pass = 2 /\ pass' = 2 /\ next \in DOMAIN lines /\ next' = next + 1
         /\ next \in Nat /\ pc \in Nat
         /\ lines' = lines /\ placed' = Append(placed, pc)
         /\ DOMAIN placed = 1..(next - 1) /\ DOMAIN placed' = 1..next
         /\ \A i \in 1..(next - 1) : placed'[i] = placed[i]
         /\ placed'[next] = pc
<1>1. /\ pass = 2 /\ pass' = 2 /\ next' = next + 1 /\ lines' = lines
      /\ placed' = Append(placed, pc)
  BY DEF SecondLabel, SecondInstruction, ToDo
<1>2. next \in 1..Len(lines) /\ lines \in Seq(Line) /\ pc \in Nat
  BY Sourced DEF SecondLabel, SecondInstruction, ToDo, Typed, TypeOK
<1>3. placed \in Seq(0..MaxProgram) /\ Len(placed) = next - 1
  BY <1>1 DEF Typed, TypeOK
<1> QED  BY <1>1, <1>2, <1>3

LEMMA ReferenceIsLookedUp ==
  ASSUME Typed, SecondInstruction
  PROVE  \E o \in Emitted :
           /\ out' = Append(out, o) /\ o.line = next /\ o.at = pc
           /\ o.label # None =>
                \E k \in DOMAIN labels : labels[k].name = o.label /\ o.target = labels[k].addr
<1> DEFINE imm    == Immediate(lines[next])
           target == IF imm # None /\ imm.label # None
                     THEN labels[Entry(imm.label)].addr ELSE None
           o      == [line |-> next, at |-> pc,
                      label |-> IF imm = None THEN None ELSE imm.label, target |-> target]
<1>1. out' = Append(out, o)
  BY DEF SecondInstruction
<1>2. PICK e \in Emitted : out' = Append(out, e) /\ e.line = next /\ e.at = pc
  BY EmittedIsTyped
<1>3. o = e
  <2>1. out \in Seq(Emitted)
    BY DEF Typed, OutOK
  <2>2. out'[Len(out) + 1] = e
    BY <1>2, <2>1
  <2> HIDE DEF o
  <2>3. out'[Len(out) + 1] = o
    BY <1>1, <2>1
  <2> QED  BY <2>2, <2>3
<1>4. ASSUME o.label # None
      PROVE  \E k \in DOMAIN labels : labels[k].name = o.label /\ o.target = labels[k].addr
  <2>1. imm # None /\ imm.label # None /\ o.label = imm.label
    BY <1>4
  <2>2. lines[next] \in Line /\ lines[next].is # "label"
    BY Sourced DEF SecondInstruction, ToDo, Typed, TypeOK
  <2>3. Known(imm.label)
    BY <2>1, <2>2, ImmediateIsOperand, Operands DEF HasValue
  <2>4. labels \in Seq([name : Labels, addr : Nat])
    BY DEF Typed, TypeOK
  <2>5. Entry(imm.label) \in DOMAIN labels /\ labels[Entry(imm.label)].name = imm.label
    BY <2>3, <2>4, EntryIsNamed
  <2>6. o.target = labels[Entry(imm.label)].addr
    BY <2>1
  <2> HIDE DEF o, imm
  <2> QED  BY <2>1, <2>5, <2>6
<1> HIDE DEF o
<1> QED  BY <1>1, <1>2, <1>3, <1>4

LEMMA StepBack == BackInv /\ [Next]_vars => BackInv'
<1> SUFFICES ASSUME BackInv, [Next]_vars  PROVE BackInv'
  OBVIOUS
<1>0. Typed /\ Typed'
  BY StepTyped DEF BackInv
<1>1. CASE UNCHANGED vars
  <2>1. SameNames
    BY <1>1 DEF vars, SameNames
  <2>2. \A label : Unique(label)' = Unique(label)
    BY <2>1, ReadingKept
  <2> QED  BY <1>0, <1>1, <2>2 DEF vars, BackInv, Followed, BackwardReferences, Names, Refers
<1>2. CASE FirstLabel \/ FirstInstruction
  BY <1>0, <1>2 DEF FirstLabel, FirstInstruction, ToDo, BackInv, Followed,
     BackwardReferences, Typed, OutOK
<1>3. CASE SecondPass
  <2>1. pass = 1 /\ pass' = 2 /\ next' = 1 /\ out' = << >>
    BY <1>0, <1>3 DEF SecondPass, Typed, OutOK
  <2> QED  BY <1>0, <2>1 DEF BackInv, Followed, BackwardReferences
<1>4. CASE SecondLabel
  <2>1. SameNames /\ out' = out
    BY <1>0, <1>4, SecondPassKeepsNames DEF Next, SecondLabel, ToDo
  <2>2. \A label : Unique(label)' = Unique(label)
    BY <2>1, ReadingKept
  <2>3. Followed'
    <3> SUFFICES ASSUME NEW k \in DOMAIN labels, NEW i \in 1..next,
                        Names(i, labels[k].name), Unique(labels[k].name)
                 PROVE  labels'[k].addr = placed'[i]
      BY <1>0, <1>4, <2>1, <2>2, SecondSteps DEF Followed, SameNames, Names
    <3>1. labels'[k] = IF labels[k].name = lines[next].name
                       THEN [labels[k] EXCEPT !.addr = pc] ELSE labels[k]
      BY <1>4 DEF SecondLabel
    <3>2. Names(next, lines[next].name) /\ next \in DOMAIN lines /\ next \in Nat
      BY <1>0, <1>4, SecondSteps DEF SecondLabel, ToDo, Names
    <3>3. i \in DOMAIN lines /\ labels[k] \in [name : Labels, addr : Nat]
      <4> DEFINE T == [name : Labels, addr : Nat]
      <4>1. lines \in Seq(Line)
        BY <1>0, Sourced DEF Typed
      <4>2. i \in DOMAIN lines
        BY <3>2, <4>1
      <4>3. labels \in Seq(T)
        BY <1>0 DEF Typed, TypeOK
      <4> HIDE DEF T
      <4>4. labels[k] \in T
        BY <4>3
      <4> QED  BY <4>2, <4>4 DEF T
    <3>4. CASE i = next
      <4>1. labels'[k].addr = pc
        BY <3>1, <3>3, <3>4 DEF Names
      <4> QED  BY <1>0, <1>4, <3>4, <4>1, SecondSteps
    <3>5. CASE i # next
      <4>1. labels[k].name # lines[next].name
        BY <3>2, <3>3, <3>5, UniqueIsOne
      <4>2. i \in 1..(next - 1) /\ pass # 1
        BY <1>0, <1>4, <3>2, <3>5, SecondSteps
      <4>3. labels[k].addr = placed[i]
        BY <4>2 DEF BackInv, Followed
      <4> QED  BY <1>0, <1>4, <3>1, <4>1, <4>2, <4>3, SecondSteps
    <3> QED  BY <3>4, <3>5
  <2>4. BackwardReferences'
    <3> SUFFICES ASSUME NEW k \in DOMAIN out, NEW i \in 1..(out[k].line - 1),
                        Refers(out[k], i), Unique(out[k].label)
                 PROVE  out[k].target = placed'[i]
      BY <1>0, <1>4, <2>1, <2>2, SecondSteps DEF BackwardReferences, Refers
    <3>1. out[k].target = placed[i]
      BY DEF BackInv, BackwardReferences
    <3>2. i \in 1..(next - 1)
      BY <1>0, <1>4, Elements, SecondSteps
    <3> QED  BY <1>0, <1>4, <3>1, <3>2, SecondSteps
  <2> QED  BY <1>0, <2>3, <2>4 DEF BackInv
<1>5. CASE SecondInstruction
  <2>1. SameNames /\ labels' = labels
    BY <1>0, <1>5, SecondPassKeepsNames DEF Next, SecondInstruction, ToDo
  <2>2. \A label : Unique(label)' = Unique(label)
    BY <2>1, ReadingKept
  <2>3. /\ next \in Nat /\ pass = 2 /\ next' = next + 1 /\ lines' = lines
        /\ \A i \in 1..(next - 1) : placed'[i] = placed[i]
        /\ lines[next].is # "label"
    BY <1>0, <1>5, SecondSteps DEF SecondInstruction, ToDo
  <2>4. Followed'
    <3> SUFFICES ASSUME NEW k \in DOMAIN labels, NEW i \in 1..next,
                        Names(i, labels[k].name), Unique(labels[k].name)
                 PROVE  labels[k].addr = placed'[i]
      BY <2>1, <2>2, <2>3 DEF Followed, Names
    <3>1. i \in 1..(next - 1)
      BY <2>3 DEF Names
    <3> QED  BY <2>3, <3>1 DEF BackInv, Followed
  <2>5. PICK o \in Emitted :
          /\ out' = Append(out, o) /\ o.line = next
          /\ o.label # None =>
               \E k \in DOMAIN labels : labels[k].name = o.label /\ o.target = labels[k].addr
    BY <1>0, <1>5, ReferenceIsLookedUp
  <2>6. /\ DOMAIN out' = 1..(Len(out) + 1) /\ Len(out) \in Nat /\ DOMAIN out = 1..Len(out)
        /\ \A k \in 1..Len(out) : out'[k] = out[k]
        /\ out'[Len(out) + 1] = o
    <3>1. out \in Seq(Emitted)
      BY <1>0 DEF Typed, OutOK
    <3> QED  BY <2>5, <3>1
  <2>7. BackwardReferences'
    <3> SUFFICES ASSUME NEW k \in DOMAIN out', NEW i \in 1..(out'[k].line - 1),
                        Refers(out'[k], i), Unique(out'[k].label)
                 PROVE  out'[k].target = placed'[i]
      BY <2>2, <2>3 DEF BackwardReferences, Refers
    <3>1. CASE k \in DOMAIN out
      <4>1. out'[k] = out[k]
        BY <2>6, <3>1
      <4>2. out[k].target = placed[i]
        BY <3>1, <4>1 DEF BackInv, BackwardReferences
      <4>3. i \in 1..(next - 1)
        BY <1>0, <2>3, <3>1, <4>1, Elements
      <4> QED  BY <2>3, <4>1, <4>2, <4>3
    <3>2. CASE k = Len(out) + 1
      <4>1. out'[k] = o /\ i \in 1..(next - 1)
        BY <2>5, <2>6, <3>2
      <4>2. PICK j \in DOMAIN labels : labels[j].name = o.label /\ o.target = labels[j].addr
        BY <2>5, <4>1 DEF Refers
      <4>3. Names(i, labels[j].name) /\ Unique(labels[j].name)
        BY <4>1, <4>2 DEF Refers, Names
      <4>4. labels[j].addr = placed[i]
        BY <2>3, <4>1, <4>3 DEF BackInv, Followed
      <4> QED  BY <2>3, <4>1, <4>2, <4>4
    <3> QED  BY <2>6, <3>1, <3>2
  <2> QED  BY <1>0, <2>4, <2>7 DEF BackInv
<1>6. CASE Return
  <2>1. SameNames
    BY <1>6 DEF Return, SameNames
  <2>2. \A label : Unique(label)' = Unique(label)
    BY <2>1, ReadingKept
  <2> QED  BY <1>0, <1>6, <2>2 DEF Return, BackInv, Followed, BackwardReferences, Names, Refers
<1> QED  BY <1>1, <1>2, <1>3, <1>4, <1>5, <1>6 DEF Next

(* Whatever the forms of the operands, and even if the passes disagree     *)
(* about sizes: a reference to a label before it is to where that label is *)
(* (BackwardReferences).                                                   *)
THEOREM BackwardReferencesHold == Spec => []BackwardReferences
<1>1. Init => BackInv
  BY InitTyped DEF Init, BackInv, Followed, BackwardReferences
<1>2. BackInv => BackwardReferences
  BY DEF BackInv
<1> QED  BY <1>1, <1>2, StepBack, PTL DEF Spec

-----------------------------------------------------------------------------
(* References in general. *)

(* Where the first pass puts the lines up to the n-th: one after the other,*)
(* at the sizes it gives them.                                             *)
Positions(pos, n) ==
  /\ pos \in [1..n -> Nat] /\ pos[1] = 0
  /\ \A i \in 1..(n - 1) :
       pos[i + 1] = pos[i] + IF lines[i].is = "label" THEN 0 ELSE FirstSize(lines[i])

(* Labels of a unique name, in the first n lines, are noted at pos.        *)
Noted(pos, n) ==
  \A k \in DOMAIN labels : \A i \in 1..n :
    Names(i, labels[k].name) /\ Unique(labels[k].name) => labels[k].addr = pos[i]

Resolved(pos) ==
  \A k \in DOMAIN out : \A i \in DOMAIN lines :
    Refers(out[k], i) /\ Unique(out[k].label) => out[k].target = pos[i]

(* The passes have agreed up to here.                                      *)
Clean == AllClear /\ Whole

FirstInv ==
  pass = 1 =>
    /\ \E pos : Positions(pos, next) /\ pc = pos[next] /\ Noted(pos, next - 1)
    /\ \A k \in DOMAIN labels : \E j \in 1..(next - 1) : Names(j, labels[k].name)

SecondInv ==
  pass # 1 =>
    \E pos : /\ Positions(pos, Len(lines) + 1)
             /\ Clean => /\ pc = pos[next]
                         /\ \A i \in 1..(next - 1) : placed[i] = pos[i]
                         /\ Noted(pos, Len(lines))
                         /\ Resolved(pos)

ReferencesInv == Typed /\ FirstInv /\ SecondInv

(* An instruction is clear if both passes come to the same size.           *)
LEMMA ClearSizes ==
  ASSUME NEW ins \in Line, ins.is # "label", Clear(ins)
  PROVE  SizeOf(ins) = FirstSize(ins)
<1>0. /\ ins.args \in Seq(Operand) /\ DOMAIN ins.args = 1..Len(ins.args) /\ Len(ins.args) \in Nat
      /\ \A k \in DOMAIN ins.args : ins.args[k] \in Operand
  BY Parts
<1>1. CASE ins.is = "iching"
  <2> DEFINE valued  == {k \in DOMAIN ins.args : HasValue(ins.args[k])}
             decimal == {k \in valued : ins.args[k].form = "decimal"}
             strong  == valued \ decimal
  <2>1. \A k \in DOMAIN ins.args :
          /\ ins.args[k].form # "decimal"
          /\ HasValue(ins.args[k]) <=> LooksImmediate(ins.args[k])
    BY <1>1 DEF Clear, HasValue, LooksImmediate
  <2>2. strong = valued /\ strong \in SUBSET (1..Len(ins.args))
    BY <1>0, <2>1
  <2>3. CASE ~ins.ext
    BY <1>1, <2>3 DEF SizeOf, FirstSize, OpcodeSize, Immediate, ImmediateOfIching
  <2>4. CASE ins.ext /\ valued = {}
    <3>1. Immediate(ins) = None
      BY <1>1, <2>4 DEF Immediate, ImmediateOfIching
    <3>2. ~ \E k \in DOMAIN ins.args : LooksImmediate(ins.args[k])
      BY <2>1, <2>4
    <3> QED  BY <1>1, <3>1, <3>2 DEF SizeOf, FirstSize, OpcodeSize
  <2>5. CASE ins.ext /\ valued # {}
    <3>1. Immediate(ins) = ins.args[Max(strong)]
      BY <1>1, <2>2, <2>5 DEF Immediate, ImmediateOfIching
    <3>2. Max(strong) \in strong
      BY <1>0, <2>2, <2>5, MaxIsIn
    <3>3. Immediate(ins) # None
      BY <1>0, <3>1, <3>2, Operands
    <3>4. \E k \in DOMAIN ins.args : LooksImmediate(ins.args[k])
      BY <2>1, <2>5
    <3> QED  BY <1>1, <2>5, <3>3, <3>4 DEF SizeOf, FirstSize, OpcodeSize
  <2> QED  BY <2>3, <2>4, <2>5
<1>2. CASE ins.is = "native"
  <2>0. ins.class \in Classes
    BY <1>2, Parts
  <2>1. CASE ins.class = "imm"
    <3>1. Len(ins.args) \in {1, 2} /\ HasValue(ins.args[Len(ins.args)])
      BY <1>2, <2>1 DEF Clear
    <3> DEFINE m == Len(ins.args)
    <3>2. m \in DOMAIN ins.args
      <4>1. m \in {1, 2} /\ DOMAIN ins.args = 1..m
        BY <1>0, <3>1
      <4> HIDE DEF m
      <4> QED  BY <4>1
    <3>3. Immediate(ins) = ins.args[Len(ins.args)]
      BY <1>2, <2>1, <3>1 DEF Immediate, ImmediateOfNative
    <3>4. Immediate(ins) # None
      BY <1>0, <3>2, <3>3, Operands
    <3> QED  BY <1>2, <2>1, <3>4 DEF SizeOf, FirstSize, OpcodeSize
  <2>2. CASE ins.class = "compat" /\ Len(ins.args) >= 2
    <3>1. 2 \in DOMAIN ins.args /\ ins.args[2] \in Operand
      BY <1>0, <2>2
    <3>2. HasValue(ins.args[2]) <=> ins.args[2].form \in {"hash", "hex", "decimal"}
      BY <1>2, <2>2 DEF Clear, HasValue
    <3>3. Immediate(ins) # None <=> HasValue(ins.args[2])
      BY <1>0, <1>2, <2>2, <3>1, Operands DEF Immediate, ImmediateOfNative
    <3> QED  BY <1>2, <2>2, <3>2, <3>3 DEF SizeOf, FirstSize, OpcodeSize
  <2>3. CASE ins.class # "imm" /\ ~(ins.class = "compat" /\ Len(ins.args) >= 2)
    BY <1>0, <1>2, <2>3 DEF SizeOf, FirstSize, OpcodeSize, Immediate, ImmediateOfNative
  <2> QED  BY <2>1, <2>2, <2>3
<1> QED  BY <1>1, <1>2, Parts

(* If the passes agree after an instruction, they did before it, and the   *)
(* instruction took the size that the first pass has given it.             *)
LEMMA CleanBefore ==
  ASSUME Typed, SecondInstruction, Clean'
  PROVE  Clean /\ pc' = pc + FirstSize(lines[next])
<1>1. SameNames
  BY SecondPassKeepsNames DEF Next, SecondInstruction, ToDo
<1>2. PICK o \in Emitted : out' = Append(out, o) /\ o.line = next /\ o.at = pc
  BY EmittedIsTyped
<1>3. /\ DOMAIN out' = 1..(Len(out) + 1) /\ Len(out') = Len(out) + 1
      /\ Len(out) \in Nat /\ DOMAIN out = 1..Len(out)
      /\ \A k \in 1..Len(out) : out'[k] = out[k]
      /\ out'[Len(out) + 1] = o
  <2>1. out \in Seq(Emitted)
    BY DEF Typed, OutOK
  <2> QED  BY <1>2, <2>1
<1>4. lines' = lines /\ lines[next] \in Line /\ lines[next].is # "label"
  BY Sourced DEF SecondInstruction, ToDo, Typed, TypeOK
<1>5. \A k \in DOMAIN out' : Clear(lines[out'[k].line])
  BY <1>1, <1>4, ReadingKept DEF Clean, AllClear
<1>6. \A k \in DOMAIN out' : EndOf(k)' = out'[k].at + SizeOf(lines[out'[k].line])
  BY <1>1, <1>4, ReadingKept DEF Clean, Whole
<1>7. AllClear
  BY <1>3, <1>5 DEF AllClear
<1>8. \A k \in DOMAIN out : EndOf(k)' = EndOf(k)
  BY <1>2, <1>3 DEF EndOf
<1>9. Whole
  BY <1>3, <1>6, <1>8 DEF Whole
<1>10. pc' = pc + SizeOf(lines[next])
  <2>1. PICK n : n = Len(out) + 1
    OBVIOUS
  <2>2. EndOf(n)' = pc'
    BY <1>3, <2>1 DEF EndOf
  <2> QED  BY <1>2, <1>3, <1>6, <2>1, <2>2
<1>11. Clear(lines[next])
  BY <1>2, <1>3, <1>5
<1> QED  BY <1>4, <1>7, <1>9, <1>10, <1>11, ClearSizes DEF Clean

LEMMA CleanKept ==
  ASSUME SameNames, UNCHANGED <<out, pc>>
  PROVE  Clean' = Clean
<1>1. \A k : EndOf(k)' = EndOf(k)
  BY DEF EndOf
<1>2. \A ins : Clear(ins)' = Clear(ins) /\ SizeOf(ins)' = SizeOf(ins)
  BY ReadingKept
<1>3. AllClear' = AllClear
  BY <1>2 DEF AllClear, SameNames
<1>4. Whole' = Whole
  BY <1>1, <1>2 DEF Whole, SameNames
<1> QED  BY <1>3, <1>4 DEF Clean

LEMMA StepFirst ==
  ASSUME ReferencesInv, FirstLabel \/ FirstInstruction
  PROVE  FirstInv' /\ SecondInv'
<1> PICK n : n = next + 1
  OBVIOUS
<1>0. /\ pass = 1 /\ pass' = 1 /\ next' = n /\ lines' = lines /\ n = next + 1
      /\ next \in 1..Len(lines) /\ Len(lines) \in Nat /\ DOMAIN lines = 1..Len(lines) /\ pc \in Nat
      /\ labels \in Seq([name : Labels, addr : Nat])
  BY Sourced DEF FirstLabel, FirstInstruction, ToDo, ReferencesInv, Typed, TypeOK
<1>1. \A label : Unique(label)' = Unique(label)
  BY <1>0 DEF Unique
<1>2. PICK pos : Positions(pos, next) /\ pc = pos[next] /\ Noted(pos, next - 1)
  BY <1>0 DEF ReferencesInv, FirstInv
<1> DEFINE size == IF lines[next].is = "label" THEN 0 ELSE FirstSize(lines[next])
<1>a. PICK longer : longer = [i \in 1..n |-> IF i = n THEN pc + size ELSE pos[i]]
  OBVIOUS
<1>3. size \in Nat
  BY SizesAreNumbers
<1>4. pc' = pc + size
  BY <1>0 DEF FirstLabel, FirstInstruction, ToDo
<1> HIDE DEF size
<1>5. \A i \in 1..next : longer[i] = pos[i]
  BY <1>0, <1>a
<1>6. longer[n] = pc' /\ longer \in [1..n -> Nat] /\ longer[1] = 0
  BY <1>0, <1>2, <1>3, <1>4, <1>a DEF Positions
<1>7. \A i \in 1..(n - 1) :
        longer[i + 1] = longer[i] + IF lines[i].is = "label" THEN 0 ELSE FirstSize(lines[i])
  <2> TAKE i \in 1..(n - 1)
  <2>1. CASE i = next
    BY <1>0, <1>2, <1>4, <1>5, <1>6, <2>1 DEF size
  <2>2. CASE i # next
    <3>1. i \in 1..(next - 1) /\ i \in 1..next /\ i + 1 \in 1..next
      BY <1>0, <2>2
    <3> QED  BY <1>2, <1>5, <3>1 DEF Positions
  <2> QED  BY <2>1, <2>2
<1>8. Positions(longer, n)
  BY <1>6, <1>7 DEF Positions
<1>9. /\ \A k \in DOMAIN labels' : \A i \in 1..next :
           Names(i, labels'[k].name) /\ Unique(labels'[k].name) => labels'[k].addr = longer[i]
      /\ \A k \in DOMAIN labels' : \E j \in 1..next : Names(j, labels'[k].name)
  <2>1. \A k \in DOMAIN labels : \E j \in 1..(next - 1) : Names(j, labels[k].name)
    BY <1>0 DEF ReferencesInv, FirstInv
  <2>2. ASSUME NEW k \in DOMAIN labels, NEW i \in 1..next,
               Names(i, labels[k].name), Unique(labels[k].name)
        PROVE  labels[k].addr = longer[i]
    <3>1. PICK j \in 1..(next - 1) : Names(j, labels[k].name)
      BY <2>1
    <3>2. i = j
      BY <1>0, <2>2, <3>1, UniqueIsOne
    <3> QED  BY <1>0, <1>2, <1>5, <2>2, <3>1, <3>2 DEF Noted
  <2>3. CASE labels' = labels
    BY <1>0, <2>1, <2>2, <2>3
  <2>4. CASE /\ lines[next].is = "label"
             /\ labels' = Append(labels, [name |-> lines[next].name, addr |-> pc])
    <3> DEFINE l == [name |-> lines[next].name, addr |-> pc]
    <3>1. /\ DOMAIN labels' = 1..(Len(labels) + 1) /\ DOMAIN labels = 1..Len(labels)
          /\ Len(labels) \in Nat
          /\ \A k \in 1..Len(labels) : labels'[k] = labels[k]
          /\ labels'[Len(labels) + 1].name = lines[next].name
          /\ labels'[Len(labels) + 1].addr = pc
      BY <1>0, <2>4
    <3>2. Names(next, lines[next].name)
      BY <2>4 DEF Names
    <3>3. \A k \in DOMAIN labels' : \E j \in 1..next : Names(j, labels'[k].name)
      BY <1>0, <2>1, <3>1, <3>2
    <3>4. ASSUME NEW k \in DOMAIN labels', NEW i \in 1..next,
                 Names(i, labels'[k].name), Unique(labels'[k].name)
          PROVE  labels'[k].addr = longer[i]
      <4>1. CASE k \in DOMAIN labels
        BY <2>2, <3>1, <3>4, <4>1
      <4>2. CASE k = Len(labels) + 1
        <5>1. i = next
          BY <1>0, <3>1, <3>2, <3>4, <4>2, UniqueIsOne
        <5> QED  BY <1>0, <1>2, <1>5, <3>1, <4>2, <5>1
      <4> QED  BY <3>1, <4>1, <4>2
    <3> QED  BY <3>3, <3>4
  <2> QED  BY <1>0, <2>3, <2>4 DEF FirstLabel, FirstInstruction, ToDo
<1>10. \A i, label : Names(i, label)' = Names(i, label)
  BY <1>0 DEF Names
<1>11. Positions(longer, n)'
  <2>1. \A l : FirstSize(l)' = FirstSize(l)
    BY DEF FirstSize, LooksImmediate
  <2> QED  BY <1>0, <1>8, <2>1 DEF Positions
<1>12. \A m : m = next => Noted(longer, m)'
  BY <1>1, <1>9, <1>10 DEF Noted
<1>13. PICK m : m = next
  OBVIOUS
<1>14. n - 1 = m
  BY <1>0, <1>13
<1> QED  BY <1>0, <1>6, <1>9, <1>10, <1>11, <1>12, <1>13, <1>14 DEF FirstInv, SecondInv

LEMMA StepBetween ==
  ASSUME ReferencesInv, SecondPass
  PROVE  FirstInv' /\ SecondInv'
<1>0. /\ pass = 1 /\ pass' = 2 /\ lines' = lines /\ labels' = labels /\ out = << >> /\ out' = << >>
      /\ next' = 1 /\ pc' = 0 /\ next = Len(lines) + 1 /\ Len(lines) \in Nat
      /\ DOMAIN lines = 1..Len(lines)
  BY Sourced DEF SecondPass, ReferencesInv, Typed, TypeOK, OutOK
<1>1. \A label, i : Unique(label)' = Unique(label) /\ Names(i, label)' = Names(i, label)
  BY <1>0 DEF Unique, Names
<1>2. PICK pos : Positions(pos, next) /\ Noted(pos, next - 1)
  BY <1>0 DEF ReferencesInv, FirstInv
<1>3. Positions(pos, Len(lines) + 1)'
  <2>1. \A l : FirstSize(l)' = FirstSize(l)
    BY DEF FirstSize, LooksImmediate
  <2> QED  BY <1>0, <1>2, <2>1 DEF Positions
<1>4. Noted(pos, Len(lines))'
  BY <1>0, <1>1, <1>2 DEF Noted
<1>5. pos[1] = 0
  BY <1>2 DEF Positions
<1>6. Resolved(pos)' /\ pc' = pos[1] /\ \A i \in 1..0 : placed'[i] = pos[i]
  BY <1>0, <1>5 DEF Resolved
<1> QED  BY <1>0, <1>3, <1>4, <1>6 DEF FirstInv, SecondInv

LEMMA StepSecond ==
  ASSUME ReferencesInv, SecondLabel \/ SecondInstruction \/ Return
  PROVE  FirstInv' /\ SecondInv'
<1>0. /\ pass = 2 /\ pass' \in {2, 3} /\ lines' = lines /\ Typed /\ pc \in Nat /\ next \in Nat
      /\ lines \in Seq(Line) /\ next' \in Nat
  BY Sourced DEF SecondLabel, SecondInstruction, Return, ToDo, ReferencesInv, Typed, TypeOK
<1>1. SameNames
  BY <1>0, SecondPassKeepsNames DEF Next
<1>2. \A label, i : Unique(label)' = Unique(label) /\ Names(i, label)' = Names(i, label)
  BY <1>0, <1>1, ReadingKept DEF Names
<1>3. PICK pos : /\ Positions(pos, Len(lines) + 1)
                 /\ Clean => /\ pc = pos[next]
                             /\ \A i \in 1..(next - 1) : placed[i] = pos[i]
                             /\ Noted(pos, Len(lines))
                             /\ Resolved(pos)
  BY <1>0 DEF ReferencesInv, SecondInv
<1>4. Positions(pos, Len(lines) + 1)'
  <2>1. \A l : FirstSize(l)' = FirstSize(l)
    BY DEF FirstSize, LooksImmediate
  <2> QED  BY <1>0, <1>3, <2>1 DEF Positions
<1>5. ASSUME Clean'
      PROVE  /\ pc' = pos[next']
             /\ \A i \in 1..(next' - 1) : placed'[i] = pos[i]
             /\ Noted(pos, Len(lines))'
             /\ Resolved(pos)'
  <2>1. CASE SecondLabel
    <3>1. UNCHANGED <<out, pc>> /\ lines[next].is = "label"
      BY <2>1 DEF SecondLabel, ToDo
    <3>2. Clean
      BY <1>1, <1>5, <3>1, CleanKept
    <3>3. /\ next \in DOMAIN lines /\ next' = next + 1
          /\ \A i \in 1..(next - 1) : placed'[i] = placed[i]
          /\ placed'[next] = pc
      BY <1>0, <2>1, SecondSteps
    <3>4. pc = pos[next] /\ pc' = pos[next']
      <4>1. next \in 1..(Len(lines) + 1 - 1)
        BY <1>0, <3>3
      <4>2. pos[next] \in Nat
        BY <1>3, <4>1, <1>0 DEF Positions
      <4> QED  BY <1>3, <3>1, <3>2, <3>3, <4>1, <4>2 DEF Positions
    <3>5. \A i \in 1..(next' - 1) : placed'[i] = pos[i]
      BY <1>0, <1>3, <3>2, <3>3, <3>4
    <3>6. Noted(pos, Len(lines))'
      <4> SUFFICES ASSUME NEW k \in DOMAIN labels, NEW i \in 1..Len(lines),
                          Names(i, labels[k].name), Unique(labels[k].name)
                   PROVE  labels'[k].addr = pos[i]
        BY <1>0, <1>1, <1>2 DEF Noted, SameNames
      <4>1. labels'[k] = IF labels[k].name = lines[next].name
                         THEN [labels[k] EXCEPT !.addr = pc] ELSE labels[k]
        BY <2>1 DEF SecondLabel
      <4>2. CASE labels[k].name = lines[next].name
        <5>1. i = next
          BY <1>0, <3>1, <3>3, <4>2, UniqueIsOne DEF Names
        <5>2. labels'[k].addr = pc
          <6> DEFINE T == [name : Labels, addr : Nat]
          <6>1. labels \in Seq(T)
            BY <1>0 DEF Typed, TypeOK
          <6> HIDE DEF T
          <6>2. labels[k] \in T
            BY <6>1
          <6> QED  BY <4>1, <4>2, <6>2 DEF T
        <5> QED  BY <3>4, <5>1, <5>2
      <4>3. CASE labels[k].name # lines[next].name
        BY <1>3, <3>2, <4>1, <4>3 DEF Noted
      <4> QED  BY <4>2, <4>3
    <3>7. Resolved(pos)'
      BY <1>0, <1>2, <1>3, <3>1, <3>2 DEF Resolved, Refers
    <3> QED  BY <3>4, <3>5, <3>6, <3>7
  <2>2. CASE SecondInstruction
    <3>1. Clean /\ pc' = pc + FirstSize(lines[next]) /\ labels' = labels /\ lines[next].is # "label"
      BY <1>0, <1>5, <2>2, CleanBefore DEF SecondInstruction, ToDo
    <3>2. /\ next \in DOMAIN lines /\ next' = next + 1
          /\ \A i \in 1..(next - 1) : placed'[i] = placed[i]
          /\ placed'[next] = pc
      BY <1>0, <2>2, SecondSteps
    <3>3. pc = pos[next] /\ pc' = pos[next']
      <4>1. next \in 1..(Len(lines) + 1 - 1)
        BY <1>0, <3>2
      <4> QED  BY <1>3, <3>1, <3>2, <4>1 DEF Positions
    <3>4. \A i \in 1..(next' - 1) : placed'[i] = pos[i]
      BY <1>0, <1>3, <3>1, <3>2, <3>3
    <3>5. Noted(pos, Len(lines))'
      BY <1>0, <1>2, <1>3, <3>1 DEF Noted
    <3>6. PICK o \in Emitted :
            /\ out' = Append(out, o)
            /\ o.label # None =>
                 \E k \in DOMAIN labels : labels[k].name = o.label /\ o.target = labels[k].addr
      BY <1>0, <2>2, ReferenceIsLookedUp
    <3>7. /\ DOMAIN out' = 1..(Len(out) + 1) /\ Len(out) \in Nat /\ DOMAIN out = 1..Len(out)
          /\ \A k \in 1..Len(out) : out'[k] = out[k]
          /\ out'[Len(out) + 1] = o
      <4>1. out \in Seq(Emitted)
        BY <1>0 DEF Typed, OutOK
      <4> QED  BY <3>6, <4>1
    <3>8. Resolved(pos)'
      <4> SUFFICES ASSUME NEW k \in DOMAIN out', NEW i \in DOMAIN lines,
                          Refers(out'[k], i), Unique(out'[k].label)
                   PROVE  out'[k].target = pos[i]
        BY <1>0, <1>2 DEF Resolved, Refers
      <4>1. CASE k \in DOMAIN out
        BY <1>3, <3>1, <3>7, <4>1 DEF Resolved
      <4>2. CASE k = Len(out) + 1
        <5>1. PICK j \in DOMAIN labels : labels[j].name = o.label /\ o.target = labels[j].addr
          BY <3>6, <3>7, <4>2 DEF Refers
        <5>2. Names(i, labels[j].name) /\ Unique(labels[j].name) /\ i \in 1..Len(lines)
          BY <1>0, <3>7, <4>2, <5>1 DEF Refers, Names
        <5> QED  BY <1>3, <3>1, <3>7, <4>2, <5>1, <5>2 DEF Noted
      <4> QED  BY <3>7, <4>1, <4>2
    <3> QED  BY <3>3, <3>4, <3>5, <3>8
  <2>3. CASE Return
    <3>1. UNCHANGED <<lines, next, pc, labels, out, placed>>
      BY <2>3 DEF Return
    <3>2. Clean
      BY <1>1, <1>5, <3>1, CleanKept
    <3>3. Noted(pos, Len(lines))' /\ Resolved(pos)'
      BY <1>2, <1>3, <3>1, <3>2 DEF Noted, Resolved, Refers
    <3> QED  BY <1>3, <3>1, <3>2, <3>3
  <2> QED  BY <2>1, <2>2, <2>3
<1>6. SecondInv'
  <2> SUFFICES \E p : /\ Positions(p, Len(lines) + 1)'
                      /\ Clean' => /\ pc' = p[next']
                                   /\ \A i \in 1..(next' - 1) : placed'[i] = p[i]
                                   /\ Noted(p, Len(lines))'
                                   /\ Resolved(p)'
    BY DEF SecondInv
  <2> WITNESS pos
  <2> QED  BY <1>4, <1>5
<1>7. pass' # 1
  BY <1>0
<1> QED  BY <1>6, <1>7, Zenon DEF FirstInv

LEMMA InitReferences == Init => ReferencesInv
<1> SUFFICES ASSUME Init  PROVE ReferencesInv
  OBVIOUS
<1>1. PICK pos : pos = [i \in 1..1 |-> 0]
  OBVIOUS
<1>2. Positions(pos, 1)
  BY <1>1 DEF Positions
<1>3. Noted(pos, 0) /\ pc = pos[1] /\ labels = << >> /\ pass = 1 /\ next = 1
  BY <1>1 DEF Init, Noted
<1> QED  BY <1>2, <1>3, InitTyped DEF ReferencesInv, FirstInv, SecondInv

LEMMA StepReferences == ReferencesInv /\ [Next]_vars => ReferencesInv'
<1> SUFFICES ASSUME ReferencesInv, [Next]_vars  PROVE ReferencesInv'
  OBVIOUS
<1>1. Typed'
  BY StepTyped DEF ReferencesInv
<1>2. CASE UNCHANGED vars
  <2>1. SameNames /\ UNCHANGED <<out, pc>>
    BY <1>2 DEF vars, SameNames
  <2>2. Clean' = Clean /\ \A label : Unique(label)' = Unique(label)
    BY <2>1, CleanKept, ReadingKept
  <2>3. \A l : FirstSize(l)' = FirstSize(l)
    BY DEF FirstSize, LooksImmediate
  <2>4. \A label, i : Names(i, label)' = Names(i, label)
    BY <1>2 DEF vars, Names
  <2>5. FirstInv' = FirstInv /\ SecondInv' = SecondInv
    BY <1>2, <2>2, <2>3, <2>4 DEF vars, FirstInv, SecondInv, Positions, Noted, Resolved, Refers
  <2> QED  BY <1>1, <2>5 DEF ReferencesInv
<1>3. CASE Next
  BY <1>1, <1>3, StepFirst, StepBetween, StepSecond DEF Next, ReferencesInv
<1> QED  BY <1>2, <1>3

(* If every instruction is clear and none was cut off, every reference to  *)
(* a label of a unique name, forwards or backwards, is to where that label *)
(* is (References).                                                        *)
THEOREM ReferencesHold == Spec => []References
<1>1. ReferencesInv => References
  <2> SUFFICES ASSUME ReferencesInv, pass = 3, Clean,
                      NEW k \in DOMAIN out, NEW i \in DOMAIN lines,
                      Refers(out[k], i), Unique(out[k].label)
               PROVE  out[k].target = placed[i]
    BY DEF References, Clean
  <2>1. PICK pos : (\A j \in 1..(next - 1) : placed[j] = pos[j]) /\ Resolved(pos)
    BY DEF ReferencesInv, SecondInv
  <2>2. next - 1 = Len(lines) /\ i \in 1..Len(lines)
    BY Sourced DEF ReferencesInv, Typed, OutOK
  <2> QED  BY <2>1, <2>2 DEF Resolved
<1> QED  BY InitReferences, StepReferences, <1>1, PTL DEF Spec

-----------------------------------------------------------------------------
(* The step functions read what the second pass has written. *)

LEMMA ReadFromTypes == Typed => ReadAsWritten
<1> SUFFICES ASSUME Typed, pass = 3, Whole, NEW k \in DOMAIN out,
                    lines[out[k].line].is = "native" => Clear(lines[out[k].line])
             PROVE  TakenFor(k) =
                      IF k = Len(out) /\ Immediate(lines[out[k].line]) = None THEN None
                      ELSE SizeOf(lines[out[k].line])
  BY DEF ReadAsWritten
<1> DEFINE ins == lines[out[k].line]
           imm == IF ins.is = "iching" THEN Immediate(ins) # None
                  ELSE ins.class = "imm" \/ Immediate(ins) # None
<1>1. out \in Seq(Emitted) /\ pc \in Nat /\ lines \in Seq(Line) /\ Len(out) \in Nat
      /\ DOMAIN out = 1..Len(out)
  BY Sourced DEF Typed, TypeOK, OutOK
<1>2. ins \in Line /\ ins.is # "label" /\ out[k].at \in Nat /\ out[k].at <= pc
  <2>1. /\ out[k].line \in 1..(next - 1) /\ ins.is # "label"
        /\ out[k].at \in Nat /\ out[k].at <= pc
    BY Elements
  <2>2. out[k].line \in 1..Len(lines)
    BY <2>1 DEF Typed, OutOK
  <2> HIDE DEF ins
  <2> QED  BY <1>1, <2>1, <2>2 DEF ins
<1>3. imm <=> Immediate(ins) # None
  <2> SUFFICES ASSUME ins.is # "iching", ins.class = "imm"  PROVE Immediate(ins) # None
    OBVIOUS
  <2>1. ins.is = "native"
    BY <1>2, Parts
  <2>2. SizeOf(ins) = FirstSize(ins)
    BY <1>2, <2>1, ClearSizes
  <2> QED  BY <2>1, <2>2 DEF SizeOf, FirstSize, OpcodeSize
<1>4. SizeOf(ins) = OpcodeSize(ins) + IF Immediate(ins) = None THEN 0 ELSE 4
  BY DEF SizeOf
<1>5. OpcodeSize(ins) \in {3, 4}
  BY SizesAreNumbers
<1>6. EndOf(k) = out[k].at + SizeOf(ins)
  BY DEF Whole
<1>7. TakenFor(k) = IF out[k].at + OpcodeSize(ins) >= pc THEN None
                    ELSE IF imm /\ out[k].at + OpcodeSize(ins) + 4 <= pc
                         THEN OpcodeSize(ins) + 4 ELSE OpcodeSize(ins)
  BY DEF TakenFor
<1>8. CASE k = Len(out)
  <2>1. EndOf(k) = pc
    BY <1>8 DEF EndOf
  <2> HIDE DEF ins, imm
  <2> QED  BY <1>2, <1>3, <1>4, <1>5, <1>6, <1>7, <1>8, <2>1 DEF ins
<1>9. CASE k # Len(out)
  <2>1. k + 1 \in DOMAIN out /\ k < Len(out)
    BY <1>1, <1>9
  <2>2. EndOf(k) = out[k + 1].at
    BY <2>1 DEF EndOf
  <2>3. out[k + 1].at \in Nat /\ EndOf(k + 1) <= pc
    <3>1. out[k + 1].at \in Nat
      BY <2>1, Elements
    <3>2. CASE k + 1 < Len(out)
      <4>1. k + 1 + 1 \in DOMAIN out
        BY <1>1, <2>1, <3>2
      <4> QED  BY <3>2, <4>1, Elements DEF EndOf
    <3>3. CASE ~(k + 1 < Len(out))
      BY <1>1, <3>1, <3>3 DEF EndOf
    <3> QED  BY <3>1, <3>2, <3>3
  <2>4. EndOf(k + 1) = out[k + 1].at + SizeOf(lines[out[k + 1].line])
    BY <2>1 DEF Whole
  <2>5. SizeOf(lines[out[k + 1].line]) \in {3, 4, 7, 8}
    BY SizesAreNumbers
  <2>6. out[k + 1].at < pc
    BY <1>1, <2>3, <2>4, <2>5
  <2> HIDE DEF ins, imm
  <2> QED  BY <1>1, <1>2, <1>3, <1>4, <1>5, <1>6, <1>7, <1>9, <2>2, <2>3, <2>6 DEF ins
<1> QED  BY <1>8, <1>9

(* A step takes every instruction for as long as it was emitted, but for a *)
(* last one without an immediate, which the bounds checks refuse           *)
(* (ReadAsWritten).                                                        *)
THEOREM ReadAsWrittenHolds == Spec => []ReadAsWritten
  BY InitTyped, StepTyped, ReadFromTypes, PTL DEF Spec
=============================================================================
